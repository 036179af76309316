------------------------------ MODULE MCLogin ------------------------------
(* Instances of Login for TLC. *)
EXTENDS Login, TLC

CONSTANTS p1, p2, p3

WorkerSymmetry == Permutations(Workers)

=============================================================================
