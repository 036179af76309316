----------------------------- MODULE MCSessions -----------------------------
(* Instances of Sessions for TLC. *)
EXTENDS Sessions, TLC

CONSTANTS p1, p2

WorkerSymmetry == Permutations(Workers)

=============================================================================
