---------------------------- MODULE MCStatement ----------------------------
(* Instance of Statement for TLC. *)
EXTENDS Statement, TLC

CONSTANTS p1, p2

SeededTwo == <<1, 2>>

WorkerSymmetry == Permutations(Workers)

=============================================================================
