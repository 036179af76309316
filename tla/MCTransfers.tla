---------------------------- MODULE MCTransfers ----------------------------
(* Instance of Transfers for TLC. *)
EXTENDS Transfers, TLC

CONSTANTS p1, p2, k1

SeededTwo == <<1, 2>>

WorkerSymmetry == Permutations(Workers)

=============================================================================
