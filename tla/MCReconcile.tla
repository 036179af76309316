---------------------------- MODULE MCReconcile ----------------------------
(* Instance of Reconcile for TLC. *)
EXTENDS Reconcile, TLC

CONSTANTS p1, p2, k1

SeededOne == <<2>>

WorkerSymmetry == Permutations(Workers)

=============================================================================
