----------------------------- MODULE MCRequests -----------------------------
(* Instances of Requests for TLC. *)
EXTENDS Requests, TLC

CONSTANTS p1, p2, k1, k2, k3

SeededTwo == <<1, 2>>
AskedOne == <<[requester |-> 2, payer |-> 1, amount |-> 2]>>
AskedTwo == <<[requester |-> 2, payer |-> 1, amount |-> 3],
              [requester |-> 1, payer |-> 2, amount |-> 3]>>
KeyOne == <<k1>>
KeyThree == <<k1, k2, k3>>

WorkerSymmetry == Permutations(Workers)

=============================================================================
