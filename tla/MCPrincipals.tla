---------------------------- MODULE MCPrincipals ----------------------------
(* Instance of Principals for TLC. *)
EXTENDS Principals

CONSTANTS p1, q1, k1

SeededTwo == <<1, 2>>
OwnerOne == <<1, 1>>

=============================================================================
