------------------------------ MODULE MCPages ------------------------------
(* Instance of Pages for TLC. *)
EXTENDS Pages

SeededTies == <<1, 2, 2>>

=============================================================================
