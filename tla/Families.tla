------------------------------ MODULE Families ------------------------------
(***************************************************************************)
(* What refresh-token rotation promises: a login opens a family with one   *)
(* refresh token, a refresh exchanges the token of one family for a new    *)
(* one, a logout or a detected reuse leaves one family without a token.    *)
(* A token is handed out once, and a family that lost its token is closed. *)
(* No rows, no locks, no transactions.                                     *)
(***************************************************************************)
CONSTANTS
  Tokens,  \* the refresh tokens; a family is named by its first one
  None

VARIABLES
  current,  \* the token that can refresh each family, or None
  used      \* the tokens handed out so far

Init ==
  /\ current = [f \in Tokens |-> None]
  /\ used = {}

HandOut(f, t) ==
  /\ t \notin used
  /\ used' = used \cup {t}
  /\ current' = [current EXCEPT ![f] = t]

LogIn(t) == HandOut(t, t)

Refresh(f, t) == current[f] # None /\ HandOut(f, t)

Close(f) ==
  /\ current[f] # None
  /\ current' = [current EXCEPT ![f] = None]
  /\ UNCHANGED used

Next ==
  \/ \E t \in Tokens : LogIn(t)
  \/ \E f, t \in Tokens : Refresh(f, t)
  \/ \E f \in Tokens : Close(f)

Spec == Init /\ [][Next]_<<current, used>>

=============================================================================
