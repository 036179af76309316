------------------------------ MODULE Principals ------------------------------
(***************************************************************************)
(* get_current_principal (core/deps.py) in front of the money path: the    *)
(* transfers of Transfers on the sessions of Sessions.  A call is admitted *)
(* on the session its access token names; other workers log in, refresh,   *)
(* replay and log out meanwhile.  The two components share the users table *)
(* and nothing else: no call looks at its session again.                   *)
(***************************************************************************)
EXTENDS Transfers

CONSTANTS
  AuthWorkers,  \* threads that serve /auth
  MaxSessions,  \* bound: rows of sessions
  Owner         \* the seeded account each login is for, by the id of its session

VARIABLES
  sessions, reused, expired, rowLock, authPc, authReq, seen, todo,  \* of Sessions
  sid  \* the session each transfer was admitted on

Logins(a) == {f \in 1..MaxSessions : Owner[f] = a}

S == INSTANCE Sessions WITH
  Workers <- AuthWorkers, Expirable <- {},
  Suspendable <- {Logins(a) : a \in Suspendable},
  inactive <- {f \in 1..MaxSessions : \E a \in Accounts : f \in Logins(a) /\ users[a] = "inactive"},
  pc <- authPc, req <- authReq

authVars == <<sessions, reused, expired, rowLock, authPc, authReq, seen, todo>>
principalVars == <<vars, authVars, sid>>

PrincipalsInit ==
  /\ Init
  /\ sessions = <<>> /\ reused = {} /\ expired = {}
  /\ rowLock = [i \in 1..MaxSessions |-> Nobody]
  /\ authPc = [q \in AuthWorkers |-> "idle"]
  /\ authReq = [q \in AuthWorkers |-> S!NoRequest]
  /\ seen = [q \in AuthWorkers |-> FALSE]
  /\ todo = [q \in AuthWorkers |-> {}]
  /\ sid = [p \in Workers |-> 0]

\* The session row is read, then its user, then the handler runs as them.
AdmitSend(p, i) ==
  /\ i \in 1..Len(sessions) /\ ~sessions[i].blocked
  /\ \E s, r \in Accounts, m \in Amounts, k \in Keys \cup {NoKey} :
       s = Owner[sessions[i].family] /\ BeginSend(p, s, r, m, k)
  /\ sid' = [sid EXCEPT ![p] = i]
  /\ UNCHANGED authVars

Money == \E p \in Workers : Step(p) \/ Crash(p)
Operator == \E a \in Suspendable : Deactivate(a)
Auth == \E q \in AuthWorkers : S!Start(q) \/ S!Step(q) \/ S!Crash(q)

PrincipalsNext ==
  \/ \E p \in Workers : \E i \in 1..MaxSessions : AdmitSend(p, i)
  \/ (Money \/ Operator) /\ UNCHANGED <<authVars, sid>>
  \/ UNCHANGED <<vars, sid>> /\ Auth

PrincipalsSpec == PrincipalsInit /\ [][PrincipalsNext]_principalVars

-----------------------------------------------------------------------------
(* A claim of a test the code does not keep. *)

\* "What must never happen is money moving on a session the server has already
\* decided is dead" (test_logout_racing_a_transfer_never_half_completes): no
\* transfer commits on a blocked session.  One that was admitted before the
\* logout, and then waited for a wallet or verified its PIN, does.
DeadSessionsMoveNothing ==
  [][\A p \in Workers :
       pc[p] = "commit" /\ pc'[p] = "done" => ~sessions[sid[p]].blocked]_principalVars

=============================================================================
