------------------------------ MODULE Sessions ------------------------------
(***************************************************************************)
(* The sessions table of auth_service: issue_tokens, rotate_tokens with    *)
(* reuse detection, _revoke_family and logout, run by concurrent workers   *)
(* in READ COMMITTED transactions.                                         *)
(*                                                                         *)
(* A row is an element of the sequence `sessions`; its index stands for    *)
(* its id.  A worker's uncommitted updates are the rows it has locked: a   *)
(* crash forgets them.  Secrets, hashes and JWTs are left out: a presented *)
(* refresh token names a row and is genuine or not.                        *)
(***************************************************************************)
EXTENDS Integers, Sequences, FiniteSets

CONSTANTS
  Workers,      \* request threads, each with its own database session
  Nobody,       \* the owner of a free lock
  MaxSessions,  \* bound: rows inserted in a behaviour
  Expirable,    \* bound: rows whose expires_at may pass
  Suspendable   \* bound: the families of each user an operator may deactivate

Ids == 1..MaxSessions

ASSUME WorkersAssumption == IsFiniteSet(Workers) /\ Nobody \notin Workers
ASSUME MaxSessionsAssumption == MaxSessions \in Nat
ASSUME EnvironmentAssumption == Expirable \subseteq Ids /\ Suspendable \subseteq SUBSET Ids

VARIABLES
  sessions,  \* committed sessions rows, in insertion order
  expired,   \* rows past their expires_at
  inactive,  \* families whose user is deactivated
  reused,    \* families with a committed TOKEN_REUSE_DETECTED audit row
  rowLock,   \* holder of each row's lock
  pc,        \* where each worker is in its handler
  req,       \* the session row a worker's token names, and whether it is genuine
  seen,      \* is_blocked as the worker read it under the lock
  todo       \* rows the family UPDATE found in its snapshot and has yet to lock

table == <<sessions, reused>>
world == <<expired, inactive>>
vars  == <<table, world, rowLock, pc, req, seen, todo>>

SessionRow == [family: Ids, blocked: BOOLEAN]
Request == [id: Ids \cup {0}, genuine: BOOLEAN]
NoRequest == [id |-> 0, genuine |-> FALSE]
PC == {"idle", "lock", "check", "revoke", "mint", "logout"}

Rows == 1..Len(sessions)
FamilyOf(p) == sessions[req[p].id].family

\* A family is named by the id of the login it descends from.
TypeOK ==
  /\ sessions \in Seq(SessionRow) /\ Len(sessions) <= MaxSessions
  /\ \A i \in Rows : sessions[i].family \in Rows /\ sessions[sessions[i].family].family = sessions[i].family
  /\ expired \subseteq Ids /\ inactive \subseteq Ids /\ reused \subseteq Rows
  /\ rowLock \in [Ids -> Workers \cup {Nobody}]
  /\ pc \in [Workers -> PC]
  /\ req \in [Workers -> Request]
  /\ \A p \in Workers : pc[p] # "idle" => req[p].id \in Rows
  /\ seen \in [Workers -> BOOLEAN]
  /\ todo \in [Workers -> SUBSET Ids]

Init ==
  /\ sessions = <<>> /\ reused = {}
  /\ expired = {} /\ inactive = {}
  /\ rowLock = [i \in Ids |-> Nobody]
  /\ pc = [p \in Workers |-> "idle"]
  /\ req = [p \in Workers |-> NoRequest]
  /\ seen = [p \in Workers |-> FALSE]
  /\ todo = [p \in Workers |-> {}]

-----------------------------------------------------------------------------
Goto(p, l) == pc' = [pc EXCEPT ![p] = l]

\* COMMIT or ROLLBACK, the answer, and the end of the database session.
End(p) ==
  /\ Goto(p, "idle")
  /\ rowLock' = [i \in Ids |-> IF rowLock[i] = p THEN Nobody ELSE rowLock[i]]
  /\ req' = [req EXCEPT ![p] = NoRequest]
  /\ seen' = [seen EXCEPT ![p] = FALSE]
  /\ todo' = [todo EXCEPT ![p] = {}]

Busy == {p \in Workers : pc[p] # "idle"}

\* Room for the rows of every handler in flight.
Room == Len(sessions) + Cardinality(Busy) < MaxSessions

\* issue_tokens: a login or a registration starts a family of its own.
IssueTokens(p) ==
  /\ pc[p] = "idle" /\ Room
  /\ sessions' = Append(sessions, [family |-> Len(sessions) + 1, blocked |-> FALSE])
  /\ UNCHANGED <<reused, world, rowLock, pc, req, seen, todo>>

-----------------------------------------------------------------------------
(* rotate_tokens *)

\* A token whose id is malformed or names no row is refused without a change of
\* state: only the calls that find a row are steps.
BeginRotate(p, i, genuine) ==
  /\ pc[p] = "idle" /\ Room
  /\ Goto(p, "lock")
  /\ req' = [req EXCEPT ![p] = [id |-> i, genuine |-> genuine]]
  /\ UNCHANGED <<table, world, rowLock, seen, todo>>

\* mutant: a plain read, as db.get() was before the lock was introduced
LockSession_Unlocked(p) ==
  /\ pc[p] = "lock"
  /\ seen' = [seen EXCEPT ![p] = sessions[req[p].id].blocked]
  /\ Goto(p, "check")
  /\ UNCHANGED <<table, world, rowLock, req, todo>>

\* SELECT ... FOR UPDATE waits for the row and reads its latest version.
LockSession(p) ==
  /\ pc[p] = "lock"
  /\ rowLock[req[p].id] = Nobody
  /\ rowLock' = [rowLock EXCEPT ![req[p].id] = p]
  /\ seen' = [seen EXCEPT ![p] = sessions[req[p].id].blocked]
  /\ Goto(p, "check")
  /\ UNCHANGED <<table, world, req, todo>>

\* A blocked session replayed, or the right id with the wrong secret; expiry is
\* looked at between the two.
Compromised(p) == seen[p] \/ (req[p].id \notin expired /\ ~req[p].genuine)

\* mutant: the session is not closed on the error path
RefuseRotate_KeepsLock(p) ==
  /\ pc[p] = "check" /\ ~Compromised(p)
  /\ req[p].id \in expired \/ FamilyOf(p) \in inactive
  /\ Goto(p, "idle")
  /\ UNCHANGED <<table, world, rowLock, req, seen, todo>>

RefuseRotate(p) ==
  /\ pc[p] = "check" /\ ~Compromised(p)
  /\ req[p].id \in expired \/ FamilyOf(p) \in inactive
  /\ End(p)
  /\ UNCHANGED <<table, world>>

AcceptRotate(p) ==
  /\ pc[p] = "check" /\ ~Compromised(p)
  /\ req[p].id \notin expired /\ FamilyOf(p) \notin inactive
  /\ Goto(p, "mint")
  /\ UNCHANGED <<table, world, rowLock, req, seen, todo>>

\* mutant: the successor's family is its parent
Successor_OfParent(p) == [family |-> req[p].id, blocked |-> FALSE]
Successor(p) == [family |-> FamilyOf(p), blocked |-> FALSE]

\* The presented link is retired and its successor inserted in one commit.
CommitRotation(p) ==
  /\ pc[p] = "mint"
  /\ sessions' = Append([sessions EXCEPT ![req[p].id].blocked = TRUE], Successor(p))
  /\ End(p)
  /\ UNCHANGED <<reused, world>>

-----------------------------------------------------------------------------
(* _revoke_family: one UPDATE.  It sees the rows committed when it starts,  *)
(* locks them one by one in the order of its scan, which nothing fixes, and *)
(* waits at a row another transaction holds.                                *)

\* mutant: the UPDATE has lost its WHERE clause
StartRevoke_AllFamilies(p) ==
  /\ pc[p] = "check" /\ Compromised(p)
  /\ todo' = [todo EXCEPT ![p] = Rows]
  /\ Goto(p, "revoke")
  /\ UNCHANGED <<table, world, rowLock, req, seen>>

StartRevoke(p) ==
  /\ pc[p] = "check" /\ Compromised(p)
  /\ todo' = [todo EXCEPT ![p] = {i \in Rows : sessions[i].family = FamilyOf(p)}]
  /\ Goto(p, "revoke")
  /\ UNCHANGED <<table, world, rowLock, req, seen>>

RevokeRow(p) ==
  /\ pc[p] = "revoke"
  /\ \E i \in todo[p] :
       /\ rowLock[i] \in {Nobody, p}
       /\ rowLock' = [rowLock EXCEPT ![i] = p]
       /\ todo' = [todo EXCEPT ![p] = @ \ {i}]
  /\ UNCHANGED <<table, world, pc, req, seen>>

CommitRevoke(p) ==
  /\ pc[p] = "revoke" /\ todo[p] = {}
  /\ sessions' = [i \in Rows |->
       [sessions[i] EXCEPT !.blocked = @ \/ rowLock[i] = p]]
  /\ reused' = reused \cup {FamilyOf(p)}
  /\ End(p)
  /\ UNCHANGED world

-----------------------------------------------------------------------------
(* logout, behind the session check of get_current_principal *)

BeginLogout(p, i) ==
  /\ pc[p] = "idle" /\ Room
  /\ ~sessions[i].blocked /\ sessions[i].family \notin inactive
  /\ Goto(p, "logout")
  /\ req' = [req EXCEPT ![p] = [id |-> i, genuine |-> TRUE]]
  /\ UNCHANGED <<table, world, rowLock, seen, todo>>

CommitLogout(p) ==
  /\ pc[p] = "logout"
  /\ rowLock[req[p].id] = Nobody
  /\ sessions' = [sessions EXCEPT ![req[p].id].blocked = TRUE]
  /\ End(p)
  /\ UNCHANGED <<reused, world>>

-----------------------------------------------------------------------------
(* The environment. *)

Crash(p) ==
  /\ pc[p] # "idle"
  /\ End(p)
  /\ UNCHANGED <<table, world>>

\* p waits for a row q holds.
WaitsFor(p, q) ==
  \/ pc[p] \in {"lock", "logout"} /\ rowLock[req[p].id] = q
  \/ /\ pc[p] = "revoke" /\ \E i \in todo[p] : rowLock[i] = q
     /\ \A i \in todo[p] : rowLock[i] \notin {Nobody, p}

\* p is on a cycle of waiting workers: every set that has whom p waits for, and
\* whom its own members wait for, has p.  Who only waits for a member of a cycle
\* is not deadlocked.
Deadlocked(p) ==
  \A R \in SUBSET Workers :
    (\A q \in R \cup {p}, r \in Workers : WaitsFor(q, r) => r \in R) => p \in R

\* PostgreSQL's deadlock detector aborts one of them; the handler answers 500.
DeadlockAbort(p) ==
  /\ Deadlocked(p)
  /\ End(p)
  /\ UNCHANGED <<table, world>>

Expire(i) ==
  /\ i \in Rows \ expired
  /\ expired' = expired \cup {i}
  /\ UNCHANGED <<table, inactive, rowLock, pc, req, seen, todo>>

\* F are the logins of one user, those still to come included.
Deactivate(F) ==
  /\ ~(F \subseteq inactive)
  /\ inactive' = inactive \cup F
  /\ UNCHANGED <<table, expired, rowLock, pc, req, seen, todo>>

Start(p) ==
  \/ IssueTokens(p)
  \/ \E i \in Rows, genuine \in BOOLEAN : BeginRotate(p, i, genuine)
  \/ \E i \in Rows : BeginLogout(p, i)

Step(p) ==
  \/ LockSession(p) \/ RefuseRotate(p) \/ AcceptRotate(p) \/ CommitRotation(p)
  \/ StartRevoke(p) \/ RevokeRow(p) \/ CommitRevoke(p)
  \/ CommitLogout(p) \/ DeadlockAbort(p)

\* The bound on rows is reached.
Full ==
  /\ ~Room /\ \A p \in Workers : pc[p] = "idle"
  /\ UNCHANGED vars

Next ==
  \/ \E p \in Workers : Start(p) \/ Step(p) \/ Crash(p)
  \/ \E i \in Expirable : Expire(i)
  \/ \E F \in Suspendable : Deactivate(F)
  \/ Full

Spec == Init /\ [][Next]_vars

\* Strong, because PostgreSQL grants a row lock in the order it was asked for:
\* a worker that waits is not overtaken for ever by later requests.
FairSpec == Spec /\ \A p \in Workers : SF_vars(Step(p))

-----------------------------------------------------------------------------
(* Correctness. *)

\* A family has at most one live link: overlapping rotations of one token never
\* leave two live descendants, and neither does any mix of rotation, replay and
\* logout ("Two browser tabs refreshing together is enough to trigger it").
AtMostOneLive ==
  \A i, j \in Rows :
    sessions[i].family = sessions[j].family /\ ~sessions[i].blocked /\ ~sessions[j].blocked
      => i = j

LiveIn(f) == \E i \in Rows : sessions[i].family = f /\ ~sessions[i].blocked

\* A family without a live link (logged out, or revoked to the end) never gets
\* one again, whatever was in flight when the last one was blocked.
DeadStaysDead ==
  [][\A f \in Rows : ~LiveIn(f) => ~LiveIn(f)']_vars

LiveLink(f) ==
  IF LiveIn(f) THEN CHOOSE i \in Rows : sessions[i].family = f /\ ~sessions[i].blocked ELSE 0

\* The links anyone can use are those of Families: each commit opens, refreshes
\* or closes one family and leaves every other as it was, and no link of an
\* earlier day is ever current again.
Abstract == INSTANCE Families WITH
  Tokens <- Ids, None <- 0,
  current <- [f \in Ids |-> LiveLink(f)], used <- Rows

ImplementsFamilies == Abstract!Spec

\* Every rotation, replay and logout is answered: a wait for a session row ends,
\* by PostgreSQL's deadlock detector if two replays of one family wait for each
\* other.
EveryHandlerEnds == \A p \in Workers : []<>(pc[p] = "idle")

-----------------------------------------------------------------------------
(* A claim of the documentation the code does not keep. *)

\* "Replaying a spent token revokes the entire family in one statement" (README):
\* once reuse is detected in a family no link of it is live.  The successor that
\* a rotation in flight commits after the UPDATE took its snapshot escapes.
FamilyRevoked == \A f \in reused : ~LiveIn(f)

=============================================================================
