--------------------------- MODULE SessionsProofs ---------------------------
(***************************************************************************)
(* Theorems about Sessions, for every finite set of workers, every number  *)
(* of session rows, and any rows that expire or families deactivated.      *)
(***************************************************************************)
EXTENDS Sessions, FiniteSetTheorems, TLAPS

-----------------------------------------------------------------------------
(* The inductive invariant. *)

\* Whoever decides about a session, or rotates it, holds its row.
Owned ==
  \A p \in Workers :
    pc[p] \in {"check", "revoke", "mint"} => rowLock[req[p].id] = p

\* What it decides on is what the row says, until it commits.
Fresh ==
  \A p \in Workers :
    /\ pc[p] = "check" => seen[p] = sessions[req[p].id].blocked
    /\ pc[p] = "mint" => ~sessions[req[p].id].blocked

\* Every handler in flight has room for the row it may insert.
Bounded == Len(sessions) + Cardinality(Busy) <= MaxSessions

IInv == TypeOK /\ Bounded /\ Owned /\ Fresh /\ AtMostOneLive

-----------------------------------------------------------------------------
(* The number of busy workers. *)

LEMMA BusyFinite == IsFiniteSet(Busy) /\ Cardinality(Busy) \in Nat
<1>1. IsFiniteSet(Workers) /\ Busy \in SUBSET Workers
  BY WorkersAssumption DEF Busy
<1>2. IsFiniteSet(Busy)
  BY <1>1, FS_Subset
<1> QED BY <1>2, FS_CardinalityType

\* Starting a handler adds one.
LEMMA BusyGrows ==
  ASSUME TypeOK, NEW p \in Workers, pc[p] = "idle", NEW l \in PC, l # "idle", Goto(p, l)
  PROVE  Cardinality(Busy') = Cardinality(Busy) + 1
<1>1. Busy' = Busy \cup {p} /\ p \notin Busy
  BY DEF TypeOK, Goto, Busy
<1> QED BY <1>1, BusyFinite, FS_AddElement

\* Moving on within a handler changes nothing.
LEMMA BusyStays ==
  ASSUME TypeOK, NEW p \in Workers, pc[p] # "idle", NEW l \in PC, l # "idle", Goto(p, l)
  PROVE  Busy' = Busy
BY DEF TypeOK, Goto, Busy

\* Its end takes one away.
LEMMA BusyShrinks ==
  ASSUME TypeOK, NEW p \in Workers, pc[p] # "idle", End(p)
  PROVE  Cardinality(Busy') = Cardinality(Busy) - 1
<1>1. Busy' = Busy \ {p} /\ p \in Busy
  BY DEF TypeOK, End, Goto, Busy
<1> QED BY <1>1, BusyFinite, FS_RemoveElement

-----------------------------------------------------------------------------
(* The rows a request names, and what the end of a handler leaves. *)

LEMMA RowOfRequest ==
  ASSUME TypeOK, Bounded, NEW p \in Workers, pc[p] # "idle"
  PROVE  /\ req[p].id \in Rows /\ req[p].id \in Ids
         /\ sessions[req[p].id] \in SessionRow /\ FamilyOf(p) \in Rows
         /\ Len(sessions) < MaxSessions
<1>1. req[p].id \in Rows /\ Len(sessions) \in Nat /\ Len(sessions) <= MaxSessions
  BY DEF TypeOK, Rows
<1>2. Cardinality(Busy) \in Nat /\ Cardinality(Busy) # 0
  <2>1. p \in Busy
    BY DEF Busy
  <2> QED BY <2>1, BusyFinite, FS_EmptySet
<1>3. Len(sessions) < MaxSessions
  BY <1>1, <1>2, MaxSessionsAssumption DEF Bounded
<1>4. sessions[req[p].id] \in SessionRow /\ FamilyOf(p) \in Rows
  BY <1>1 DEF TypeOK, Rows, FamilyOf
<1>5. req[p].id \in Ids
  BY <1>1, MaxSessionsAssumption DEF Rows, Ids
<1> QED BY <1>1, <1>3, <1>4, <1>5

\* The part of TypeOK that only speaks of the workers.
WorkersTyped ==
  /\ rowLock \in [Ids -> Workers \cup {Nobody}]
  /\ pc \in [Workers -> PC]
  /\ req \in [Workers -> Request]
  /\ seen \in [Workers -> BOOLEAN]
  /\ todo \in [Workers -> SUBSET Ids]

\* The rest of it.
RowsTyped ==
  /\ sessions \in Seq(SessionRow) /\ Len(sessions) <= MaxSessions
  /\ \A i \in Rows : sessions[i].family \in Rows /\ sessions[sessions[i].family].family = sessions[i].family
  /\ expired \subseteq Ids /\ inactive \subseteq Ids /\ reused \subseteq Rows

LEMMA TypeParts ==
  TypeOK <=> /\ WorkersTyped /\ RowsTyped
             /\ \A p \in Workers : pc[p] # "idle" => req[p].id \in Rows
BY DEF TypeOK, WorkersTyped, RowsTyped

LEMMA EndTyped ==
  ASSUME TypeOK, NEW p \in Workers, End(p)
  PROVE  WorkersTyped'
BY DEF TypeOK, WorkersTyped, End, Goto, PC, Request, NoRequest

\* Nobody else loses a lock or notices.
LEMMA EndOwned ==
  ASSUME TypeOK, Bounded, Owned, NEW p \in Workers, End(p)
  PROVE  Owned'
<1> SUFFICES ASSUME NEW q \in Workers, pc'[q] \in {"check", "revoke", "mint"}
             PROVE  rowLock'[req'[q].id] = q
  BY DEF Owned
<1>1. q # p /\ pc[q] = pc'[q] /\ req'[q] = req[q]
  BY DEF TypeOK, End, Goto
<1>2. rowLock[req[q].id] = q /\ req[q].id \in Ids
  BY <1>1, RowOfRequest DEF Owned
<1> QED BY <1>1, <1>2 DEF End

-----------------------------------------------------------------------------
(* Steps that leave the tables alone. *)

\* A worker's step inside its handler.
LEMMA MovePreserves ==
  ASSUME IInv, NEW p \in Workers, pc[p] # "idle", NEW l \in PC, l # "idle", Goto(p, l),
         UNCHANGED <<table, world, req>>, WorkersTyped', Owned', Fresh'
  PROVE  IInv'
<1>1. Busy' = Busy
  BY BusyStays DEF IInv
<1>2. Rows' = Rows /\ RowsTyped'
  BY TypeParts DEF IInv, table, world, RowsTyped, Rows
<1>3. \A q \in Workers : pc'[q] # "idle" => req'[q].id \in Rows'
  BY <1>2 DEF IInv, TypeOK, Goto
<1>4. TypeOK'
  BY <1>2, <1>3 DEF TypeOK, WorkersTyped, RowsTyped
<1>5. Bounded' /\ AtMostOneLive'
  BY <1>1, <1>2 DEF IInv, Bounded, AtMostOneLive, table
<1> QED BY <1>4, <1>5 DEF IInv

\* A worker that ends without a commit.
LEMMA QuietEndPreserves ==
  ASSUME IInv, NEW p \in Workers, pc[p] # "idle", End(p), UNCHANGED <<table, world>>
  PROVE  IInv'
<1>1. WorkersTyped' /\ Owned'
  BY EndTyped, EndOwned DEF IInv
<1>2. Rows' = Rows /\ RowsTyped'
  BY TypeParts DEF IInv, table, world, RowsTyped, Rows
<1>3. \A q \in Workers : pc'[q] # "idle" => q # p /\ pc'[q] = pc[q] /\ req'[q] = req[q] /\ seen'[q] = seen[q]
  BY DEF IInv, TypeOK, End, Goto
<1>4. TypeOK'
  BY <1>1, <1>2, <1>3 DEF IInv, TypeOK, WorkersTyped, RowsTyped
<1>5. Fresh'
  BY <1>3 DEF IInv, Fresh, table
<1>6. Bounded'
  BY BusyShrinks, BusyFinite, MaxSessionsAssumption DEF IInv, Bounded, table, TypeOK
<1>7. AtMostOneLive'
  BY <1>2 DEF IInv, AtMostOneLive, table
<1> QED BY <1>1, <1>4, <1>5, <1>6, <1>7 DEF IInv

\* A request is accepted.
LEMMA BeginPreserves ==
  ASSUME IInv, NEW p \in Workers, NEW l \in {"lock", "logout"}, NEW r \in Request, r.id \in Rows,
         pc[p] = "idle", Room, Goto(p, l), req' = [req EXCEPT ![p] = r],
         UNCHANGED <<table, world, rowLock, seen, todo>>
  PROVE  IInv'
<1>1. l \in PC /\ l # "idle"
  BY DEF PC
<1>2. Rows' = Rows /\ RowsTyped'
  BY TypeParts DEF IInv, table, world, RowsTyped, Rows
<1>3. \A q \in Workers : pc'[q] # "idle" => req'[q].id \in Rows'
  BY <1>2 DEF IInv, TypeOK, Goto
<1>4. WorkersTyped'
  BY <1>1 DEF IInv, TypeOK, WorkersTyped, Goto
<1>5. TypeOK'
  BY <1>2, <1>3, <1>4 DEF TypeOK, WorkersTyped, RowsTyped
<1>6. \A q \in Workers : pc'[q] \in {"check", "revoke", "mint"} =>
        pc[q] = pc'[q] /\ req'[q] = req[q]
  BY DEF IInv, TypeOK, Goto
<1>7. Owned' /\ Fresh'
  BY <1>6 DEF IInv, Owned, Fresh, table
<1>8. Bounded'
  <2>1. Cardinality(Busy') = Cardinality(Busy) + 1
    BY <1>1, BusyGrows DEF IInv
  <2> QED BY <2>1, BusyFinite, MaxSessionsAssumption DEF IInv, Bounded, Room, table, TypeOK
<1>9. AtMostOneLive'
  BY <1>2 DEF IInv, AtMostOneLive, table
<1> QED BY <1>5, <1>7, <1>8, <1>9 DEF IInv

LEMMA LockSessionPreserves ==
  ASSUME IInv, NEW p \in Workers, LockSession(p)
  PROVE  IInv'
<1> USE DEF LockSession
<1>1. req[p].id \in Ids /\ sessions[req[p].id].blocked \in BOOLEAN
  BY RowOfRequest DEF IInv, SessionRow
<1>2. WorkersTyped'
  BY <1>1 DEF IInv, TypeOK, WorkersTyped, Goto, PC
<1>3. Owned'
  <2> SUFFICES ASSUME NEW q \in Workers, pc'[q] \in {"check", "revoke", "mint"}
               PROVE  rowLock'[req'[q].id] = q
    BY DEF Owned
  <2>1. CASE q = p
    BY <2>1, <1>1 DEF IInv, TypeOK
  <2>2. CASE q # p
    <3>1. pc[q] = pc'[q]
      BY <2>2 DEF IInv, TypeOK, Goto
    <3>2. rowLock[req[q].id] = q /\ q # Nobody
      BY <3>1, WorkersAssumption DEF IInv, Owned
    <3> QED BY <3>2, <1>1 DEF IInv, TypeOK
  <2> QED BY <2>1, <2>2
<1>4. Fresh'
  BY DEF IInv, TypeOK, Fresh, Goto, table
<1>5. "check" \in PC
  BY DEF PC
<1> QED BY <1>2, <1>3, <1>4, <1>5, MovePreserves

LEMMA AcceptRotatePreserves ==
  ASSUME IInv, NEW p \in Workers, AcceptRotate(p)
  PROVE  IInv'
<1> USE DEF AcceptRotate
<1>1. WorkersTyped' /\ "mint" \in PC
  BY DEF IInv, TypeOK, WorkersTyped, Goto, PC
<1>2. Owned'
  BY DEF IInv, TypeOK, Owned, Goto
<1>3. Fresh'
  BY DEF IInv, TypeOK, Fresh, Goto, table, Compromised
<1> QED BY <1>1, <1>2, <1>3, MovePreserves

LEMMA StartRevokePreserves ==
  ASSUME IInv, NEW p \in Workers, StartRevoke(p)
  PROVE  IInv'
<1> USE DEF StartRevoke
<1>1. Rows \subseteq Ids
  BY MaxSessionsAssumption DEF IInv, TypeOK, Rows, Ids
<1>2. WorkersTyped' /\ "revoke" \in PC
  BY <1>1 DEF IInv, TypeOK, WorkersTyped, Goto, PC
<1>3. Owned'
  BY DEF IInv, TypeOK, Owned, Goto
<1>4. Fresh'
  BY DEF IInv, TypeOK, Fresh, Goto, table
<1> QED BY <1>2, <1>3, <1>4, MovePreserves

LEMMA RevokeRowPreserves ==
  ASSUME IInv, NEW p \in Workers, RevokeRow(p)
  PROVE  IInv'
<1>1. PICK i \in todo[p] :
        /\ rowLock[i] \in {Nobody, p}
        /\ rowLock' = [rowLock EXCEPT ![i] = p]
        /\ todo' = [todo EXCEPT ![p] = @ \ {i}]
  BY DEF RevokeRow
<1>2. pc[p] = "revoke" /\ UNCHANGED <<table, world, pc, req, seen>>
  BY DEF RevokeRow
<1>3. i \in Ids
  BY DEF IInv, TypeOK
<1>4. WorkersTyped'
  BY <1>1, <1>2, <1>3 DEF IInv, TypeOK, WorkersTyped
<1>5. Owned'
  <2> SUFFICES ASSUME NEW q \in Workers, pc[q] \in {"check", "revoke", "mint"}
               PROVE  rowLock'[req[q].id] = q
    BY <1>2 DEF Owned
  <2>1. rowLock[req[q].id] = q /\ q # Nobody /\ req[q].id \in Ids
    BY WorkersAssumption, RowOfRequest DEF IInv, Owned
  <2> QED BY <2>1, <1>1, <1>3 DEF IInv, TypeOK
<1>6. Fresh'
  BY <1>2 DEF IInv, Fresh, table
<1>7. Goto(p, "revoke") /\ "revoke" \in PC
  BY <1>2 DEF IInv, TypeOK, Goto, PC
<1> QED BY <1>2, <1>4, <1>5, <1>6, <1>7, MovePreserves

-----------------------------------------------------------------------------
(* Steps that write the sessions table. *)

\* A login appends a row that opens a family of its own.
LEMMA IssueTokensWrites ==
  ASSUME TypeOK, NEW p \in Workers, IssueTokens(p)
  PROVE  /\ Len(sessions) \in Nat /\ Len(sessions') = Len(sessions) + 1
         /\ Len(sessions) + 1 \in Ids /\ sessions' \in Seq(SessionRow)
         /\ Rows' = Rows \cup {Len(sessions) + 1} /\ Len(sessions) + 1 \notin Rows
         /\ sessions'[Len(sessions) + 1].family = Len(sessions) + 1
         /\ ~sessions'[Len(sessions) + 1].blocked
         /\ \A i \in Rows : sessions'[i] = sessions[i] /\ sessions[i].family \in Rows
<1> DEFINE new == [family |-> Len(sessions) + 1, blocked |-> FALSE]
<1>1. sessions' = Append(sessions, new) /\ Room
  BY DEF IssueTokens
<1>2. Len(sessions) \in Nat /\ sessions \in Seq(SessionRow) /\ \A i \in Rows : sessions[i].family \in Rows
  BY DEF TypeOK
<1>3. Len(sessions) + 1 \in Ids
  BY <1>1, <1>2, BusyFinite, MaxSessionsAssumption DEF Room, Ids
<1>4. new \in SessionRow
  BY <1>3 DEF SessionRow
<1> HIDE DEF new
<1>5. /\ Len(sessions') = Len(sessions) + 1 /\ sessions' \in Seq(SessionRow)
      /\ sessions'[Len(sessions) + 1] = new
      /\ \A i \in Rows : sessions'[i] = sessions[i]
  BY <1>1, <1>2, <1>4 DEF Rows
<1>6. Rows' = Rows \cup {Len(sessions) + 1} /\ Len(sessions) + 1 \notin Rows
  BY <1>2, <1>5 DEF Rows
<1> QED BY <1>2, <1>3, <1>5, <1>6 DEF new

LEMMA IssueTokensPreserves ==
  ASSUME IInv, NEW p \in Workers, IssueTokens(p)
  PROVE  IInv'
<1> DEFINE n == Len(sessions) + 1
<1>1. Room /\ UNCHANGED <<reused, world, rowLock, pc, req, seen, todo>>
  BY DEF IssueTokens
<1>2. /\ Len(sessions) \in Nat /\ Len(sessions') = n /\ sessions' \in Seq(SessionRow)
      /\ Rows' = Rows \cup {n} /\ n \notin Rows
      /\ sessions'[n].family = n
      /\ \A i \in Rows : sessions'[i] = sessions[i] /\ sessions[i].family \in Rows
  BY IssueTokensWrites DEF IInv
<1>3. Len(sessions') <= MaxSessions /\ Bounded'
  <2>1. Busy' = Busy
    BY <1>1 DEF Busy
  <2> QED BY <1>1, <1>2, <2>1, BusyFinite, MaxSessionsAssumption DEF Room, Bounded
<1>4. TypeOK'
  <2>1. \A i \in Rows' : sessions'[i].family \in Rows' /\ sessions'[sessions'[i].family].family = sessions'[i].family
    BY <1>2 DEF IInv, TypeOK
  <2> QED BY <1>1, <1>2, <1>3, <2>1 DEF IInv, TypeOK, world
<1>5. Owned' /\ Fresh'
  <2>1. \A q \in Workers : pc[q] # "idle" => sessions'[req[q].id] = sessions[req[q].id]
    BY <1>2 DEF IInv, TypeOK
  <2> QED BY <1>1, <2>1 DEF IInv, Owned, Fresh
<1>6. AtMostOneLive'
  BY <1>2 DEF IInv, AtMostOneLive
<1> QED BY <1>3, <1>4, <1>5, <1>6 DEF IInv

\* A rotation retires the presented link, the live one of its family, and
\* appends its successor.
LEMMA CommitRotationWrites ==
  ASSUME IInv, NEW p \in Workers, CommitRotation(p)
  PROVE  /\ req[p].id \in Rows /\ ~sessions[req[p].id].blocked /\ FamilyOf(p) \in Rows
         /\ Len(sessions) \in Nat /\ Len(sessions') = Len(sessions) + 1
         /\ Len(sessions) + 1 \in Ids /\ sessions' \in Seq(SessionRow)
         /\ Rows' = Rows \cup {Len(sessions) + 1} /\ Len(sessions) + 1 \notin Rows
         /\ sessions'[Len(sessions) + 1].family = FamilyOf(p)
         /\ ~sessions'[Len(sessions) + 1].blocked
         /\ \A i \in Rows : sessions'[i].family = sessions[i].family
         /\ \A i \in Rows \ {req[p].id} : sessions'[i] = sessions[i]
         /\ sessions'[req[p].id].blocked
<1> DEFINE id == req[p].id
           n == Len(sessions) + 1
           retired == [sessions[id] EXCEPT !.blocked = TRUE]
<1>1. pc[p] = "mint" /\ sessions' = Append([sessions EXCEPT ![id] = retired], Successor(p))
  BY DEF CommitRotation
<1>2. /\ id \in Rows /\ sessions[id] \in SessionRow /\ FamilyOf(p) \in Rows
      /\ Len(sessions) < MaxSessions /\ ~sessions[id].blocked
  BY <1>1, RowOfRequest DEF IInv, Fresh
<1>3. retired \in SessionRow /\ retired.blocked /\ retired.family = sessions[id].family
  BY <1>2 DEF SessionRow
<1>4. sessions \in Seq(SessionRow) /\ Len(sessions) \in Nat /\ n \in Ids /\ FamilyOf(p) \in Ids
  BY <1>2, MaxSessionsAssumption DEF IInv, TypeOK, Ids, Rows
<1>5. Successor(p).family = FamilyOf(p) /\ ~Successor(p).blocked /\ Successor(p) \in SessionRow
  BY <1>4 DEF Successor, SessionRow
<1> HIDE DEF retired, id
<1>6. /\ [sessions EXCEPT ![id] = retired] \in Seq(SessionRow)
      /\ Len([sessions EXCEPT ![id] = retired]) = Len(sessions)
  BY <1>2, <1>3, <1>4 DEF Rows
<1>7. /\ Len(sessions') = n /\ sessions' \in Seq(SessionRow)
      /\ sessions'[n] = Successor(p) /\ sessions'[id] = retired
      /\ \A i \in Rows \ {id} : sessions'[i] = sessions[i]
  BY <1>1, <1>2, <1>4, <1>5, <1>6 DEF Rows
<1>8. Rows' = Rows \cup {n} /\ n \notin Rows
  BY <1>4, <1>7 DEF Rows
<1> QED BY <1>2, <1>3, <1>4, <1>5, <1>7, <1>8 DEF id

LEMMA CommitRotationPreserves ==
  ASSUME IInv, NEW p \in Workers, CommitRotation(p)
  PROVE  IInv'
<1> DEFINE id == req[p].id
           n == Len(sessions) + 1
<1>1. pc[p] = "mint" /\ End(p) /\ UNCHANGED <<reused, world>>
  BY DEF CommitRotation
<1>2. id \in Rows /\ FamilyOf(p) \in Rows /\ FamilyOf(p) = sessions[id].family
  BY CommitRotationWrites DEF FamilyOf
<1>3. n \in Ids /\ sessions' \in Seq(SessionRow)
  BY CommitRotationWrites
<1>4. sessions'[n].family = sessions[id].family
  BY <1>2, CommitRotationWrites
<1>5. /\ Len(sessions) \in Nat /\ Len(sessions') = n
      /\ Rows' = Rows \cup {n} /\ n \notin Rows
      /\ \A i \in Rows : sessions'[i].family = sessions[i].family
      /\ \A i \in Rows \ {id} : sessions'[i] = sessions[i]
      /\ sessions'[id].blocked
  BY CommitRotationWrites
<1>6. WorkersTyped' /\ Owned'
  BY <1>1, EndTyped, EndOwned DEF IInv
<1>7. \A q \in Workers : pc'[q] # "idle" => q # p /\ pc'[q] = pc[q] /\ req'[q] = req[q] /\ seen'[q] = seen[q]
  BY <1>1 DEF IInv, TypeOK, End, Goto
<1>8. Bounded'
  BY <1>1, <1>5, BusyShrinks, BusyFinite, MaxSessionsAssumption DEF IInv, Bounded
<1>9. TypeOK'
  <2>1. sessions' \in Seq(SessionRow) /\ Len(sessions') <= MaxSessions
    BY <1>3, <1>5, MaxSessionsAssumption DEF Ids
  <2>2. \A i \in Rows' : sessions'[i].family \in Rows' /\ sessions'[sessions'[i].family].family = sessions'[i].family
    <3>1. \A i \in Rows : sessions[i].family \in Rows /\ sessions[sessions[i].family].family = sessions[i].family
      BY DEF IInv, TypeOK
    <3>2. \A i \in Rows : sessions'[i].family \in Rows' /\ sessions'[sessions'[i].family].family = sessions'[i].family
      BY <1>5, <3>1
    <3>3. sessions'[n].family = sessions[id].family
      BY <1>4
    <3>4. sessions'[n].family \in Rows' /\ sessions'[sessions'[n].family].family = sessions'[n].family
      BY <1>2, <1>5, <3>1, <3>3
    <3> QED BY <1>5, <3>2, <3>4
  <2>3. expired' \subseteq Ids /\ inactive' \subseteq Ids /\ reused' \subseteq Rows'
    BY <1>1, <1>5 DEF IInv, TypeOK, world
  <2> QED BY <1>5, <1>6, <1>7, <2>1, <2>2, <2>3 DEF IInv, TypeOK, WorkersTyped
<1>10. Fresh'
  <2> SUFFICES ASSUME NEW q \in Workers, pc'[q] \in {"check", "mint"}
               PROVE  sessions'[req'[q].id] = sessions[req[q].id]
    BY <1>7 DEF IInv, Fresh
  <2>1. rowLock[req[q].id] = q /\ rowLock[id] = p /\ q # p
    BY <1>1, <1>7 DEF IInv, Owned
  <2>2. req[q].id \in Rows
    BY <1>7 DEF IInv, TypeOK
  <2> QED BY <1>5, <1>7, <2>1, <2>2
<1>11. AtMostOneLive'
  <2>1. ~sessions[id].blocked
    BY <1>1 DEF IInv, Fresh
  <2>2. \A i \in Rows : sessions[i].family = sessions[id].family /\ i # id => sessions[i].blocked
    BY <1>2, <2>1 DEF IInv, AtMostOneLive
  <2>3. \A i \in Rows : sessions'[i].family = sessions[id].family => sessions'[i].blocked
    BY <1>2, <1>5, <2>2
  <2>4. \A i, j \in Rows :
          sessions'[i].family = sessions'[j].family /\ ~sessions'[i].blocked /\ ~sessions'[j].blocked
            => i = j
    <3>1. \A i \in Rows : ~sessions'[i].blocked => ~sessions[i].blocked
      BY <1>5
    <3>2. \A i, j \in Rows :
            sessions[i].family = sessions[j].family /\ ~sessions[i].blocked /\ ~sessions[j].blocked
              => i = j
      BY DEF IInv, AtMostOneLive
    <3> QED BY <1>5, <3>1, <3>2
  <2>5. sessions'[n].family = sessions[id].family
    BY <1>4
  <2>6. SUFFICES ASSUME NEW i \in Rows', NEW j \in Rows',
                        sessions'[i].family = sessions'[j].family,
                        ~sessions'[i].blocked, ~sessions'[j].blocked
                 PROVE  i = j
    BY DEF AtMostOneLive
  <2>7. CASE i \in Rows /\ j \in Rows
    BY <2>4, <2>6, <2>7
  <2>8. CASE i = n \/ j = n
    BY <1>5, <2>3, <2>5, <2>6, <2>8
  <2> QED BY <1>5, <2>7, <2>8
<1> QED BY <1>8, <1>9, <1>6, <1>10, <1>11 DEF IInv

\* What blocking the rows B does to the table.
Blocks(B) ==
  /\ sessions' \in Seq(SessionRow) /\ Len(sessions') = Len(sessions)
  /\ \A i \in Rows : sessions'[i].family = sessions[i].family
  /\ \A i \in B : sessions'[i].blocked
  /\ \A i \in Rows \ B : sessions'[i] = sessions[i]

\* Blocking rows that no decision rests on: what a revocation and a logout do.
LEMMA BlockPreserves ==
  ASSUME IInv, NEW p \in Workers, pc[p] # "idle", End(p), UNCHANGED world,
         reused' \subseteq Rows, NEW B \in SUBSET Rows, Blocks(B),
         \A i \in B : rowLock[i] \in {Nobody, p}
  PROVE  IInv'
<1>1. Len(sessions) \in Nat /\ Rows' = Rows
  BY DEF IInv, TypeOK, Rows, Blocks
<1>2. /\ \A i \in Rows : sessions'[i].family = sessions[i].family
      /\ \A i \in Rows : ~sessions'[i].blocked => ~sessions[i].blocked
      /\ \A i \in Rows \ B : sessions'[i] = sessions[i]
  BY DEF Blocks
<1>3. WorkersTyped' /\ Owned'
  BY EndTyped, EndOwned DEF IInv
<1>4. \A q \in Workers : pc'[q] # "idle" => q # p /\ pc'[q] = pc[q] /\ req'[q] = req[q] /\ seen'[q] = seen[q]
  BY DEF IInv, TypeOK, End, Goto
<1>5. TypeOK'
  <2>1. \A i \in Rows : sessions[i].family \in Rows /\ sessions[sessions[i].family].family = sessions[i].family
    BY DEF IInv, TypeOK
  <2>2. \A i \in Rows' : sessions'[i].family \in Rows' /\ sessions'[sessions'[i].family].family = sessions'[i].family
    BY <1>1, <1>2, <2>1
  <2>3. \A q \in Workers : pc'[q] # "idle" => req'[q].id \in Rows'
    BY <1>1, <1>4 DEF IInv, TypeOK
  <2>4. sessions' \in Seq(SessionRow) /\ Len(sessions') <= MaxSessions
    BY DEF Blocks, IInv, TypeOK
  <2>5. expired' \subseteq Ids /\ inactive' \subseteq Ids /\ reused' \subseteq Rows'
    BY <1>1 DEF IInv, TypeOK, world
  <2> QED BY <1>3, <2>2, <2>3, <2>4, <2>5 DEF TypeOK, WorkersTyped
<1>6. Bounded'
  <2>1. Len(sessions') = Len(sessions) /\ Cardinality(Busy') = Cardinality(Busy) - 1
    BY BusyShrinks DEF Blocks, IInv
  <2> QED BY <1>1, <2>1, BusyFinite, MaxSessionsAssumption DEF IInv, Bounded
<1>7. Fresh'
  <2> SUFFICES ASSUME NEW q \in Workers, pc'[q] \in {"check", "mint"}
               PROVE  sessions'[req'[q].id] = sessions[req[q].id]
    BY <1>4 DEF IInv, Fresh
  <2>1. rowLock[req[q].id] = q /\ q \notin {Nobody, p}
    BY <1>4, WorkersAssumption DEF IInv, Owned
  <2>2. req[q].id \in Rows
    BY <1>4 DEF IInv, TypeOK
  <2> QED BY <1>2, <1>4, <2>1, <2>2
<1>8. AtMostOneLive'
  <2>1. \A i, j \in Rows :
          sessions[i].family = sessions[j].family /\ ~sessions[i].blocked /\ ~sessions[j].blocked
            => i = j
    BY DEF IInv, AtMostOneLive
  <2> QED BY <1>1, <1>2, <2>1 DEF AtMostOneLive
<1> QED BY <1>3, <1>5, <1>6, <1>7, <1>8 DEF IInv

LEMMA CommitRevokeBlocks ==
  ASSUME TypeOK, NEW p \in Workers, CommitRevoke(p)
  PROVE  Blocks({i \in Rows : rowLock[i] = p})
<1>1. Len(sessions) \in Nat /\ \A i \in Rows : sessions[i] \in SessionRow
  BY DEF TypeOK, Rows
<1>2. sessions' = [i \in Rows |-> [sessions[i] EXCEPT !.blocked = @ \/ rowLock[i] = p]]
  BY DEF CommitRevoke
<1>3. \A i \in Rows :
        /\ [sessions[i] EXCEPT !.blocked = @ \/ rowLock[i] = p] \in SessionRow
        /\ [sessions[i] EXCEPT !.blocked = @ \/ rowLock[i] = p].family = sessions[i].family
        /\ rowLock[i] = p => [sessions[i] EXCEPT !.blocked = @ \/ rowLock[i] = p].blocked
        /\ rowLock[i] # p => [sessions[i] EXCEPT !.blocked = @ \/ rowLock[i] = p] = sessions[i]
  BY <1>1 DEF SessionRow
<1>4. sessions' \in Seq(SessionRow) /\ Len(sessions') = Len(sessions)
  BY <1>1, <1>2, <1>3 DEF Rows
<1>5. \A i \in Rows : sessions'[i] = [sessions[i] EXCEPT !.blocked = @ \/ rowLock[i] = p]
  BY <1>2
<1> QED BY <1>3, <1>4, <1>5 DEF Blocks

LEMMA CommitRevokePreserves ==
  ASSUME IInv, NEW p \in Workers, CommitRevoke(p)
  PROVE  IInv'
<1>1. pc[p] = "revoke" /\ End(p) /\ UNCHANGED world
  BY DEF CommitRevoke
<1>2. reused' \subseteq Rows
  <2>1. FamilyOf(p) \in Rows
    BY <1>1, RowOfRequest DEF IInv
  <2>2. reused' = reused \cup {FamilyOf(p)}
    BY DEF CommitRevoke
  <2> QED BY <2>1, <2>2 DEF IInv, TypeOK
<1>3. Blocks({i \in Rows : rowLock[i] = p})
  BY CommitRevokeBlocks DEF IInv
<1> QED BY <1>1, <1>2, <1>3, BlockPreserves

LEMMA CommitLogoutBlocks ==
  ASSUME TypeOK, NEW p \in Workers, CommitLogout(p)
  PROVE  Blocks({req[p].id})
<1>1. req[p].id \in Rows /\ sessions \in Seq(SessionRow) /\ sessions[req[p].id] \in SessionRow
  BY DEF TypeOK, CommitLogout, Rows
<1> DEFINE row == [sessions[req[p].id] EXCEPT !.blocked = TRUE]
<1>2. row \in SessionRow /\ row.family = sessions[req[p].id].family /\ row.blocked
  BY <1>1 DEF SessionRow
<1>3. sessions' = [sessions EXCEPT ![req[p].id] = row]
  BY DEF CommitLogout
<1> HIDE DEF row
<1>4. /\ sessions' \in Seq(SessionRow) /\ Len(sessions') = Len(sessions)
      /\ sessions'[req[p].id] = row
      /\ \A i \in Rows \ {req[p].id} : sessions'[i] = sessions[i]
  BY <1>1, <1>2, <1>3 DEF Rows
<1> QED BY <1>1, <1>2, <1>4 DEF Blocks

LEMMA CommitLogoutPreserves ==
  ASSUME IInv, NEW p \in Workers, CommitLogout(p)
  PROVE  IInv'
<1>1. pc[p] = "logout" /\ End(p) /\ UNCHANGED <<reused, world>> /\ rowLock[req[p].id] = Nobody
  BY DEF CommitLogout
<1>2. req[p].id \in Rows /\ reused' \subseteq Rows
  BY <1>1 DEF IInv, TypeOK
<1>3. Blocks({req[p].id})
  BY CommitLogoutBlocks DEF IInv
<1> QED BY <1>1, <1>2, <1>3, BlockPreserves

-----------------------------------------------------------------------------
(* The theorems. *)

LEMMA InitInductive == Init => IInv
<1> SUFFICES ASSUME Init PROVE IInv
  OBVIOUS
<1>1. Busy = {} /\ Rows = {}
  BY DEF Init, Busy, Rows
<1>2. TypeOK
  BY <1>1, MaxSessionsAssumption DEF Init, TypeOK, Rows, PC, Request, NoRequest
<1>3. Bounded
  BY <1>1, FS_EmptySet, MaxSessionsAssumption DEF Init, Bounded
<1> QED BY <1>1, <1>2, <1>3 DEF Init, IInv, Owned, Fresh, AtMostOneLive

\* Expiry and deactivation touch nothing the invariant speaks of but their sets.
LEMMA WorldPreserves ==
  ASSUME IInv, UNCHANGED <<table, rowLock, pc, req, seen, todo>>,
         expired' \subseteq Ids, inactive' \subseteq Ids
  PROVE  IInv'
<1>1. Rows' = Rows /\ Busy' = Busy
  BY DEF Rows, Busy, table
<1>2. TypeOK'
  BY <1>1 DEF IInv, TypeOK, table
<1> QED BY <1>1, <1>2 DEF IInv, Bounded, Owned, Fresh, AtMostOneLive, table

LEMMA StartPreserves ==
  ASSUME IInv, NEW p \in Workers, Start(p)
  PROVE  IInv'
<1>1. CASE IssueTokens(p)
  BY <1>1, IssueTokensPreserves
<1>2. ASSUME NEW i \in Rows, NEW genuine \in BOOLEAN, BeginRotate(p, i, genuine)
      PROVE  IInv'
  <2>1. [id |-> i, genuine |-> genuine] \in Request
    BY MaxSessionsAssumption DEF IInv, TypeOK, Request, Rows, Ids
  <2> QED BY <1>2, <2>1, BeginPreserves DEF BeginRotate
<1>3. ASSUME NEW i \in Rows, BeginLogout(p, i)
      PROVE  IInv'
  <2>1. [id |-> i, genuine |-> TRUE] \in Request
    BY MaxSessionsAssumption DEF IInv, TypeOK, Request, Rows, Ids
  <2> QED BY <1>3, <2>1, BeginPreserves DEF BeginLogout
<1> QED BY <1>1, <1>2, <1>3 DEF Start

LEMMA StepPreserves ==
  ASSUME IInv, NEW p \in Workers, Step(p) \/ Crash(p)
  PROVE  IInv'
<1>1. CASE RefuseRotate(p)
  BY <1>1, QuietEndPreserves DEF RefuseRotate
<1>2. CASE DeadlockAbort(p)
  <2>1. \E r \in Workers : WaitsFor(p, r)
    <3>1. (\A q \in {} \cup {p}, r \in Workers : WaitsFor(q, r) => r \in {}) => p \in {}
      <4>1. {} \in SUBSET Workers /\ Deadlocked(p)
        BY <1>2 DEF DeadlockAbort
      <4> QED BY <4>1 DEF Deadlocked
    <3> QED BY <3>1
  <2>2. pc[p] # "idle"
    BY <2>1 DEF WaitsFor
  <2> QED BY <1>2, <2>2, QuietEndPreserves DEF DeadlockAbort
<1>3. CASE Crash(p)
  BY <1>3, QuietEndPreserves DEF Crash
<1> QED BY <1>1, <1>2, <1>3, LockSessionPreserves, AcceptRotatePreserves, CommitRotationPreserves,
           StartRevokePreserves, RevokeRowPreserves, CommitRevokePreserves, CommitLogoutPreserves
        DEF Step

LEMMA NextPreserves == IInv /\ [Next]_vars => IInv'
<1> SUFFICES ASSUME IInv, [Next]_vars PROVE IInv'
  OBVIOUS
<1>1. ASSUME NEW p \in Workers, Start(p) \/ Step(p) \/ Crash(p) PROVE IInv'
  BY <1>1, StartPreserves, StepPreserves
<1>2. ASSUME NEW i \in Expirable, Expire(i) PROVE IInv'
  BY <1>2, EnvironmentAssumption, WorldPreserves DEF Expire, IInv, TypeOK
<1>3. ASSUME NEW F \in Suspendable, Deactivate(F) PROVE IInv'
  BY <1>3, EnvironmentAssumption, WorldPreserves DEF Deactivate, IInv, TypeOK
<1>4. CASE UNCHANGED vars
  BY <1>4, WorldPreserves DEF vars, world, IInv, TypeOK
<1>5. CASE Full
  BY <1>5, <1>4 DEF Full
<1> QED BY <1>1, <1>2, <1>3, <1>4, <1>5 DEF Next

\* The inductive invariant of the sessions table: whoever decides about a row
\* holds its lock and knows what it says.
THEOREM SessionsInvariant == Spec => []IInv
BY InitInductive, NextPreserves, PTL DEF Spec

\* Every reachable state is well typed, and a family is always named by the
\* login it descends from.
THEOREM SessionsTyped == Spec => []TypeOK
BY SessionsInvariant, PTL DEF IInv

\* rotate_tokens, _revoke_family and logout never leave a family two live
\* links, with any number of workers and rows.
THEOREM OneLiveLink == Spec => []AtMostOneLive
BY SessionsInvariant, PTL DEF IInv

-----------------------------------------------------------------------------
(* No step gives a dead family a live link. *)

LEMMA CommitRotationKeepsDead ==
  ASSUME IInv, NEW p \in Workers, CommitRotation(p), NEW f \in Rows, LiveIn(f)'
  PROVE  LiveIn(f)
<1>1. PICK i \in Rows' : sessions'[i].family = f /\ ~sessions'[i].blocked
  BY DEF LiveIn
<1>2. CASE i = Len(sessions) + 1
  BY <1>1, <1>2, CommitRotationWrites DEF LiveIn, FamilyOf
<1>3. CASE i \in Rows
  BY <1>1, <1>3, CommitRotationWrites DEF LiveIn
<1> QED BY <1>1, <1>2, <1>3, CommitRotationWrites

LEMMA IssueTokensKeepsDead ==
  ASSUME IInv, NEW p \in Workers, IssueTokens(p), NEW f \in Rows, LiveIn(f)'
  PROVE  LiveIn(f)
<1>1. PICK i \in Rows' : sessions'[i].family = f /\ ~sessions'[i].blocked
  BY DEF LiveIn
<1> QED BY <1>1, IssueTokensWrites DEF IInv, LiveIn

LEMMA BlocksKeepsDead ==
  ASSUME TypeOK, NEW B \in SUBSET Rows, Blocks(B), NEW f \in Rows, LiveIn(f)'
  PROVE  LiveIn(f)
<1>1. Rows' = Rows
  BY DEF Rows, Blocks
<1>2. PICK i \in Rows : sessions'[i].family = f /\ ~sessions'[i].blocked
  BY <1>1 DEF LiveIn
<1>3. i \notin B /\ sessions[i] = sessions'[i]
  BY <1>2 DEF Blocks
<1> QED BY <1>2, <1>3 DEF LiveIn

LEMMA QuietKeepsDead ==
  ASSUME UNCHANGED table, NEW f \in Rows, LiveIn(f)'
  PROVE  LiveIn(f)
BY DEF table, LiveIn, Rows

LEMMA NextKeepsDead ==
  ASSUME IInv, Next, NEW f \in Rows, LiveIn(f)'
  PROVE  LiveIn(f)
<1>1. CASE UNCHANGED table
  BY <1>1, QuietKeepsDead
<1>2. ASSUME NEW p \in Workers, Start(p) PROVE LiveIn(f)
  <2>1. CASE IssueTokens(p)
    BY <2>1, IssueTokensKeepsDead
  <2> QED BY <1>1, <1>2, <2>1 DEF Start, BeginRotate, BeginLogout
<1>3. ASSUME NEW p \in Workers, Step(p) \/ Crash(p) PROVE LiveIn(f)
  <2>1. CASE CommitRotation(p)
    BY <2>1, CommitRotationKeepsDead
  <2>2. CASE CommitRevoke(p)
    BY <2>2, CommitRevokeBlocks, BlocksKeepsDead DEF IInv
  <2>3. CASE CommitLogout(p)
    <3>1. {req[p].id} \in SUBSET Rows
      BY <2>3 DEF IInv, TypeOK, CommitLogout
    <3> QED BY <2>3, <3>1, CommitLogoutBlocks, BlocksKeepsDead DEF IInv
  <2>4. CASE \/ LockSession(p) \/ RefuseRotate(p) \/ AcceptRotate(p) \/ StartRevoke(p)
             \/ RevokeRow(p) \/ DeadlockAbort(p) \/ Crash(p)
    BY <1>1, <2>4 DEF LockSession, RefuseRotate, AcceptRotate, StartRevoke, RevokeRow,
                      DeadlockAbort, Crash
  <2> QED BY <1>3, <2>1, <2>2, <2>3, <2>4 DEF Step
<1>4. CASE (\E i \in Expirable : Expire(i)) \/ (\E F \in Suspendable : Deactivate(F)) \/ Full
  BY <1>1, <1>4 DEF Expire, Deactivate, Full, vars
<1> QED BY <1>2, <1>3, <1>4 DEF Next

\* A family that was logged out, or revoked to the end, stays dead: no rotation
\* in flight and no later call gives it a live link again.
THEOREM DeadFamilies == Spec => DeadStaysDead
<1>1. IInv /\ [Next]_vars => [\A f \in Rows : ~LiveIn(f) => ~LiveIn(f)']_vars
  <2> SUFFICES ASSUME IInv, Next PROVE \A f \in Rows : ~LiveIn(f) => ~LiveIn(f)'
    OBVIOUS
  <2> QED BY NextKeepsDead
<1> QED BY <1>1, SessionsInvariant, PTL DEF Spec, DeadStaysDead

-----------------------------------------------------------------------------
(* Refinement of Families. *)

\* What a worker has locked, or has still to lock, belongs to the family of the
\* session it was called with: a revocation never blocks another login's links.
OwnFamily(p) ==
  /\ \A i \in Ids : rowLock[i] = p =>
       pc[p] \in {"check", "revoke", "mint"} /\ i \in Rows /\ sessions[i].family = FamilyOf(p)
  /\ pc[p] = "revoke" => \A i \in todo[p] : i \in Rows /\ sessions[i].family = FamilyOf(p)

Confined == \A p \in Workers : OwnFamily(p)

\* Rows are only added, and stay in their family.
LEMMA TableGrows ==
  ASSUME IInv, [Next]_vars
  PROVE  \A i \in Rows : i \in Rows' /\ sessions'[i].family = sessions[i].family
<1>1. CASE UNCHANGED table
  BY <1>1 DEF table, Rows
<1>2. ASSUME NEW p \in Workers, IssueTokens(p)
      PROVE  \A i \in Rows : i \in Rows' /\ sessions'[i].family = sessions[i].family
  BY <1>2, IssueTokensWrites DEF IInv
<1>3. ASSUME NEW p \in Workers, CommitRotation(p)
      PROVE  \A i \in Rows : i \in Rows' /\ sessions'[i].family = sessions[i].family
  BY <1>3, CommitRotationWrites
<1>4. ASSUME NEW p \in Workers, CommitRevoke(p) \/ CommitLogout(p)
      PROVE  \A i \in Rows : i \in Rows' /\ sessions'[i].family = sessions[i].family
  BY <1>4, CommitRevokeBlocks, CommitLogoutBlocks DEF IInv, Blocks, Rows
<1>5. CASE \E p \in Workers : Start(p) \/ Step(p) \/ Crash(p)
  BY <1>1, <1>2, <1>3, <1>4, <1>5
     DEF Start, BeginRotate, BeginLogout, Step, LockSession, RefuseRotate, AcceptRotate,
         StartRevoke, RevokeRow, DeadlockAbort, Crash
<1>6. CASE \/ \E i \in Expirable : Expire(i)
           \/ \E F \in Suspendable : Deactivate(F)
           \/ Full
           \/ UNCHANGED vars
  BY <1>1, <1>6 DEF Expire, Deactivate, Full, vars
<1> QED BY <1>5, <1>6 DEF Next

\* A worker that neither moves nor gains a lock.
LEMMA StillOwnFamily ==
  ASSUME IInv, [Next]_vars, NEW q \in Workers, OwnFamily(q),
         pc'[q] = pc[q], req'[q] = req[q], todo'[q] = todo[q],
         \A i \in Ids : rowLock'[i] = q => rowLock[i] = q
  PROVE  OwnFamily(q)'
<1>1. pc[q] # "idle" => FamilyOf(q)' = FamilyOf(q)
  BY TableGrows DEF IInv, TypeOK, FamilyOf
<1> QED BY <1>1, TableGrows DEF OwnFamily

\* A handler that ends holds nothing.
LEMMA EndOwnFamily ==
  ASSUME TypeOK, NEW p \in Workers, End(p)
  PROVE  /\ OwnFamily(p)'
         /\ \A q \in Workers \ {p} :
              /\ pc'[q] = pc[q] /\ req'[q] = req[q] /\ todo'[q] = todo[q]
              /\ \A i \in Ids : rowLock'[i] = q => rowLock[i] = q
<1>1. pc'[p] = "idle" /\ \A i \in Ids : rowLock'[i] # p
  BY WorkersAssumption DEF TypeOK, End, Goto
<1>2. OwnFamily(p)'
  BY <1>1 DEF OwnFamily
<1> QED BY <1>2, WorkersAssumption DEF TypeOK, End, Goto

LEMMA RevokeRowOwnFamily ==
  ASSUME IInv, Confined, [Next]_vars, NEW p \in Workers, RevokeRow(p)
  PROVE  Confined'
<1>1. PICK i \in todo[p] :
        rowLock' = [rowLock EXCEPT ![i] = p] /\ todo' = [todo EXCEPT ![p] = @ \ {i}]
  BY DEF RevokeRow
<1>2. pc[p] = "revoke" /\ UNCHANGED <<sessions, pc, req>>
  BY DEF RevokeRow, table
<1>3. OwnFamily(p)'
  <2>1. i \in Rows /\ sessions[i].family = FamilyOf(p) /\ OwnFamily(p)
    BY <1>2 DEF Confined, OwnFamily
  <2>2. FamilyOf(p)' = FamilyOf(p) /\ Rows' = Rows
    BY <1>2 DEF FamilyOf, Rows
  <2>3. \A j \in Ids : rowLock'[j] = p => j = i \/ rowLock[j] = p
    BY <1>1 DEF IInv, TypeOK
  <2>4. \A j \in todo'[p] : j \in todo[p]
    BY <1>1 DEF IInv, TypeOK
  <2> QED BY <1>2, <2>1, <2>2, <2>3, <2>4 DEF OwnFamily
<1>4. ASSUME NEW q \in Workers \ {p} PROVE OwnFamily(q)'
  <2>1. todo'[q] = todo[q] /\ \A j \in Ids : rowLock'[j] = q => rowLock[j] = q
    BY <1>1 DEF IInv, TypeOK
  <2> QED BY <1>2, <2>1, StillOwnFamily DEF Confined
<1> QED BY <1>3, <1>4 DEF Confined

LEMMA ConfinedInit == Init => Confined
BY WorkersAssumption DEF Init, Confined, OwnFamily

LEMMA ConfinedStep == IInv /\ Confined /\ [Next]_vars => Confined'
<1> SUFFICES ASSUME IInv, Confined, [Next]_vars PROVE Confined'
  OBVIOUS
<1>1. CASE UNCHANGED <<rowLock, pc, req, todo>>
  BY <1>1, StillOwnFamily DEF Confined
<1>2. ASSUME NEW p \in Workers, End(p) PROVE Confined'
  BY <1>2, EndOwnFamily, StillOwnFamily DEF IInv, Confined
<1>3. ASSUME NEW p \in Workers, RevokeRow(p) PROVE Confined'
  BY <1>3, RevokeRowOwnFamily
<1>4. ASSUME NEW p \in Workers,
             \/ \E i \in Rows, genuine \in BOOLEAN : BeginRotate(p, i, genuine)
             \/ \E i \in Rows : BeginLogout(p, i)
      PROVE  Confined'
  <2>1. /\ pc[p] = "idle" /\ pc'[p] \in {"lock", "logout"} /\ UNCHANGED <<rowLock, todo>>
        /\ \A q \in Workers \ {p} : pc'[q] = pc[q] /\ req'[q] = req[q]
    BY <1>4 DEF IInv, TypeOK, BeginRotate, BeginLogout, Goto
  <2>2. OwnFamily(p)'
    BY <2>1 DEF Confined, OwnFamily
  <2> QED BY <2>1, <2>2, StillOwnFamily DEF Confined
<1>5. ASSUME NEW p \in Workers, LockSession(p) PROVE Confined'
  <2>1. /\ pc'[p] = "check" /\ UNCHANGED <<sessions, req, todo>>
        /\ \A q \in Workers \ {p} : pc'[q] = pc[q]
        /\ rowLock' = [rowLock EXCEPT ![req[p].id] = p]
    BY <1>5 DEF IInv, TypeOK, LockSession, Goto, table
  <2>2. req[p].id \in Rows
    BY <1>5 DEF IInv, TypeOK, LockSession
  <2>3. \A q \in Workers, i \in Ids : rowLock'[i] = q =>
          rowLock[i] = q \/ (q = p /\ i = req[p].id)
    BY <2>1 DEF IInv, TypeOK
  <2>4. OwnFamily(p)'
    BY <2>1, <2>2, <2>3 DEF Confined, OwnFamily, FamilyOf, Rows
  <2>5. \A q \in Workers \ {p} : \A i \in Ids : rowLock'[i] = q => rowLock[i] = q
    BY <2>3
  <2> QED BY <2>1, <2>4, <2>5, StillOwnFamily DEF Confined
<1>6. ASSUME NEW p \in Workers, AcceptRotate(p) \/ StartRevoke(p) PROVE Confined'
  <2>1. /\ pc[p] # "idle" /\ pc'[p] \in {"mint", "revoke"} /\ UNCHANGED <<sessions, req, rowLock>>
        /\ pc'[p] = "revoke" => todo'[p] = {i \in Rows : sessions[i].family = FamilyOf(p)}
        /\ \A q \in Workers \ {p} : pc'[q] = pc[q] /\ todo'[q] = todo[q]
    BY <1>6 DEF IInv, TypeOK, AcceptRotate, StartRevoke, Goto, table
  <2>2. OwnFamily(p)'
    BY <2>1 DEF Confined, OwnFamily, FamilyOf, Rows
  <2> QED BY <2>1, <2>2, StillOwnFamily DEF Confined
<1>7. CASE \E p \in Workers : Start(p)
  BY <1>1, <1>4, <1>7 DEF Start, IssueTokens
<1>8. CASE \E p \in Workers : Step(p) \/ Crash(p)
  BY <1>2, <1>3, <1>5, <1>6, <1>8
     DEF Step, RefuseRotate, CommitRotation, CommitRevoke, CommitLogout, DeadlockAbort, Crash
<1>9. CASE \/ \E i \in Expirable : Expire(i)
           \/ \E F \in Suspendable : Deactivate(F)
           \/ Full
           \/ UNCHANGED vars
  BY <1>1, <1>9 DEF Expire, Deactivate, Full, vars
<1> QED BY <1>7, <1>8, <1>9 DEF Next

\* Row i of the table s is a live link of family f; the link f has in s.
Names(s, f, i) == i \in 1..Len(s) /\ s[i].family = f /\ ~s[i].blocked

Link(s, f) ==
  IF \E i \in 1..Len(s) : s[i].family = f /\ ~s[i].blocked
  THEN CHOOSE i \in 1..Len(s) : s[i].family = f /\ ~s[i].blocked ELSE 0

OneLink(s) == \A f \in Ids : \A i, j \in 1..Len(s) : Names(s, f, i) /\ Names(s, f, j) => i = j

LEMMA TheLink ==
  ASSUME NEW s, OneLink(s), NEW f \in Ids, NEW i \in 1..Len(s), Names(s, f, i)
  PROVE  Link(s, f) = i
<1> DEFINE P(j) == s[j].family = f /\ ~s[j].blocked
           k == CHOOSE j \in 1..Len(s) : P(j)
<1>1. \E j \in 1..Len(s) : P(j)
  BY DEF Names
<1>2. k \in 1..Len(s) /\ P(k)
  BY <1>1
<1>3. Link(s, f) = k
  BY <1>1 DEF Link
<1> HIDE DEF k
<1>4. k = i
  BY <1>2 DEF OneLink, Names
<1> QED BY <1>3, <1>4

LEMMA NoLink ==
  ASSUME NEW s, NEW f, \A i \in 1..Len(s) : ~Names(s, f, i)
  PROVE  Link(s, f) = 0
BY DEF Link, Names

\* A family with the same live links has the same link.
LEMMA SameLink ==
  ASSUME NEW s, OneLink(s), NEW t, OneLink(t), NEW f \in Ids,
         \A i : Names(s, f, i) <=> Names(t, f, i)
  PROVE  Link(s, f) = Link(t, f)
<1>1. CASE \E i \in 1..Len(s) : Names(s, f, i)
  <2>1. PICK i \in 1..Len(s) : Names(s, f, i)
    BY <1>1
  <2>2. i \in 1..Len(t) /\ Names(t, f, i)
    BY <2>1 DEF Names
  <2> QED BY <2>1, <2>2, TheLink
<1>2. CASE \A i \in 1..Len(s) : ~Names(s, f, i)
  <2>1. \A i \in 1..Len(t) : ~Names(t, f, i)
    BY <1>2 DEF Names
  <2> QED BY <1>2, <2>1, NoLink
<1> QED BY <1>1, <1>2

LEMMA LinksAreUnique ==
  ASSUME AtMostOneLive
  PROVE  OneLink(sessions)
BY DEF AtMostOneLive, OneLink, Names, Rows

\* What Families sees of the table.
Current == [f \in Ids |-> LiveLink(f)]

LEMMA CurrentLinks == Current = [f \in Ids |-> Link(sessions, f)]
BY DEF Current, LiveLink, LiveIn, Link, Rows

LEMMA FamiliesInit == Init => Abstract!Init
<1> SUFFICES ASSUME Init PROVE Abstract!Init
  OBVIOUS
<1>1. Rows = {}
  BY DEF Init, Rows
<1> QED BY <1>1 DEF Abstract!Init, LiveLink, LiveIn

\* A login opens a family.
LEMMA IssueTokensLogsIn ==
  ASSUME IInv, IInv', NEW p \in Workers, IssueTokens(p)
  PROVE  Abstract!Next
<1> DEFINE n == Len(sessions) + 1
           t == sessions'
           c == [f \in Ids |-> Link(sessions, f)]
<1>1. /\ n \in Ids /\ n \notin Rows /\ Rows' = Rows \cup {n} /\ Len(t) = n
      /\ t[n].family = n /\ ~t[n].blocked
      /\ \A i \in Rows : t[i] = sessions[i] /\ sessions[i].family # n
  BY IssueTokensWrites DEF IInv
<1>2. OneLink(sessions) /\ OneLink(t)
  BY LinksAreUnique DEF IInv, AtMostOneLive, OneLink, Names, Rows
<1>3. Rows = 1..Len(sessions) /\ Rows' = 1..Len(t) /\ n \in 1..Len(t)
  BY <1>1 DEF Rows
<1> HIDE DEF n, t
<1>4. Link(t, n) = n
  BY <1>1, <1>2, <1>3, TheLink DEF Names
<1>5. ASSUME NEW f \in Ids, f # n PROVE Link(t, f) = Link(sessions, f)
  <2>1. \A i : Names(t, f, i) <=> Names(sessions, f, i)
    BY <1>1, <1>3, <1>5 DEF Names
  <2> QED BY <1>2, <2>1, SameLink
<1>6. [f \in Ids |-> Link(t, f)] = [c EXCEPT ![n] = n]
  BY <1>1, <1>4, <1>5
<1>7. Current' = [Current EXCEPT ![n] = n]
  BY <1>6, CurrentLinks DEF t, Current, LiveLink, LiveIn, Link, Rows
<1>8. Abstract!LogIn(n)
  BY <1>1, <1>7 DEF Abstract!LogIn, Abstract!HandOut, Current
<1> QED BY <1>1, <1>8 DEF Abstract!Next

\* A rotation exchanges the link of the presented token's family.
LEMMA CommitRotationRefreshes ==
  ASSUME IInv, IInv', NEW p \in Workers, CommitRotation(p)
  PROVE  Abstract!Next
<1> DEFINE n == Len(sessions) + 1
           t == sessions'
           id == req[p].id
           g == FamilyOf(p)
           c == [f \in Ids |-> Link(sessions, f)]
<1>1. /\ id \in Rows /\ ~sessions[id].blocked /\ sessions[id].family = g
      /\ n \in Ids /\ n \notin Rows /\ Rows' = Rows \cup {n} /\ Len(t) = n
      /\ t[n].family = g /\ ~t[n].blocked /\ t[id].blocked
      /\ \A i \in Rows : t[i].family = sessions[i].family
      /\ \A i \in Rows \ {id} : t[i] = sessions[i]
  BY CommitRotationWrites DEF FamilyOf
<1>2. g \in Ids /\ id # 0
  BY CommitRotationWrites, MaxSessionsAssumption DEF IInv, TypeOK, Rows, Ids
<1>3. OneLink(sessions) /\ OneLink(t)
  BY LinksAreUnique DEF IInv, AtMostOneLive, OneLink, Names, Rows
<1>4. Rows = 1..Len(sessions) /\ Rows' = 1..Len(t) /\ n \in 1..Len(t)
  BY <1>1 DEF Rows
<1> HIDE DEF n, t, id, g
<1>5. Link(sessions, g) = id
  BY <1>1, <1>2, <1>3, <1>4, TheLink DEF Names
<1>6. Link(t, g) = n
  BY <1>1, <1>2, <1>3, <1>4, TheLink DEF Names
<1>7. ASSUME NEW f \in Ids, f # g PROVE Link(t, f) = Link(sessions, f)
  <2>1. \A i : Names(t, f, i) <=> Names(sessions, f, i)
    BY <1>1, <1>4, <1>7 DEF Names
  <2> QED BY <1>3, <2>1, SameLink
<1>8. [f \in Ids |-> Link(t, f)] = [c EXCEPT ![g] = n]
  BY <1>2, <1>6, <1>7
<1>9. Current' = [Current EXCEPT ![g] = n] /\ Current[g] # 0
  BY <1>2, <1>5, <1>8, CurrentLinks DEF t, Current, LiveLink, LiveIn, Link, Rows
<1>10. Abstract!Refresh(g, n)
  BY <1>1, <1>9 DEF Abstract!Refresh, Abstract!HandOut, Current
<1> QED BY <1>1, <1>2, <1>10 DEF Abstract!Next

\* Blocking links of one family closes it, or changes nothing anyone can use.
LEMMA BlocksClose ==
  ASSUME IInv, IInv', NEW B \in SUBSET Rows, Blocks(B), NEW g \in Ids,
         \A i \in B : sessions[i].family = g
  PROVE  Abstract!Next \/ UNCHANGED <<Current, Rows>>
<1> DEFINE t == sessions'
           c == [f \in Ids |-> Link(sessions, f)]
<1>1. /\ Rows' = Rows
      /\ \A i \in Rows : t[i].family = sessions[i].family
      /\ \A i \in B : t[i].blocked
      /\ \A i \in Rows \ B : t[i] = sessions[i]
  BY DEF Blocks, Rows
<1>2. OneLink(sessions) /\ OneLink(t)
  BY LinksAreUnique DEF IInv, AtMostOneLive, OneLink, Names, Rows
<1>3. Rows = 1..Len(sessions) /\ Rows = 1..Len(t) /\ 0 \notin Rows
  BY <1>1 DEF Rows
<1> HIDE DEF t
<1>4. ASSUME NEW f \in Ids, f # g PROVE Link(t, f) = Link(sessions, f)
  <2>1. \A i : Names(t, f, i) <=> Names(sessions, f, i)
    BY <1>1, <1>3, <1>4 DEF Names
  <2> QED BY <1>2, <2>1, SameLink
<1>5. CASE \E i \in B : ~sessions[i].blocked
  <2>1. PICK i \in B : ~sessions[i].blocked
    BY <1>5
  <2>2. i \in 1..Len(sessions) /\ Names(sessions, g, i) /\ i # 0
    BY <1>3, <2>1 DEF Names
  <2>3. Link(sessions, g) = i
    BY <1>2, <2>2, TheLink
  <2>4. \A j \in 1..Len(t) : ~Names(t, g, j)
    <3>1. \A j \in 1..Len(t) : Names(t, g, j) => Names(sessions, g, j) /\ j \notin B
      BY <1>1, <1>3 DEF Names
    <3> QED BY <1>2, <1>3, <2>1, <2>2, <3>1 DEF OneLink
  <2>5. Link(t, g) = 0
    BY <2>4, NoLink
  <2>6. [f \in Ids |-> Link(t, f)] = [c EXCEPT ![g] = 0]
    BY <1>4, <2>5
  <2>7. Current' = [Current EXCEPT ![g] = 0] /\ Current[g] # 0
    BY <2>2, <2>3, <2>6, CurrentLinks DEF t, Current, LiveLink, LiveIn, Link, Rows
  <2>8. Abstract!Close(g)
    BY <1>1, <2>7 DEF Abstract!Close, Current
  <2> QED BY <2>8 DEF Abstract!Next
<1>6. CASE \A i \in B : sessions[i].blocked
  <2>1. \A i : Names(t, g, i) <=> Names(sessions, g, i)
    BY <1>1, <1>3, <1>6 DEF Names
  <2>2. Link(t, g) = Link(sessions, g)
    BY <1>2, <2>1, SameLink
  <2>3. [f \in Ids |-> Link(t, f)] = c
    BY <1>4, <2>2
  <2>4. Current' = Current
    BY <2>3, CurrentLinks DEF t, Current, LiveLink, LiveIn, Link, Rows
  <2> QED BY <1>1, <2>4
<1> QED BY <1>5, <1>6

LEMMA FamiliesStep ==
  ASSUME IInv, IInv', Confined, [Next]_vars
  PROVE  Abstract!Next \/ UNCHANGED <<Current, Rows>>
<1>1. CASE UNCHANGED table
  BY <1>1 DEF table, Current, LiveLink, LiveIn, Rows
<1>2. ASSUME NEW p \in Workers, IssueTokens(p) PROVE Abstract!Next
  BY <1>2, IssueTokensLogsIn
<1>3. ASSUME NEW p \in Workers, CommitRotation(p) PROVE Abstract!Next
  BY <1>3, CommitRotationRefreshes
<1>4. ASSUME NEW p \in Workers, CommitRevoke(p) \/ CommitLogout(p)
      PROVE  Abstract!Next \/ UNCHANGED <<Current, Rows>>
  <2>1. PICK g \in Ids : g = FamilyOf(p)
    <3>1. FamilyOf(p) \in Rows
      BY <1>4, RowOfRequest DEF IInv, CommitRevoke, CommitLogout
    <3> QED BY <3>1, MaxSessionsAssumption DEF IInv, TypeOK, Rows, Ids
  <2>2. CASE CommitRevoke(p)
    <3>1. \A i \in {j \in Rows : rowLock[j] = p} : i \in Ids
      BY MaxSessionsAssumption DEF IInv, TypeOK, Rows, Ids
    <3>2. \A i \in {j \in Rows : rowLock[j] = p} : sessions[i].family = g
      BY <2>1, <3>1 DEF Confined, OwnFamily
    <3>3. Blocks({j \in Rows : rowLock[j] = p})
      BY <2>2, CommitRevokeBlocks DEF IInv
    <3> QED BY <3>2, <3>3, BlocksClose
  <2>3. CASE CommitLogout(p)
    <3>1. {req[p].id} \in SUBSET Rows /\ \A i \in {req[p].id} : sessions[i].family = g
      BY <2>1, <2>3 DEF IInv, TypeOK, CommitLogout, FamilyOf
    <3>2. Blocks({req[p].id})
      BY <2>3, CommitLogoutBlocks DEF IInv
    <3> QED BY <3>1, <3>2, BlocksClose
  <2> QED BY <1>4, <2>2, <2>3
<1>5. CASE \E p \in Workers : Start(p) \/ Step(p) \/ Crash(p)
  BY <1>1, <1>2, <1>3, <1>4, <1>5
     DEF Start, BeginRotate, BeginLogout, Step, LockSession, RefuseRotate, AcceptRotate,
         StartRevoke, RevokeRow, DeadlockAbort, Crash
<1>6. CASE \/ \E i \in Expirable : Expire(i)
           \/ \E F \in Suspendable : Deactivate(F)
           \/ Full
           \/ UNCHANGED vars
  BY <1>1, <1>6 DEF Expire, Deactivate, Full, vars
<1> QED BY <1>5, <1>6 DEF Next

\* What a worker locks or is about to lock is of one family: reuse detected in
\* one login never blocks a link of another.
THEOREM RevocationConfined == Spec => []Confined
<1>1. IInv /\ Confined /\ [Next]_vars => Confined'
  BY ConfinedStep
<1> QED BY <1>1, ConfinedInit, SessionsInvariant, PTL DEF Spec

\* A worker that is waited for and waits itself is revoking, and the three are
\* of one family.
OnlyReplaysWaitInTurn ==
  \A p, q, r \in Workers : WaitsFor(p, q) /\ WaitsFor(q, r) =>
    pc[q] = "revoke" /\ FamilyOf(p) = FamilyOf(q) /\ FamilyOf(q) = FamilyOf(r)

LEMMA LocksOfOneFamily ==
  ASSUME IInv, Confined, NEW p \in Workers, NEW q \in Workers, WaitsFor(p, q)
  PROVE  pc[q] \in {"check", "revoke", "mint"} /\ FamilyOf(p) = FamilyOf(q)
<1>1. CASE pc[p] \in {"lock", "logout"} /\ rowLock[req[p].id] = q
  <2>1. req[p].id \in Ids
    BY <1>1, RowOfRequest DEF IInv
  <2> QED BY <1>1, <2>1 DEF Confined, OwnFamily, FamilyOf
<1>2. CASE pc[p] = "revoke" /\ \E i \in todo[p] : rowLock[i] = q
  <2>1. PICK i \in todo[p] : rowLock[i] = q
    BY <1>2
  <2>2. i \in Ids
    BY DEF IInv, TypeOK
  <2>3. sessions[i].family = FamilyOf(p)
    BY <1>2, <2>1 DEF Confined, OwnFamily
  <2>4. pc[q] \in {"check", "revoke", "mint"} /\ sessions[i].family = FamilyOf(q)
    BY <2>1, <2>2 DEF Confined, OwnFamily
  <2> QED BY <2>3, <2>4
<1> QED BY <1>1, <1>2 DEF WaitsFor

\* The deadlocks PostgreSQL has to break are between replays of one family:
\* logins, rotations and logouts never take part in one but by waiting for it,
\* and users never stand in each other's way.
THEOREM OnlyReplaysDeadlock == Spec => []OnlyReplaysWaitInTurn
<1>1. IInv /\ Confined => OnlyReplaysWaitInTurn
  <2> SUFFICES ASSUME IInv, Confined, NEW p \in Workers, NEW q \in Workers, NEW r \in Workers,
                      WaitsFor(p, q), WaitsFor(q, r)
               PROVE  pc[q] = "revoke" /\ FamilyOf(p) = FamilyOf(q) /\ FamilyOf(q) = FamilyOf(r)
    BY DEF OnlyReplaysWaitInTurn
  <2>1. pc[q] \in {"lock", "logout", "revoke"}
    BY DEF WaitsFor
  <2> QED BY <2>1, LocksOfOneFamily
<1> QED BY <1>1, SessionsInvariant, RevocationConfined, PTL

\* The sessions table, with its row locks, snapshots, races and crashes, opens,
\* refreshes and closes one family at a time, and no token comes back.
THEOREM FamiliesRefinement == Spec => ImplementsFamilies
<1>1. Init => Abstract!Init
  BY FamiliesInit
<1>2. IInv /\ IInv' /\ Confined /\ [Next]_vars => [Abstract!Next]_<<Current, Rows>>
  BY FamiliesStep
<1> QED BY <1>1, <1>2, SessionsInvariant, RevocationConfined, PTL
        DEF Spec, ImplementsFamilies, Abstract!Spec, Current

=============================================================================
