--------------------------- MODULE PrincipalsProofs ---------------------------
(***************************************************************************)
(* The money path behind the session check is still the money path, and    *)
(* the sessions in front of it are still the sessions.                     *)
(***************************************************************************)
EXTENDS Principals, TransfersProofs

\* Whatever the sessions do, what the ledger sees is a behaviour of Transfers:
\* the check in front only refuses calls.  Every theorem of TransfersProofs
\* therefore holds behind it.
THEOREM BehindSessions == PrincipalsSpec => Spec
<1>1. PrincipalsInit => Init
  BY DEF PrincipalsInit
<1>2. [PrincipalsNext]_principalVars => [Next]_vars
  <2> SUFFICES ASSUME [PrincipalsNext]_principalVars PROVE [Next]_vars
    OBVIOUS
  <2>1. CASE \E p \in Workers : \E i \in 1..MaxSessions : AdmitSend(p, i)
    <3>1. PICK p \in Workers, i \in 1..MaxSessions : AdmitSend(p, i)
      BY <2>1
    <3>2. Start(p)
      BY <3>1 DEF AdmitSend, Start
    <3> QED BY <3>1, <3>2 DEF Next
  <2>2. CASE Money \/ Operator
    BY <2>2 DEF Money, Operator, Next
  <2>3. CASE UNCHANGED vars
    BY <2>3
  <2> QED BY <2>1, <2>2, <2>3 DEF PrincipalsNext, principalVars
<1> QED BY <1>1, <1>2, PTL DEF PrincipalsSpec, Spec

-----------------------------------------------------------------------------
(* The sessions in front of the money path are still the sessions. *)

\* The families of deactivated users.
Inactive == {f \in 1..MaxSessions : \E a \in Accounts : f \in Logins(a) /\ users[a] = "inactive"}

\* A registration turns an absent user into an active one, never an inactive one.
LEMMA MoneyKeepsActive ==
  ASSUME Base, \/ \E p \in Workers, i \in 1..MaxSessions : AdmitSend(p, i)
               \/ Money
  PROVE  \A a \in Accounts : users'[a] = "inactive" <=> users[a] = "inactive"
<1>1. CASE UNCHANGED users
  BY <1>1
<1>2. ASSUME NEW p \in Workers, CommitRegistration(p)
      PROVE  \A a \in Accounts : users'[a] = "inactive" <=> users[a] = "inactive"
  <2>1. CommitGrant(p)
    BY <1>2 DEF CommitRegistration, CommitGrant
  <2>2. users[req[p].user] = "absent" /\ users' = [users EXCEPT ![req[p].user] = "active"]
    BY <2>1 DEF CommitGrant, Base, LockDiscipline, HoldsItsLocks, Engaged
  <2> QED BY <2>2 DEF Base, TypeOK
<1>3. CASE \E p \in Workers, i \in 1..MaxSessions : AdmitSend(p, i)
  BY <1>1, <1>3 DEF AdmitSend, BeginSend, tables
<1>4. ASSUME NEW p \in Workers, Crash(p) \/ (Step(p) /\ ~CommitRegistration(p))
      PROVE  UNCHANGED users
  BY <1>4
     DEF Step, tables, RefuseRecipient, RefusePin, AcceptPin, FindReplay, LockFirst, LockSecond,
         PostDoubleEntry, PostOverflows, RefuseInsufficient, CommitRefusal, LoseToDuplicate,
         ReturnWinner, CommitTransfer, InsertUser, Reply, Crash
<1> QED BY <1>1, <1>2, <1>3, <1>4 DEF Money

\* An operator's UPDATE of one user reaches all of that user's families.
LEMMA OperatorDeactivates ==
  ASSUME Base, NEW a \in Suspendable, Deactivate(a)
  PROVE  Inactive' = Inactive \cup Logins(a)
<1>1. a \in Accounts /\ users' = [users EXCEPT ![a] = "inactive"] /\ users \in [Accounts -> {"absent", "active", "inactive"}]
  BY SuspendableAssumption DEF Deactivate, Base, TypeOK
<1> QED BY <1>1 DEF Inactive, Logins

\* The transfers leave the sessions alone, and the users table they share with
\* them changes only as an operator changes it: what the sessions see is a
\* behaviour of Sessions.
THEOREM InFrontOfTransfers == PrincipalsSpec => S!Spec
<1>1. PrincipalsInit => S!Init
  BY DEF PrincipalsInit, S!Init, S!Ids, Init, InitTables
<1>2. Base /\ [PrincipalsNext]_principalVars => [S!Next]_(S!vars)
  <2> SUFFICES ASSUME Base, [PrincipalsNext]_principalVars
               PROVE  S!Next \/ UNCHANGED <<authVars, Inactive>>
    BY DEF S!vars, S!table, S!world, authVars, Inactive
  <2>1. CASE \/ \E p \in Workers, i \in 1..MaxSessions : AdmitSend(p, i)
             \/ Money /\ UNCHANGED authVars
    BY <2>1, MoneyKeepsActive DEF AdmitSend, Inactive, Logins
  <2>2. ASSUME NEW a \in Suspendable, Deactivate(a), UNCHANGED authVars
        PROVE  S!Next \/ UNCHANGED <<authVars, Inactive>>
    <3>1. Inactive' = Inactive \cup Logins(a)
      BY <2>2, OperatorDeactivates
    <3>2. CASE Logins(a) \subseteq Inactive
      BY <2>2, <3>1, <3>2
    <3>3. CASE ~(Logins(a) \subseteq Inactive)
      <4>1. S!Deactivate(Logins(a))
        BY <2>2, <3>1, <3>3 DEF S!Deactivate, S!table, authVars, Inactive
      <4> QED BY <4>1 DEF S!Next
    <3> QED BY <3>2, <3>3
  <2>3. CASE Auth
    BY <2>3 DEF Auth, S!Next
  <2>4. CASE UNCHANGED principalVars
    BY <2>4 DEF principalVars, vars, tables, Inactive
  <2> QED BY <2>1, <2>2, <2>3, <2>4 DEF PrincipalsNext, Operator
<1>3. PrincipalsSpec => []Base
  BY BehindSessions, BaseInvariant, PTL
<1> QED BY <1>1, <1>2, <1>3, PTL DEF PrincipalsSpec, S!Spec

=============================================================================
