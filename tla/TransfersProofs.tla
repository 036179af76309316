-------------------------- MODULE TransfersProofs --------------------------
(***************************************************************************)
(* Theorems about Transfers, for every set of workers, accounts, amounts   *)
(* and keys and every number of requests.                                  *)
(***************************************************************************)
EXTENDS Transfers, Sums, TLAPS

\* The state the seeding leaves has the declared types.
LEMMA InitTyped == Init => TypeOK
<1> SUFFICES ASSUME Init PROVE TypeOK
  OBVIOUS
<1>1. Len(Seeded) \in Nat /\ \A i \in 1..Len(Seeded) : Seeded[i] \in Accounts
  BY SeededAssumption
<1>2. users \in [Accounts -> {"absent", "active", "inactive"}]
  BY DEF Init, InitTables
<1>3. balance \in [Wallets -> Int]
  BY <1>1, SignupGrantAssumption DEF Init, InitTables
<1>4. txns \in Seq(Transaction)
  <2>1. \A i \in 1..Len(Seeded) : GrantTo(Seeded[i]) \in Transaction
    BY <1>1, SignupGrantAssumption DEF GrantTo, Transaction, Wallets
  <2> QED BY <2>1, <1>1 DEF Init, InitTables
<1>5. entries \in [Wallets -> Seq(LedgerEntry)]
  <2>1. \A w \in SeededSet : SeedIndex(w) \in 1..Len(Seeded)
    BY DEF SeededSet, SeedIndex
  <2>2. \A i \in 1..Len(Seeded) :
          [txn |-> i, amount |-> -SignupGrant, balance_after |-> -(i * SignupGrant),
           created_at |-> 0] \in LedgerEntry
    BY <1>1, SignupGrantAssumption DEF LedgerEntry
  <2>3. [i \in 1..Len(Seeded) |-> [txn |-> i, amount |-> -SignupGrant,
           balance_after |-> -(i * SignupGrant), created_at |-> 0]] \in Seq(LedgerEntry)
    BY <1>1, <2>2
  <2>4. \A w \in SeededSet :
          [txn |-> SeedIndex(w), amount |-> SignupGrant, balance_after |-> SignupGrant,
           created_at |-> 0] \in LedgerEntry
    BY <1>1, <2>1, SignupGrantAssumption DEF LedgerEntry
  <2> QED BY <2>3, <2>4 DEF Init, InitTables
<1>6. audit \in [AuditAction -> Nat]
  BY <1>1 DEF Init, InitTables
<1>7. /\ lock \in [Wallets -> Workers \cup {Nobody}]
      /\ phoneLock \in [Accounts -> Workers \cup {Nobody}]
      /\ pc \in [Workers -> PC]
      /\ view \in [Workers -> [src: Int, dst: Int]]
      /\ reply \in [Workers -> [kind: ReplyKind, txn: Nat]]
      /\ clock \in 0..MaxStarts
  BY MaxStartsAssumption DEF Init, PC, NoView, NoReply, ReplyKind
<1>8. req \in [Workers -> Request]
  BY DEF Init, NoRequest, Request, Wallets
<1> QED BY <1>2, <1>3, <1>4, <1>5, <1>6, <1>7, <1>8 DEF TypeOK

\* The rows a commit writes have the declared types.
LEMMA CommitTyped ==
  ASSUME TypeOK, NEW p \in Workers, req[p].user \in Accounts, req[p].amount \in Nat \ {0},
         CommitRows(p)
  PROVE  /\ balance' \in [Wallets -> Int]
         /\ txns' \in Seq(Transaction)
         /\ entries' \in [Wallets -> Seq(LedgerEntry)]
<1>1. req[p] \in Request /\ view[p] \in [src: Int, dst: Int]
  BY DEF TypeOK
<1>2. NewTransaction(p) \in Transaction
  BY <1>1 DEF NewTransaction, Transaction, Request
<1>3. DebitEntry(p) \in LedgerEntry /\ CreditEntry(p) \in LedgerEntry
  BY <1>1 DEF TypeOK, DebitEntry, CreditEntry, NewEntry, LedgerEntry, Request
<1>4. req[p].src \in Wallets /\ req[p].dst \in Wallets
  BY <1>1 DEF Request
<1>5. balance' \in [Wallets -> Int]
  BY <1>1, <1>4 DEF TypeOK, CommitRows
<1>6. txns' \in Seq(Transaction)
  BY <1>2 DEF TypeOK, CommitRows
<1>7. entries' \in [Wallets -> Seq(LedgerEntry)]
  <2>1. \A w \in Wallets : entries[w] \in Seq(LedgerEntry)
    BY DEF TypeOK
  <2>2. /\ Append(entries[req[p].src], DebitEntry(p)) \in Seq(LedgerEntry)
        /\ Append(entries[req[p].dst], CreditEntry(p)) \in Seq(LedgerEntry)
    BY <1>3, <1>4, <2>1
  <2> QED BY <1>4, <2>2 DEF TypeOK, CommitRows
<1> QED BY <1>5, <1>6, <1>7

LEMMA GotoTyped ==
  ASSUME TypeOK, NEW p \in Workers, NEW l \in PC, Goto(p, l)
  PROVE  pc' \in [Workers -> PC]
  BY DEF TypeOK, Goto

LEMMA AuditTyped ==
  ASSUME TypeOK, NEW action \in AuditAction, AddAudit(action)
  PROVE  audit' \in [AuditAction -> Nat]
  BY DEF TypeOK, AddAudit

LEMMA ReleaseTyped ==
  ASSUME TypeOK, NEW p \in Workers
  PROVE  /\ ReleaseWallets(p) => lock' \in [Wallets -> Workers \cup {Nobody}]
         /\ ReleasePhone(p) => phoneLock' \in [Accounts -> Workers \cup {Nobody}]
  BY DEF TypeOK, ReleaseWallets, ReleasePhone

LEMMA AnswerTyped ==
  ASSUME TypeOK, NEW p \in Workers, NEW kind \in ReplyKind, NEW i \in Nat, Answer(p, kind, i)
  PROVE  pc' \in [Workers -> PC] /\ reply' \in [Workers -> [kind: ReplyKind, txn: Nat]]
  BY DEF TypeOK, Answer, Goto, PC

LEMMA AnswerWithTyped ==
  ASSUME TypeOK, NEW p \in Workers, NEW i \in 1..Len(txns), AnswerWith(p, i)
  PROVE  pc' \in [Workers -> PC] /\ reply' \in [Workers -> [kind: ReplyKind, txn: Nat]]
<1>1. /\ (IF SameRequest(txns[i], req[p]) THEN "replayed" ELSE "key_conflict") \in ReplyKind
      /\ (IF SameRequest(txns[i], req[p]) THEN i ELSE 0) \in Nat
  BY DEF ReplyKind
<1> QED BY <1>1, AnswerTyped DEF AnswerWith

LEMMA ForgetTyped ==
  ASSUME TypeOK, NEW p \in Workers, Forget(p)
  PROVE  /\ pc' \in [Workers -> PC] /\ req' \in [Workers -> Request]
         /\ view' \in [Workers -> [src: Int, dst: Int]]
         /\ reply' \in [Workers -> [kind: ReplyKind, txn: Nat]]
<1>1. NoRequest \in Request /\ NoView \in [src: Int, dst: Int]
      /\ NoReply \in [kind: ReplyKind, txn: Nat]
  BY DEF NoRequest, NoView, NoReply, Request, ReplyKind, Wallets
<1> QED BY <1>1 DEF TypeOK, Forget, Goto, PC

\* The kind of request at the points that serve one kind only.
LEMMA OpOf ==
  ASSUME RequestShape, NEW p \in Workers
  PROVE  /\ pc[p] = "resolve" => req[p].op = "send"
         /\ pc[p] = "insert_user" => req[p].op = "register"
         /\ pc[p] \in {"find_replay", "reject", "find_winner"} => req[p].op \in {"send", "approve"}
         /\ req[p].op = "register" => req[p].user \in Accounts /\ req[p].key = NoKey
  BY DEF RequestShape, Engaged, InTransfer

\* Every step keeps the types and the shape of the requests.
LEMMA StepTyped ==
  ASSUME TypeOK, RequestShape, [Next]_vars
  PROVE  TypeOK' /\ RequestShape'
<1> USE DEF tables, locks, session, vars
<1>1. ASSUME NEW p \in Workers, NEW s \in Accounts, NEW r \in Accounts,
             NEW m \in Amounts, NEW k \in Keys \cup {NoKey}, BeginSend(p, s, r, m, k)
      PROVE  TypeOK' /\ RequestShape'
  <2>1. TypeOK'
    <3>1. pc' \in [Workers -> PC]
      BY <1>1, GotoTyped DEF BeginSend, PC
    <3>2. req' \in [Workers -> Request] /\ clock' \in 0..MaxStarts
      BY <1>1, AmountsAssumption, MaxStartsAssumption DEF TypeOK, BeginSend, Request, Wallets
    <3>3. view' \in [Workers -> [src: Int, dst: Int]]
      BY <1>1 DEF TypeOK, BeginSend, Wallets
    <3> QED BY <1>1, <3>1, <3>2, <3>3 DEF TypeOK, BeginSend
  <2>2. RequestShape'
    BY <1>1 DEF TypeOK, RequestShape, InTransfer, Engaged, BeginSend, Goto
  <2> QED BY <2>1, <2>2
<1>2. ASSUME NEW p \in Workers, NEW a \in Accounts, BeginRegister(p, a)
      PROVE  TypeOK' /\ RequestShape'
  <2>1. TypeOK'
    <3>1. pc' \in [Workers -> PC] /\ reply' \in [Workers -> [kind: ReplyKind, txn: Nat]]
      BY <1>2, AnswerTyped DEF TypeOK, BeginRegister, Goto, PC, ReplyKind
    <3>2. req' \in [Workers -> Request] /\ clock' \in 0..MaxStarts
      BY <1>2, SignupGrantAssumption, MaxStartsAssumption
         DEF TypeOK, BeginRegister, Request, Wallets
    <3> QED BY <1>2, <3>1, <3>2 DEF TypeOK, BeginRegister
  <2>2. RequestShape'
    BY <1>2 DEF TypeOK, RequestShape, InTransfer, Engaged, BeginRegister, Goto, Answer
  <2> QED BY <2>1, <2>2
<1>3. ASSUME NEW p \in Workers, RefuseRecipient(p)
      PROVE  TypeOK' /\ RequestShape'
  <2>1. TypeOK'
    <3>1. pc' \in [Workers -> PC] /\ reply' \in [Workers -> [kind: ReplyKind, txn: Nat]]
      BY <1>3, AnswerTyped DEF TypeOK, RefuseRecipient, Goto, PC, ReplyKind
    <3> QED BY <1>3, <3>1 DEF TypeOK, RefuseRecipient
  <2>2. RequestShape'
    BY <1>3 DEF TypeOK, RequestShape, InTransfer, Engaged, RefuseRecipient, Answer, Goto
  <2> QED BY <2>1, <2>2
<1>4. ASSUME NEW p \in Workers, RefusePin(p)
      PROVE  TypeOK' /\ RequestShape'
  <2>1. TypeOK'
    <3>1. pc' \in [Workers -> PC] /\ reply' \in [Workers -> [kind: ReplyKind, txn: Nat]]
      BY <1>4, AnswerTyped DEF TypeOK, RefusePin, Goto, PC, ReplyKind
    <3>2. audit' \in [AuditAction -> Nat]
      BY <1>4, AuditTyped DEF RefusePin, AuditAction
    <3> QED BY <1>4, <3>1, <3>2 DEF TypeOK, RefusePin
  <2>2. RequestShape'
    BY <1>4 DEF TypeOK, RequestShape, InTransfer, Engaged, RefusePin, RecipientResolved, Answer, Goto
  <2> QED BY <2>1, <2>2
<1>5. ASSUME NEW p \in Workers, AcceptPin(p)
      PROVE  TypeOK' /\ RequestShape'
  <2>1. TypeOK'
    <3>1. pc' \in [Workers -> PC]
      BY <1>5, GotoTyped DEF AcceptPin, PC
    <3>2. view' \in [Workers -> [src: Int, dst: Int]]
      BY <1>5 DEF TypeOK, AcceptPin, Request
    <3> QED BY <1>5, <3>1, <3>2 DEF TypeOK, AcceptPin
  <2>2. RequestShape'
    <3>1. /\ pc[p] = "resolve" /\ req[p].op = "send" /\ pc' = [pc EXCEPT ![p] = "find_replay"]
          /\ users[req[p].dst] = "active" /\ req[p].dst # req[p].user
          /\ req[p].dst \in Accounts /\ req[p].amount \in Amounts /\ req[p].src = req[p].user
          /\ UNCHANGED <<users, req, reply>>
      BY <1>5 DEF RequestShape, AcceptPin, RecipientResolved, Goto
    <3> QED BY <3>1 DEF TypeOK, RequestShape, InTransfer, Engaged
  <2> QED BY <2>1, <2>2
<1>6. ASSUME NEW p \in Workers, FindReplay(p)
      PROVE  TypeOK' /\ RequestShape'
  <2>1. TypeOK'
    <3>1. pc' \in [Workers -> PC] /\ reply' \in [Workers -> [kind: ReplyKind, txn: Nat]]
      BY <1>6, AnswerWithTyped DEF TypeOK, FindReplay, Goto, PC, ReplyKind
    <3> QED BY <1>6, <3>1 DEF TypeOK, FindReplay
  <2>2. RequestShape'
    <3>1. \/ pc' = [pc EXCEPT ![p] = "done"] /\ \A q \in Workers \ {p} : reply'[q] = reply[q]
          \/ pc' = [pc EXCEPT ![p] = "lock_low"] /\ reply' = reply
      BY <1>6 DEF TypeOK, FindReplay, AnswerWith, Answer, Goto
    <3>2. pc[p] = "find_replay" /\ req' = req /\ users' = users
      BY <1>6 DEF FindReplay
    <3>3. CASE pc' = [pc EXCEPT ![p] = "done"] /\ \A q \in Workers \ {p} : reply'[q] = reply[q]
      BY <3>2, <3>3 DEF TypeOK, RequestShape, InTransfer, Engaged
    <3>4. CASE pc' = [pc EXCEPT ![p] = "lock_low"] /\ reply' = reply
      BY <3>2, <3>4 DEF TypeOK, RequestShape, InTransfer, Engaged
    <3> QED BY <3>1, <3>3, <3>4
  <2> QED BY <2>1, <2>2
<1>7. ASSUME NEW p \in Workers, LockFirst(p)
      PROVE  TypeOK' /\ RequestShape'
  <2>1. TypeOK'
    BY <1>7 DEF TypeOK, PC, ReplyKind, Request, Wallets, LockFirst, FirstLock, Goto
  <2>2. RequestShape'
    BY <1>7 DEF TypeOK, RequestShape, InTransfer, Engaged, LockFirst, FirstLock, Goto
  <2> QED BY <2>1, <2>2
<1>8. ASSUME NEW p \in Workers, LockSecond(p)
      PROVE  TypeOK' /\ RequestShape'
  <2>1. TypeOK'
    <3>1. pc' \in [Workers -> PC]
      BY <1>8, GotoTyped DEF LockSecond, PC
    <3>2. SecondLock(p) \in Wallets /\ LockedView(p) \in [src: Int, dst: Int]
      BY DEF TypeOK, Request, SecondLock, FirstLock, LockedView
    <3>3. lock' \in [Wallets -> Workers \cup {Nobody}] /\ view' \in [Workers -> [src: Int, dst: Int]]
      BY <1>8, <3>2 DEF TypeOK, LockSecond
    <3> QED BY <1>8, <3>1, <3>3 DEF TypeOK, LockSecond
  <2>2. RequestShape'
    BY <1>8 DEF TypeOK, RequestShape, InTransfer, Engaged, LockSecond, Goto
  <2> QED BY <2>1, <2>2
<1>9. ASSUME NEW p \in Workers, PostDoubleEntry(p)
      PROVE  TypeOK' /\ RequestShape'
  <2>1. TypeOK'
    <3>1. Debited(p) \in Int /\ Credited(p) \in Int
      BY DEF TypeOK, Debited, Credited, Request
    <3> QED BY <1>9, <3>1 DEF TypeOK, PostDoubleEntry, Goto, PC
  <2>2. RequestShape'
    BY <1>9 DEF TypeOK, RequestShape, InTransfer, Engaged, PostDoubleEntry, Debited, Credited, Goto
  <2> QED BY <2>1, <2>2
<1>10. ASSUME NEW p \in Workers, PostOverflows(p)
      PROVE  TypeOK' /\ RequestShape'
  <2>1. TypeOK'
    <3>1. pc' \in [Workers -> PC] /\ reply' \in [Workers -> [kind: ReplyKind, txn: Nat]]
      BY <1>10, AnswerTyped DEF PostOverflows, ReplyKind
    <3> QED BY <1>10, <3>1, ReleaseTyped DEF TypeOK, PostOverflows
  <2>2. RequestShape'
    BY <1>10 DEF TypeOK, RequestShape, InTransfer, Engaged, PostOverflows, Answer, Goto
  <2> QED BY <2>1, <2>2
<1>11. ASSUME NEW p \in Workers, RefuseInsufficient(p)
      PROVE  TypeOK' /\ RequestShape'
  <2>1. TypeOK'
    <3>1. pc' \in [Workers -> PC]
      BY <1>11, GotoTyped DEF RefuseInsufficient, PC
    <3> QED BY <1>11, <3>1, ReleaseTyped DEF TypeOK, RefuseInsufficient
  <2>2. RequestShape'
    BY <1>11 DEF TypeOK, RequestShape, InTransfer, Engaged, RefuseInsufficient, Insufficient, Goto
  <2> QED BY <2>1, <2>2
<1>12. ASSUME NEW p \in Workers, CommitRefusal(p)
      PROVE  TypeOK' /\ RequestShape'
  <2>1. TypeOK'
    <3>1. pc' \in [Workers -> PC] /\ reply' \in [Workers -> [kind: ReplyKind, txn: Nat]]
      BY <1>12, AnswerTyped DEF CommitRefusal, ReplyKind
    <3>2. audit' \in [AuditAction -> Nat]
      BY <1>12, AuditTyped DEF CommitRefusal, AuditAction
    <3> QED BY <1>12, <3>1, <3>2 DEF TypeOK, CommitRefusal
  <2>2. RequestShape'
    BY <1>12 DEF TypeOK, RequestShape, InTransfer, Engaged, CommitRefusal, Answer, Goto
  <2> QED BY <2>1, <2>2
<1>13. ASSUME NEW p \in Workers, LoseToDuplicate(p)
      PROVE  TypeOK' /\ RequestShape'
  <2>1. TypeOK'
    <3>1. pc' \in [Workers -> PC]
      BY <1>13, GotoTyped DEF LoseToDuplicate, PC
    <3> QED BY <1>13, <3>1, ReleaseTyped DEF TypeOK, LoseToDuplicate
  <2>2. RequestShape'
    BY <1>13 DEF TypeOK, RequestShape, InTransfer, Engaged, LoseToDuplicate, Duplicate, SameKey, Goto
  <2> QED BY <2>1, <2>2
<1>14. ASSUME NEW p \in Workers, ReturnWinner(p)
      PROVE  TypeOK' /\ RequestShape'
  <2>1. TypeOK'
    <3>1. pc' \in [Workers -> PC] /\ reply' \in [Workers -> [kind: ReplyKind, txn: Nat]]
      BY <1>14, AnswerWithTyped DEF TypeOK, ReturnWinner, Goto, PC, ReplyKind
    <3> QED BY <1>14, <3>1 DEF TypeOK, ReturnWinner
  <2>2. RequestShape'
    BY <1>14 DEF TypeOK, RequestShape, InTransfer, Engaged, ReturnWinner, AnswerWith, Answer, Goto
  <2> QED BY <2>1, <2>2
<1>15. ASSUME NEW p \in Workers, CommitTransfer(p)
      PROVE  TypeOK' /\ RequestShape'
  <2>0. req[p].user \in Accounts /\ req[p].amount \in Nat \ {0}
    BY <1>15, AmountsAssumption, SignupGrantAssumption DEF CommitTransfer, RequestShape, Engaged, InTransfer
  <2>1. /\ balance' \in [Wallets -> Int]
        /\ txns' \in Seq(Transaction)
        /\ entries' \in [Wallets -> Seq(LedgerEntry)]
    BY <1>15, <2>0, CommitTyped DEF CommitTransfer
  <2>2. TypeOK'
    <3>1. pc' \in [Workers -> PC] /\ reply' \in [Workers -> [kind: ReplyKind, txn: Nat]]
      <4>1. Len(txns) + 1 \in Nat
        BY DEF TypeOK
      <4> QED BY <1>15, <4>1, AnswerTyped DEF CommitTransfer, ReplyKind
    <3>2. audit' \in [AuditAction -> Nat]
      BY <1>15, AuditTyped DEF CommitTransfer, AuditAction
    <3>3. users' \in [Accounts -> {"absent", "active", "inactive"}]
      BY <1>15 DEF TypeOK, CommitTransfer
    <3> QED BY <1>15, <2>1, <3>1, <3>2, <3>3, ReleaseTyped DEF TypeOK, CommitTransfer
  <2>3. RequestShape'
    <3>1. /\ pc' = [pc EXCEPT ![p] = "done"] /\ req' = req
          /\ \A q \in Workers \ {p} : reply'[q] = reply[q]
          /\ \A a \in Accounts : users[a] # "absent" => users'[a] # "absent"
      BY <1>15 DEF TypeOK, CommitTransfer, Answer, Goto
    <3> QED BY <3>1 DEF TypeOK, RequestShape, InTransfer, Engaged
  <2> QED BY <2>2, <2>3
<1>16. ASSUME NEW p \in Workers, InsertUser(p)
      PROVE  TypeOK' /\ RequestShape'
  <2>1. TypeOK'
    <3>1. pc' \in [Workers -> PC] /\ reply' \in [Workers -> [kind: ReplyKind, txn: Nat]]
      <4>1. CASE PhoneTaken(p)
        BY <1>16, <4>1, AnswerTyped DEF InsertUser, ReplyKind
      <4>2. CASE ~PhoneTaken(p)
        BY <1>16, <4>2, GotoTyped DEF TypeOK, InsertUser, PC
      <4> QED BY <4>1, <4>2
    <3>2. phoneLock' \in [Accounts -> Workers \cup {Nobody}]
      BY <1>16 DEF TypeOK, InsertUser
    <3> QED BY <1>16, <3>1, <3>2 DEF TypeOK, InsertUser
  <2>2. RequestShape'
    <3>1. pc[p] = "insert_user" /\ req' = req /\ users' = users
      BY <1>16 DEF InsertUser
    <3>2. CASE PhoneTaken(p)
      <4>1. pc' = [pc EXCEPT ![p] = "done"] /\ \A q \in Workers \ {p} : reply'[q] = reply[q]
        BY <1>16, <3>2 DEF TypeOK, InsertUser, Answer, Goto
      <4> QED BY <3>1, <4>1 DEF TypeOK, RequestShape, InTransfer, Engaged
    <3>3. CASE ~PhoneTaken(p)
      <4>1. pc' = [pc EXCEPT ![p] = "lock_low"] /\ reply' = reply
        BY <1>16, <3>3 DEF InsertUser, Goto
      <4> QED BY <3>1, <4>1 DEF TypeOK, RequestShape, InTransfer, Engaged
    <3> QED BY <3>2, <3>3
  <2> QED BY <2>1, <2>2
<1>17. ASSUME NEW p \in Workers, CommitRegistration(p)
      PROVE  TypeOK' /\ RequestShape'
  <2>0. req[p].user \in Accounts /\ req[p].amount \in Nat \ {0}
    BY <1>17, AmountsAssumption, SignupGrantAssumption DEF CommitRegistration, RequestShape, Engaged, InTransfer
  <2>1. /\ balance' \in [Wallets -> Int]
        /\ txns' \in Seq(Transaction)
        /\ entries' \in [Wallets -> Seq(LedgerEntry)]
    BY <1>17, <2>0, CommitTyped DEF CommitRegistration
  <2>2. TypeOK'
    <3>1. pc' \in [Workers -> PC] /\ reply' \in [Workers -> [kind: ReplyKind, txn: Nat]]
      <4>1. Len(txns) + 1 \in Nat
        BY DEF TypeOK
      <4> QED BY <1>17, <4>1, AnswerTyped DEF CommitRegistration, ReplyKind
    <3>2. audit' \in [AuditAction -> Nat]
      BY <1>17, AuditTyped DEF CommitRegistration, AuditAction
    <3>3. users' \in [Accounts -> {"absent", "active", "inactive"}]
      BY <1>17 DEF TypeOK, CommitRegistration
    <3> QED BY <1>17, <2>1, <3>1, <3>2, <3>3, ReleaseTyped DEF TypeOK, CommitRegistration
  <2>3. RequestShape'
    <3>1. /\ pc' = [pc EXCEPT ![p] = "done"] /\ req' = req
          /\ \A q \in Workers \ {p} : reply'[q] = reply[q]
          /\ \A a \in Accounts : users[a] # "absent" => users'[a] # "absent"
      BY <1>17 DEF TypeOK, CommitRegistration, Answer, Goto
    <3> QED BY <3>1 DEF TypeOK, RequestShape, InTransfer, Engaged
  <2> QED BY <2>2, <2>3
<1>18. ASSUME NEW p \in Workers, Reply(p)
      PROVE  TypeOK' /\ RequestShape'
  <2>1. TypeOK'
    BY <1>18, ForgetTyped DEF TypeOK, Reply
  <2>2. RequestShape'
    BY <1>18 DEF TypeOK, RequestShape, InTransfer, Engaged, Reply, Forget, Goto, NoRequest, NoView, NoReply
  <2> QED BY <2>1, <2>2
<1>19. ASSUME NEW p \in Workers, Crash(p)
      PROVE  TypeOK' /\ RequestShape'
  <2>1. TypeOK'
    BY <1>19, ForgetTyped, ReleaseTyped DEF TypeOK, Crash
  <2>2. RequestShape'
    BY <1>19 DEF TypeOK, RequestShape, InTransfer, Engaged, Crash, Forget, Goto, NoRequest, NoView, NoReply
  <2> QED BY <2>1, <2>2
<1>20. ASSUME NEW a \in Suspendable, Deactivate(a)
      PROVE  TypeOK' /\ RequestShape'
  BY <1>20, SuspendableAssumption DEF TypeOK, RequestShape, InTransfer, Engaged, Deactivate
<1>21. CASE UNCHANGED vars
  BY <1>21 DEF TypeOK, RequestShape, InTransfer, Engaged
<1> QED
  BY <1>1, <1>2, <1>3, <1>4, <1>5, <1>6, <1>7, <1>8, <1>9, <1>10, <1>11, <1>12, <1>13, <1>14, <1>15, <1>16, <1>17, <1>18, <1>19, <1>20, <1>21 DEF Next, Start, Step, Finished

LEMMA WalletsReleased ==
  ASSUME TypeOK, NEW p \in Workers, ReleaseWallets(p)
  PROVE  \A w \in Wallets :
           /\ lock'[w] # p
           /\ \A q \in Workers \ {p} : lock'[w] = q <=> lock[w] = q
  BY NobodyAssumption DEF TypeOK, ReleaseWallets

LEMMA PhoneReleased ==
  ASSUME TypeOK, NEW p \in Workers, ReleasePhone(p)
  PROVE  \A a \in Accounts :
           /\ phoneLock'[a] # p
           /\ \A q \in Workers \ {p} : phoneLock'[a] = q <=> phoneLock[a] = q
  BY NobodyAssumption DEF TypeOK, ReleasePhone

\* A step of somebody else leaves a worker's locks as they were.
LEMMA OtherHoldsItsLocks ==
  ASSUME TypeOK, NEW q \in Workers, HoldsItsLocks(q),
         pc'[q] = pc[q], req'[q] = req[q],
         \A w \in Wallets : lock'[w] = q <=> lock[w] = q,
         \A a \in Accounts : phoneLock'[a] = q <=> phoneLock[a] = q,
         Engaged(q) /\ req[q].op = "register" => users'[req[q].user] = users[req[q].user]
  PROVE  HoldsItsLocks(q)'
<1>1. req[q].src \in Wallets /\ req[q].dst \in Wallets
  BY DEF TypeOK, Request
<1> QED BY <1>1 DEF HoldsItsLocks, Engaged, FirstLock

\* The end of a savepoint or transaction leaves the locks of others alone.
LEMMA ReleaseKeepsOthers ==
  ASSUME TypeOK, NEW p \in Workers, NEW q \in Workers \ {p}, HoldsItsLocks(q),
         ReleaseWallets(p), phoneLock' = phoneLock \/ ReleasePhone(p),
         pc'[q] = pc[q], req'[q] = req[q],
         Engaged(q) /\ req[q].op = "register" => users'[req[q].user] = users[req[q].user]
  PROVE  HoldsItsLocks(q)'
<1>1. \A w \in Wallets : lock'[w] = q <=> lock[w] = q
  BY WalletsReleased
<1>2. \A a \in Accounts : phoneLock'[a] = q <=> phoneLock[a] = q
  BY PhoneReleased
<1> QED BY <1>1, <1>2, OtherHoldsItsLocks

\* A handler that ended holds nothing.
LEMMA EndedHoldsNothing ==
  ASSUME TypeOK, NEW p \in Workers, ReleaseWallets(p), ReleasePhone(p), pc'[p] \in {"done", "idle"}
  PROVE  HoldsItsLocks(p)'
  BY WalletsReleased, PhoneReleased DEF HoldsItsLocks, Engaged

\* Every step keeps the locks where they belong.
LEMMA StepLocks ==
  ASSUME TypeOK, RequestShape, LockDiscipline, [Next]_vars
  PROVE  LockDiscipline'
<1> USE NobodyAssumption DEF tables, locks, session, vars, LockDiscipline
<1>1. ASSUME NEW p \in Workers, NEW s \in Accounts, NEW r \in Accounts,
             NEW m \in Amounts, NEW k \in Keys \cup {NoKey}, BeginSend(p, s, r, m, k)
      PROVE  LockDiscipline'
  BY <1>1 DEF HoldsItsLocks, Engaged, FirstLock, TypeOK, BeginSend, Goto
<1>2. ASSUME NEW p \in Workers, NEW a \in Accounts, BeginRegister(p, a)
      PROVE  LockDiscipline'
  BY <1>2 DEF HoldsItsLocks, Engaged, FirstLock, TypeOK, BeginRegister, Answer, Goto
<1>3. ASSUME NEW p \in Workers, RefuseRecipient(p)
      PROVE  LockDiscipline'
  BY <1>3 DEF HoldsItsLocks, Engaged, FirstLock, TypeOK, RefuseRecipient, Answer, Goto
<1>4. ASSUME NEW p \in Workers, RefusePin(p)
      PROVE  LockDiscipline'
  BY <1>4 DEF HoldsItsLocks, Engaged, FirstLock, TypeOK, RefusePin, RecipientResolved, Answer, Goto
<1>5. ASSUME NEW p \in Workers, AcceptPin(p)
      PROVE  LockDiscipline'
  BY <1>5 DEF HoldsItsLocks, Engaged, FirstLock, TypeOK, AcceptPin, RecipientResolved, Goto
<1>6. ASSUME NEW p \in Workers, FindReplay(p)
      PROVE  LockDiscipline'
  <2>1. pc[p] = "find_replay" /\ req[p].op # "register"
    <3>1. pc[p] = "find_replay"
      BY <1>6 DEF FindReplay
    <3> QED BY <3>1, OpOf
  <2> QED BY <1>6, <2>1 DEF HoldsItsLocks, Engaged, FirstLock, TypeOK, FindReplay, AnswerWith, Answer, Goto
<1>7. ASSUME NEW p \in Workers, LockFirst(p)
      PROVE  LockDiscipline'
  <2>1. \A q \in Workers \ {p} : HoldsItsLocks(q)'
    BY <1>7, OtherHoldsItsLocks DEF TypeOK, Request, LockFirst, Goto, FirstLock
  <2>2. HoldsItsLocks(p)'
    <3>1. FirstLock(p) \in Wallets
      BY DEF TypeOK, Request, FirstLock
    <3>2. /\ pc[p] = "lock_low" /\ pc'[p] = "lock_high"
          /\ lock' = [lock EXCEPT ![FirstLock(p)] = p]
          /\ UNCHANGED <<users, phoneLock, req>>
      BY <1>7 DEF TypeOK, LockFirst, Goto
    <3>a. \A w \in Wallets : lock[w] # p
      BY <3>2 DEF HoldsItsLocks
    <3>b. lock \in [Wallets -> Workers \cup {Nobody}]
      BY DEF TypeOK
    <3>3. \A w \in Wallets : lock'[w] = p <=> w = FirstLock(p)
      BY <3>1, <3>2, <3>a, <3>b
    <3>4. FirstLock(p)' = FirstLock(p)
      BY <3>2 DEF FirstLock
    <3>5. \A a \in Accounts : phoneLock'[a] = p <=>
            Engaged(p)' /\ req'[p].op = "register" /\ req'[p].user = a
      BY <3>2 DEF HoldsItsLocks, Engaged
    <3>6. Engaged(p)' /\ req'[p].op = "register" => users'[req'[p].user] = "absent"
      BY <3>2 DEF HoldsItsLocks, Engaged
    <3> QED BY <3>1, <3>2, <3>3, <3>4, <3>5, <3>6 DEF HoldsItsLocks
  <2> QED BY <2>1, <2>2
<1>8. ASSUME NEW p \in Workers, LockSecond(p)
      PROVE  LockDiscipline'
  <2>1. \A q \in Workers \ {p} : HoldsItsLocks(q)'
    BY <1>8, OtherHoldsItsLocks DEF TypeOK, Request, LockSecond, Goto, SecondLock, FirstLock
  <2>2. HoldsItsLocks(p)'
    <3>1. SecondLock(p) \in Wallets /\ FirstLock(p) \in Wallets
          /\ {FirstLock(p), SecondLock(p)} = {req[p].src, req[p].dst}
      BY DEF TypeOK, Request, SecondLock, FirstLock
    <3>2. /\ pc[p] = "lock_high" /\ pc'[p] = "post"
          /\ lock' = [lock EXCEPT ![SecondLock(p)] = p]
          /\ UNCHANGED <<users, phoneLock, req>>
      BY <1>8 DEF TypeOK, LockSecond, Goto
    <3>a. \A w \in Wallets : lock[w] = p <=> w = FirstLock(p)
      BY <3>2 DEF HoldsItsLocks
    <3>b. lock \in [Wallets -> Workers \cup {Nobody}]
      BY DEF TypeOK
    <3>3. \A w \in Wallets : lock'[w] = p <=> w \in {req[p].src, req[p].dst}
      BY <3>1, <3>2, <3>a, <3>b
    <3>4. lock'[req'[p].src] = p /\ lock'[req'[p].dst] = p
      BY <3>1, <3>2, <3>3
    <3>5. \A a \in Accounts : phoneLock'[a] = p <=>
            Engaged(p)' /\ req'[p].op = "register" /\ req'[p].user = a
      BY <3>2 DEF HoldsItsLocks, Engaged
    <3>6. Engaged(p)' /\ req'[p].op = "register" => users'[req'[p].user] = "absent"
      BY <3>2 DEF HoldsItsLocks, Engaged
    <3> QED BY <3>2, <3>3, <3>4, <3>5, <3>6 DEF HoldsItsLocks
  <2> QED BY <2>1, <2>2
<1>9. ASSUME NEW p \in Workers, PostDoubleEntry(p)
      PROVE  LockDiscipline'
  BY <1>9 DEF HoldsItsLocks, Engaged, FirstLock, TypeOK, PostDoubleEntry, Goto
<1>10. ASSUME NEW p \in Workers, PostOverflows(p)
      PROVE  LockDiscipline'
  <2>1. /\ ReleaseWallets(p) /\ ReleasePhone(p) /\ pc'[p] \in {"done", "idle"} /\ users' = users
        /\ \A q \in Workers \ {p} : pc'[q] = pc[q] /\ req'[q] = req[q]
    BY <1>10 DEF TypeOK, PostOverflows, Answer, Goto
  <2>2. \A q \in Workers \ {p} : HoldsItsLocks(q)'
    BY <2>1, ReleaseKeepsOthers
  <2> QED BY <2>1, <2>2, EndedHoldsNothing
<1>11. ASSUME NEW p \in Workers, RefuseInsufficient(p)
      PROVE  LockDiscipline'
  <2>1. \A q \in Workers \ {p} : HoldsItsLocks(q)'
    <3>1. /\ ReleaseWallets(p) /\ phoneLock' = phoneLock /\ users' = users
          /\ \A q \in Workers \ {p} : pc'[q] = pc[q] /\ req'[q] = req[q]
      BY <1>11 DEF TypeOK, RefuseInsufficient, Goto
    <3> QED BY <3>1, ReleaseKeepsOthers
  <2>2. HoldsItsLocks(p)'
    <3>1. pc[p] = "post" /\ req[p].op # "register"
      BY <1>11 DEF RefuseInsufficient, Insufficient
    <3> QED BY <1>11, <3>1, WalletsReleased DEF TypeOK, RefuseInsufficient, Insufficient, Goto, HoldsItsLocks, Engaged
  <2> QED BY <2>1, <2>2
<1>12. ASSUME NEW p \in Workers, CommitRefusal(p)
      PROVE  LockDiscipline'
  BY <1>12 DEF HoldsItsLocks, Engaged, FirstLock, TypeOK, CommitRefusal, Answer, Goto
<1>13. ASSUME NEW p \in Workers, LoseToDuplicate(p)
      PROVE  LockDiscipline'
  <2>1. \A q \in Workers \ {p} : HoldsItsLocks(q)'
    <3>1. /\ ReleaseWallets(p) /\ phoneLock' = phoneLock /\ users' = users
          /\ \A q \in Workers \ {p} : pc'[q] = pc[q] /\ req'[q] = req[q]
      BY <1>13 DEF TypeOK, LoseToDuplicate, Goto
    <3> QED BY <3>1, ReleaseKeepsOthers
  <2>2. HoldsItsLocks(p)'
    <3>1. pc[p] = "post" /\ req[p].op # "register"
      <4>1. pc[p] = "post" /\ req[p].key # NoKey
        BY <1>13 DEF LoseToDuplicate, Duplicate, SameKey
      <4> QED BY <4>1, OpOf
    <3> QED BY <1>13, <3>1, WalletsReleased DEF TypeOK, LoseToDuplicate, Duplicate, SameKey, Goto, HoldsItsLocks, Engaged
  <2> QED BY <2>1, <2>2
<1>14. ASSUME NEW p \in Workers, ReturnWinner(p)
      PROVE  LockDiscipline'
  BY <1>14 DEF HoldsItsLocks, Engaged, FirstLock, TypeOK, ReturnWinner, AnswerWith, Answer, Goto
<1>15. ASSUME NEW p \in Workers, CommitTransfer(p)
      PROVE  LockDiscipline'
  <2>1. \A q \in Workers \ {p} : HoldsItsLocks(q)'
    <3>1. /\ ReleaseWallets(p) /\ phoneLock' = phoneLock /\ users' = users
          /\ \A q \in Workers \ {p} : pc'[q] = pc[q] /\ req'[q] = req[q]
      BY <1>15 DEF TypeOK, CommitTransfer, Answer, Goto
    <3> QED BY <3>1, ReleaseKeepsOthers
  <2>2. HoldsItsLocks(p)'
    BY <1>15, WalletsReleased DEF TypeOK, CommitTransfer, Answer, Goto, HoldsItsLocks, Engaged
  <2> QED BY <2>1, <2>2
<1>16. ASSUME NEW p \in Workers, InsertUser(p)
      PROVE  LockDiscipline'
  <2>0. /\ pc[p] = "insert_user" /\ req[p].op = "register" /\ req[p].user \in Accounts
        /\ req' = req /\ users' = users /\ lock' = lock
        /\ \A q \in Workers \ {p} : pc'[q] = pc[q]
    <3>1. pc[p] = "insert_user" /\ req[p].op = "register" /\ req[p].user \in Accounts
      <4>1. pc[p] = "insert_user"
        BY <1>16 DEF InsertUser
      <4> QED BY <4>1, OpOf
    <3> QED BY <1>16, <3>1 DEF InsertUser, Answer, Goto, TypeOK
  <2>1. \A q \in Workers \ {p} : HoldsItsLocks(q)'
    <3> TAKE q \in Workers \ {p}
    <3>1. \A a \in Accounts : phoneLock'[a] = q <=> phoneLock[a] = q
      BY <1>16, NobodyAssumption DEF InsertUser, TypeOK
    <3>2. req[q].user \in Wallets
      BY DEF TypeOK, Request
    <3> QED BY <2>0, <3>1, <3>2, OtherHoldsItsLocks
  <2>2. HoldsItsLocks(p)'
    <3>1. CASE PhoneTaken(p)
      BY <1>16, <2>0, <3>1 DEF InsertUser, Answer, Goto, TypeOK, HoldsItsLocks, Engaged, PhoneTaken
    <3>2. CASE ~PhoneTaken(p)
      BY <1>16, <2>0, <3>2 DEF InsertUser, Answer, Goto, TypeOK, HoldsItsLocks, Engaged, PhoneTaken
    <3> QED BY <3>1, <3>2
  <2> QED BY <2>1, <2>2
<1>17. ASSUME NEW p \in Workers, CommitRegistration(p)
      PROVE  LockDiscipline'
  <2>1. \A q \in Workers \ {p} : HoldsItsLocks(q)'
    <3>1. phoneLock[req[p].user] = p /\ req[p].user \in Accounts
      <4>1. pc[p] = "commit" /\ req[p].op = "register" /\ req[p].user \in Accounts
        <5>1. pc[p] = "commit" /\ req[p].op = "register"
          BY <1>17 DEF CommitRegistration
        <5> QED BY <5>1, OpOf
      <4> QED BY <4>1 DEF HoldsItsLocks, Engaged
    <3>2. \A q \in Workers \ {p} : Engaged(q) /\ req[q].op = "register" =>
            users'[req[q].user] = users[req[q].user]
      BY <1>17, <3>1 DEF CommitRegistration, TypeOK, HoldsItsLocks
    <3>3. /\ ReleaseWallets(p) /\ ReleasePhone(p)
          /\ \A q \in Workers \ {p} : pc'[q] = pc[q] /\ req'[q] = req[q]
      BY <1>17 DEF TypeOK, CommitRegistration, Answer, Goto
    <3> QED BY <3>2, <3>3, ReleaseKeepsOthers
  <2>2. HoldsItsLocks(p)'
    <3>1. ReleaseWallets(p) /\ ReleasePhone(p) /\ pc'[p] = "done"
      BY <1>17 DEF TypeOK, CommitRegistration, Answer, Goto
    <3> QED BY <3>1, EndedHoldsNothing
  <2> QED BY <2>1, <2>2
<1>18. ASSUME NEW p \in Workers, Reply(p)
      PROVE  LockDiscipline'
  BY <1>18 DEF HoldsItsLocks, Engaged, FirstLock, TypeOK, Reply, Forget, Goto
<1>19. ASSUME NEW p \in Workers, Crash(p)
      PROVE  LockDiscipline'
  <2>1. /\ ReleaseWallets(p) /\ ReleasePhone(p) /\ pc'[p] \in {"done", "idle"} /\ users' = users
        /\ \A q \in Workers \ {p} : pc'[q] = pc[q] /\ req'[q] = req[q]
    BY <1>19 DEF TypeOK, Crash, Forget, Goto
  <2>2. \A q \in Workers \ {p} : HoldsItsLocks(q)'
    BY <2>1, ReleaseKeepsOthers
  <2> QED BY <2>1, <2>2, EndedHoldsNothing
<1>20. ASSUME NEW a \in Suspendable, Deactivate(a)
      PROVE  LockDiscipline'
  BY <1>20, SuspendableAssumption DEF HoldsItsLocks, Engaged, FirstLock, TypeOK, Deactivate
<1>21. CASE UNCHANGED vars
  BY <1>21 DEF HoldsItsLocks, Engaged, FirstLock
<1> QED
  BY <1>1, <1>2, <1>3, <1>4, <1>5, <1>6, <1>7, <1>8, <1>9, <1>10, <1>11, <1>12, <1>13, <1>14, <1>15, <1>16, <1>17, <1>18, <1>19, <1>20, <1>21 DEF Next, Start, Step, Finished

\* Two workers that both hold their wallets have no wallet in common.
LEMMA WalletsDisjoint ==
  ASSUME NEW p \in Workers, NEW q \in Workers, p # q,
         HoldsItsLocks(p), HoldsItsLocks(q),
         pc[p] \in {"post", "commit"}, pc[q] \in {"post", "commit"}
  PROVE  /\ req[q].src # req[p].src /\ req[q].src # req[p].dst
         /\ req[q].dst # req[p].src /\ req[q].dst # req[p].dst
  BY DEF HoldsItsLocks

\* A step that touches neither a worker nor its wallets, nor commits a key,
\* leaves what it has read fresh.
LEMMA OtherViewIsFresh ==
  ASSUME NEW q \in Workers, ViewIsFresh(q),
         pc'[q] = pc[q], req'[q] = req[q], view'[q] = view[q],
         UNCHANGED <<balance, txns>>
  PROVE  ViewIsFresh(q)'
  BY DEF ViewIsFresh, Duplicate, SameKey

\* The two parties of a worker that is posting or committing differ.
LEMMA PartiesDiffer ==
  ASSUME TypeOK, RequestShape, NEW p \in Workers, Engaged(p)
  PROVE  /\ req[p].src \in Wallets /\ req[p].dst \in Wallets /\ req[p].src # req[p].dst
         /\ req[p].user \in Accounts /\ req[p].dst \in Accounts
         /\ req[p].amount \in Nat \ {0}
         /\ req[p].key # NoKey => req[p].op # "register" /\ req[p].src = req[p].user
         /\ req[p].op # "register" =>
              /\ req[p].src = req[p].user /\ req[p].src \in Accounts
              /\ req[p].amount \in Amounts
              /\ users[req[p].src] # "absent" /\ users[req[p].dst] # "absent"
         /\ req[p].op = "register" => req[p].src = Mint
<1>1. Mint \notin Accounts
  BY AccountsAssumption DEF Mint
<1>2. req[p] \in Request
  BY DEF TypeOK
<1>3. pc[p] \in InTransfer
  BY DEF Engaged, InTransfer
<1> QED BY <1>1, <1>2, <1>3, AmountsAssumption, SignupGrantAssumption DEF RequestShape, Engaged, Request

\* What a commit of p means for the rows another worker has locked.
LEMMA CommitLeavesOthersFresh ==
  ASSUME TypeOK, RequestShape, LockDiscipline, FreshView,
         NEW p \in Workers, pc[p] = "commit", CommitRows(p),
         NEW q \in Workers, q # p,
         pc'[q] = pc[q], req'[q] = req[q], view'[q] = view[q]
  PROVE  ViewIsFresh(q)'
<1>1. CASE pc[q] \notin {"post", "commit"}
  BY <1>1 DEF ViewIsFresh
<1>2. CASE pc[q] \in {"post", "commit"}
  <2>1. HoldsItsLocks(p) /\ HoldsItsLocks(q) /\ ViewIsFresh(q)
    BY DEF LockDiscipline, FreshView
  <2>2. /\ req[q].src # req[p].src /\ req[q].src # req[p].dst
        /\ req[q].dst # req[p].src /\ req[q].dst # req[p].dst
    BY <1>2, <2>1, WalletsDisjoint
  <2>3. Engaged(p) /\ Engaged(q)
    BY <1>2 DEF Engaged
  <2>4. balance'[req[q].src] = balance[req[q].src] /\ balance'[req[q].dst] = balance[req[q].dst]
    BY <2>2, <2>3, PartiesDiffer DEF TypeOK, CommitRows
  <2>5. ~SameKey(NewTransaction(p), req[q].user, req[q].key)
    BY <2>2, <2>3, PartiesDiffer DEF SameKey, NewTransaction
  <2>6. ASSUME ~Duplicate(q) PROVE ~Duplicate(q)'
    <3>1. txns' = Append(txns, NewTransaction(p)) /\ txns \in Seq(Transaction)
      BY DEF CommitRows, TypeOK
    <3>2. \A i \in 1..Len(txns') :
            (i \in 1..Len(txns) /\ txns'[i] = txns[i]) \/ txns'[i] = NewTransaction(p)
      BY <3>1
    <3> QED BY <2>5, <2>6, <3>2 DEF Duplicate, SameKey
  <2> QED BY <2>1, <2>4, <2>6 DEF ViewIsFresh
<1> QED BY <1>1, <1>2

\* Every step keeps the cached rows fresh.
LEMMA StepFresh ==
  ASSUME TypeOK, RequestShape, LockDiscipline, FreshView, [Next]_vars
  PROVE  FreshView'
<1> USE DEF tables, locks, session, vars, FreshView
<1>1. ASSUME NEW p \in Workers, NEW s \in Accounts, NEW r \in Accounts,
             NEW m \in Amounts, NEW k \in Keys \cup {NoKey}, BeginSend(p, s, r, m, k)
      PROVE  FreshView'
  <2>1. \A q \in Workers \ {p} : ViewIsFresh(q)'
    BY <1>1, OtherViewIsFresh DEF TypeOK, BeginSend, Goto
  <2>2. ViewIsFresh(p)'
    BY <1>1 DEF TypeOK, BeginSend, Goto, ViewIsFresh
  <2> QED BY <2>1, <2>2
<1>2. ASSUME NEW p \in Workers, NEW a \in Accounts, BeginRegister(p, a)
      PROVE  FreshView'
  <2>1. \A q \in Workers \ {p} : ViewIsFresh(q)'
    BY <1>2, OtherViewIsFresh DEF TypeOK, BeginRegister, Answer, Goto
  <2>2. ViewIsFresh(p)'
    BY <1>2 DEF TypeOK, BeginRegister, Answer, Goto, ViewIsFresh
  <2> QED BY <2>1, <2>2
<1>3. ASSUME NEW p \in Workers, RefuseRecipient(p)
      PROVE  FreshView'
  <2>1. \A q \in Workers \ {p} : ViewIsFresh(q)'
    BY <1>3, OtherViewIsFresh DEF TypeOK, RefuseRecipient, Answer, Goto
  <2>2. ViewIsFresh(p)'
    BY <1>3 DEF TypeOK, RefuseRecipient, Answer, Goto, ViewIsFresh
  <2> QED BY <2>1, <2>2
<1>4. ASSUME NEW p \in Workers, RefusePin(p)
      PROVE  FreshView'
  <2>1. \A q \in Workers \ {p} : ViewIsFresh(q)'
    BY <1>4, OtherViewIsFresh DEF TypeOK, RefusePin, Answer, Goto
  <2>2. ViewIsFresh(p)'
    BY <1>4 DEF TypeOK, RefusePin, Answer, Goto, ViewIsFresh
  <2> QED BY <2>1, <2>2
<1>5. ASSUME NEW p \in Workers, AcceptPin(p)
      PROVE  FreshView'
  <2>1. \A q \in Workers \ {p} : ViewIsFresh(q)'
    BY <1>5, OtherViewIsFresh DEF TypeOK, AcceptPin, RecipientResolved, Goto
  <2>2. ViewIsFresh(p)'
    BY <1>5 DEF TypeOK, AcceptPin, RecipientResolved, Goto, ViewIsFresh
  <2> QED BY <2>1, <2>2
<1>6. ASSUME NEW p \in Workers, FindReplay(p)
      PROVE  FreshView'
  <2>1. \A q \in Workers \ {p} : ViewIsFresh(q)'
    BY <1>6, OtherViewIsFresh DEF TypeOK, FindReplay, AnswerWith, Answer, Goto
  <2>2. ViewIsFresh(p)'
    BY <1>6 DEF TypeOK, FindReplay, AnswerWith, Answer, Goto, ViewIsFresh
  <2> QED BY <2>1, <2>2
<1>7. ASSUME NEW p \in Workers, LockFirst(p)
      PROVE  FreshView'
  <2>1. \A q \in Workers \ {p} : ViewIsFresh(q)'
    BY <1>7, OtherViewIsFresh DEF TypeOK, LockFirst, Goto
  <2>2. ViewIsFresh(p)'
    BY <1>7 DEF TypeOK, LockFirst, Goto, ViewIsFresh
  <2> QED BY <2>1, <2>2
<1>8. ASSUME NEW p \in Workers, LockSecond(p)
      PROVE  FreshView'
  <2>1. \A q \in Workers \ {p} : ViewIsFresh(q)'
    BY <1>8, OtherViewIsFresh DEF TypeOK, LockSecond, LockedView, Goto
  <2>2. ViewIsFresh(p)'
    BY <1>8 DEF TypeOK, LockSecond, LockedView, Goto, ViewIsFresh
  <2> QED BY <2>1, <2>2
<1>9. ASSUME NEW p \in Workers, PostDoubleEntry(p)
      PROVE  FreshView'
  <2>1. \A q \in Workers \ {p} : ViewIsFresh(q)'
    BY <1>9, OtherViewIsFresh DEF TypeOK, PostDoubleEntry, Goto
  <2>2. ViewIsFresh(p)'
    <3>1. Engaged(p) /\ ViewIsFresh(p)
      BY <1>9 DEF PostDoubleEntry, Engaged
    <3>2. /\ req[p].op # "register" => view[p].src >= req[p].amount
          /\ -NumericMax <= Debited(p) /\ Credited(p) <= NumericMax
          /\ ~Duplicate(p)
      <4>1. ~Insufficient(p) /\ ~Overflows(p) /\ ~Duplicate(p)
        BY <1>9 DEF PostDoubleEntry
      <4>2. view[p].src \in Int /\ view[p].dst \in Int /\ req[p].amount \in Nat
        BY DEF TypeOK, Request
      <4> QED BY <4>1, <4>2, NumericMaxAssumption DEF Insufficient, Overflows, Debited, Credited
    <3>3. pc'[p] = "commit" /\ view'[p].src = Debited(p) /\ view'[p].dst = Credited(p)
      BY <1>9 DEF TypeOK, PostDoubleEntry, Goto
    <3>4. UNCHANGED <<req, balance, txns>>
      BY <1>9 DEF PostDoubleEntry
    <3>5. ~Duplicate(p)'
      BY <3>2, <3>4 DEF Duplicate, SameKey
    <3> QED
      BY <1>9, <3>1, <3>2, <3>3, <3>4, <3>5 DEF PostDoubleEntry, ViewIsFresh, Debited, Credited
  <2> QED BY <2>1, <2>2
<1>10. ASSUME NEW p \in Workers, PostOverflows(p)
      PROVE  FreshView'
  <2>1. \A q \in Workers \ {p} : ViewIsFresh(q)'
    BY <1>10, OtherViewIsFresh DEF TypeOK, PostOverflows, Answer, Goto
  <2>2. ViewIsFresh(p)'
    BY <1>10 DEF TypeOK, PostOverflows, Answer, Goto, ViewIsFresh
  <2> QED BY <2>1, <2>2
<1>11. ASSUME NEW p \in Workers, RefuseInsufficient(p)
      PROVE  FreshView'
  <2>1. \A q \in Workers \ {p} : ViewIsFresh(q)'
    BY <1>11, OtherViewIsFresh DEF TypeOK, RefuseInsufficient, Goto
  <2>2. ViewIsFresh(p)'
    BY <1>11 DEF TypeOK, RefuseInsufficient, Goto, ViewIsFresh
  <2> QED BY <2>1, <2>2
<1>12. ASSUME NEW p \in Workers, CommitRefusal(p)
      PROVE  FreshView'
  <2>1. \A q \in Workers \ {p} : ViewIsFresh(q)'
    BY <1>12, OtherViewIsFresh DEF TypeOK, CommitRefusal, Answer, Goto
  <2>2. ViewIsFresh(p)'
    BY <1>12 DEF TypeOK, CommitRefusal, Answer, Goto, ViewIsFresh
  <2> QED BY <2>1, <2>2
<1>13. ASSUME NEW p \in Workers, LoseToDuplicate(p)
      PROVE  FreshView'
  <2>1. \A q \in Workers \ {p} : ViewIsFresh(q)'
    BY <1>13, OtherViewIsFresh DEF TypeOK, LoseToDuplicate, Goto
  <2>2. ViewIsFresh(p)'
    BY <1>13 DEF TypeOK, LoseToDuplicate, Goto, ViewIsFresh
  <2> QED BY <2>1, <2>2
<1>14. ASSUME NEW p \in Workers, ReturnWinner(p)
      PROVE  FreshView'
  <2>1. \A q \in Workers \ {p} : ViewIsFresh(q)'
    BY <1>14, OtherViewIsFresh DEF TypeOK, ReturnWinner, AnswerWith, Answer, Goto
  <2>2. ViewIsFresh(p)'
    BY <1>14 DEF TypeOK, ReturnWinner, AnswerWith, Answer, Goto, ViewIsFresh
  <2> QED BY <2>1, <2>2
<1>15. ASSUME NEW p \in Workers, CommitTransfer(p)
      PROVE  FreshView'
  <2>1. \A q \in Workers \ {p} : ViewIsFresh(q)'
    BY <1>15, CommitLeavesOthersFresh DEF TypeOK, CommitTransfer, Answer, Goto
  <2>2. ViewIsFresh(p)'
    BY <1>15 DEF TypeOK, CommitTransfer, Answer, Goto, ViewIsFresh
  <2> QED BY <2>1, <2>2
<1>16. ASSUME NEW p \in Workers, InsertUser(p)
      PROVE  FreshView'
  <2>1. \A q \in Workers \ {p} : ViewIsFresh(q)'
    BY <1>16, OtherViewIsFresh DEF TypeOK, InsertUser, PhoneTaken, Answer, Goto
  <2>2. ViewIsFresh(p)'
    BY <1>16 DEF TypeOK, InsertUser, PhoneTaken, Answer, Goto, ViewIsFresh
  <2> QED BY <2>1, <2>2
<1>17. ASSUME NEW p \in Workers, CommitRegistration(p)
      PROVE  FreshView'
  <2>1. \A q \in Workers \ {p} : ViewIsFresh(q)'
    BY <1>17, CommitLeavesOthersFresh DEF TypeOK, CommitRegistration, Answer, Goto
  <2>2. ViewIsFresh(p)'
    BY <1>17 DEF TypeOK, CommitRegistration, Answer, Goto, ViewIsFresh
  <2> QED BY <2>1, <2>2
<1>18. ASSUME NEW p \in Workers, Reply(p)
      PROVE  FreshView'
  <2>1. \A q \in Workers \ {p} : ViewIsFresh(q)'
    BY <1>18, OtherViewIsFresh DEF TypeOK, Reply, Forget, Goto
  <2>2. ViewIsFresh(p)'
    BY <1>18 DEF TypeOK, Reply, Forget, Goto, ViewIsFresh
  <2> QED BY <2>1, <2>2
<1>19. ASSUME NEW p \in Workers, Crash(p)
      PROVE  FreshView'
  <2>1. \A q \in Workers \ {p} : ViewIsFresh(q)'
    BY <1>19, OtherViewIsFresh DEF TypeOK, Crash, Forget, Goto
  <2>2. ViewIsFresh(p)'
    BY <1>19 DEF TypeOK, Crash, Forget, Goto, ViewIsFresh
  <2> QED BY <2>1, <2>2
<1>20. ASSUME NEW a \in Suspendable, Deactivate(a)
      PROVE  FreshView'
  BY <1>20, OtherViewIsFresh DEF Deactivate
<1>21. CASE UNCHANGED vars
  BY <1>21, OtherViewIsFresh
<1> QED
  BY <1>1, <1>2, <1>3, <1>4, <1>5, <1>6, <1>7, <1>8, <1>9, <1>10, <1>11, <1>12, <1>13, <1>14, <1>15, <1>16, <1>17, <1>18, <1>19, <1>20, <1>21 DEF Next, Start, Step, Finished

-----------------------------------------------------------------------------
(* The base of every other result: types, shapes, locks, fresh views. *)

Base == TypeOK /\ RequestShape /\ LockDiscipline /\ FreshView

LEMMA InitBase == Init => Base
<1> SUFFICES ASSUME Init PROVE Base
  OBVIOUS
<1>1. \A p \in Workers : pc[p] = "idle" /\ req[p].op = "none" /\ reply[p] = NoReply
  BY DEF Init, NoRequest
<1>2. RequestShape
  BY <1>1 DEF RequestShape, InTransfer, Engaged
<1>3. LockDiscipline
  BY <1>1, NobodyAssumption DEF Init, LockDiscipline, HoldsItsLocks, Engaged
<1>4. FreshView
  BY <1>1 DEF FreshView, ViewIsFresh
<1> QED BY <1>2, <1>3, <1>4, InitTyped DEF Base

LEMMA StepBase == Base /\ [Next]_vars => Base'
  BY StepTyped, StepLocks, StepFresh DEF Base

THEOREM BaseInvariant == Spec => []Base
<1>1. Init => Base
  BY InitBase
<1>2. Base /\ [Next]_vars => Base'
  BY StepBase
<1> QED BY <1>1, <1>2, PTL DEF Spec

\* Type correctness of the whole money path.
THEOREM TypeCorrect == Spec => []TypeOK
<1>1. Base => TypeOK
  BY DEF Base
<1> QED BY <1>1, BaseInvariant, PTL

\* Locks are held exactly from FOR UPDATE to the end of the savepoint or
\* transaction, on every path including refusals, duplicates and crashes.
THEOREM LocksDisciplined == Spec => []LockDiscipline
<1>1. Base => LockDiscipline
  BY DEF Base
<1> QED BY <1>1, BaseInvariant, PTL

\* No lost update: what post_double_entry computes with is the committed row.
THEOREM ViewsFresh == Spec => []FreshView
<1>1. Base => FreshView
  BY DEF Base
<1> QED BY <1>1, BaseInvariant, PTL

-----------------------------------------------------------------------------
(* Deadlock freedom: the lock order. *)

\* Where the locks are decides who can wait for whom.
LEMMA LocksOrdered == Base => WaitsUpward
<1> SUFFICES ASSUME Base, NEW p \in Workers, NEW q \in Workers, WaitsFor(p, q)
             PROVE  /\ pc[p] # "post"
                    /\ \A r \in Workers : WaitsFor(q, r) => WaitRank(p) < WaitRank(q)
  BY DEF WaitsUpward
<1>1. /\ TypeOK /\ RequestShape
      /\ \A x \in Workers : HoldsItsLocks(x)
  BY DEF Base, LockDiscipline
<1>2. \A x, y \in Workers : ~(pc[x] = "post" /\ IndexBusy(x, y))
  <2> SUFFICES ASSUME NEW x \in Workers, NEW y \in Workers, pc[x] = "post", IndexBusy(x, y)
               PROVE  FALSE
    OBVIOUS
  <2>1. /\ x # y /\ pc[y] = "commit" /\ req[x].key # NoKey /\ req[y].key # NoKey
        /\ req[x].user = req[y].user
    BY DEF IndexBusy
  <2>2. req[x].src = req[x].user /\ req[y].src = req[y].user
    BY <1>1, <2>1, PartiesDiffer DEF Engaged
  <2> QED BY <1>1, <2>1, <2>2, WalletsDisjoint
<1>3. \A x \in Workers : Engaged(x) =>
        /\ FirstLock(x) \in Nat /\ SecondLock(x) \in Nat /\ FirstLock(x) < SecondLock(x)
        /\ FirstLock(x) \in Wallets /\ SecondLock(x) \in Wallets
  BY <1>1, PartiesDiffer, AccountsAssumption DEF FirstLock, SecondLock, Wallets, Mint
<1>4. CASE pc[p] = "insert_user"
  <2>1. Engaged(q)
    BY <1>1, <1>4 DEF WaitsFor, HoldsItsLocks, RequestShape, Engaged, InTransfer
  <2> QED BY <1>2, <1>3, <1>4, <2>1 DEF WaitsFor, WaitRank, Engaged
<1>5. CASE pc[p] = "lock_low"
  <2>1. lock[FirstLock(p)] = q /\ FirstLock(p) \in Wallets
    BY <1>3, <1>5 DEF WaitsFor, Engaged
  <2>2. (pc[q] = "lock_high" /\ FirstLock(q) = FirstLock(p)) \/ pc[q] \in {"post", "commit"}
    BY <1>1, <2>1 DEF HoldsItsLocks
  <2> QED BY <1>2, <1>3, <1>5, <2>2 DEF WaitsFor, WaitRank, Engaged
<1>6. CASE pc[p] = "lock_high"
  <2>1. lock[SecondLock(p)] = q /\ SecondLock(p) \in Wallets
    BY <1>3, <1>6 DEF WaitsFor, Engaged
  <2>2. (pc[q] = "lock_high" /\ FirstLock(q) = SecondLock(p)) \/ pc[q] \in {"post", "commit"}
    BY <1>1, <2>1 DEF HoldsItsLocks
  <2> QED BY <1>2, <1>3, <1>6, <2>2 DEF WaitsFor, WaitRank, Engaged
<1> QED BY <1>2, <1>4, <1>5, <1>6 DEF WaitsFor

\* Every edge of the waits-for graph goes up in the global lock order, and the
\* unique index uq_idem never makes a worker wait.
THEOREM LockOrder == Spec => []WaitsUpward
<1>1. Base => WaitsUpward
  BY LocksOrdered
<1> QED BY <1>1, BaseInvariant, PTL

\* Among any workers there is one that waits for none of them.
NoneStuck ==
  \A S \in SUBSET Workers : IsFiniteSet(S) /\ S # {} =>
    \E p \in S : \A q \in S : ~WaitsFor(p, q)

LEMMA OrderPreventsCycles == TypeOK /\ WaitsUpward => NoneStuck
<1> SUFFICES ASSUME TypeOK, WaitsUpward, NEW S \in SUBSET Workers, IsFiniteSet(S), S # {},
                    \A p \in S : \E q \in S : WaitsFor(p, q)
             PROVE  FALSE
  BY DEF NoneStuck
<1> DEFINE rank == [p \in S |-> WaitRank(p)]
<1>1. ASSUME NEW p \in S PROVE rank[p] \in Int
  <2>1. \A w \in Wallets : w \in Int
    BY AccountsAssumption DEF Wallets, Mint
  <2>2. pc[p] \in {"lock_low", "lock_high", "insert_user", "post"}
    BY DEF WaitsFor
  <2>3. req[p].src \in Int /\ req[p].dst \in Int
    BY <2>1 DEF TypeOK, Request
  <2> QED BY <2>2, <2>3 DEF WaitRank, FirstLock, SecondLock
<1>2. \A p \in S : rank[p] = WaitRank(p)
  OBVIOUS
<1> HIDE DEF rank
<1>3. PICK p \in S : \A q \in S : rank[q] <= rank[p]
  BY <1>1, Highest
<1>4. PICK q \in S : WaitsFor(p, q)
  OBVIOUS
<1>5. PICK r \in S : WaitsFor(q, r)
  OBVIOUS
<1>6. rank[p] < rank[q] /\ rank[q] <= rank[p]
  BY <1>2, <1>3, <1>4, <1>5 DEF WaitsUpward
<1> QED BY <1>1, <1>6

\* Transfers and registrations never deadlock: however many there are, no group
\* of workers waits for nothing but each other's locks.
THEOREM DeadlockFree == Spec => []NoneStuck
<1>1. Base => NoneStuck
  BY LocksOrdered, OrderPreventsCycles DEF Base
<1> QED BY <1>1, BaseInvariant, PTL

-----------------------------------------------------------------------------
(* The ledger: only commits write it. *)

LedgerStep ==
  \/ UNCHANGED <<balance, txns, entries>>
  \/ \E p \in Workers : pc[p] = "commit" /\ CommitRows(p)

LEMMA OnlyCommitsWrite ==
  ASSUME [Next]_vars
  PROVE  LedgerStep
  BY DEF LedgerStep, Next, Start, Step, Finished, vars, tables, BeginSend, BeginRegister, RefuseRecipient,
         RefusePin, AcceptPin, FindReplay, LockFirst, LockSecond, PostDoubleEntry,
         PostOverflows, RefuseInsufficient, CommitRefusal, LoseToDuplicate, ReturnWinner,
         CommitTransfer, InsertUser, CommitRegistration, Reply, Crash, Deactivate

\* What a commit writes, in terms of the committed rows alone.
LEMMA CommitWrites ==
  ASSUME Base, NEW p \in Workers, pc[p] = "commit", CommitRows(p)
  PROVE  /\ req[p].src \in Wallets /\ req[p].dst \in Accounts /\ req[p].dst \in Wallets
         /\ req[p].src # req[p].dst /\ req[p].amount \in Nat \ {0}
         /\ req[p].op # "register" =>
              req[p].src \in Accounts /\ balance[req[p].src] >= req[p].amount
         /\ req[p].op = "register" => req[p].src = Mint
         /\ -NumericMax <= balance[req[p].src] - req[p].amount
         /\ balance[req[p].dst] + req[p].amount <= NumericMax
         /\ balance' = [balance EXCEPT ![req[p].src] = balance[req[p].src] - req[p].amount,
                                       ![req[p].dst] = balance[req[p].dst] + req[p].amount]
<1>1. TypeOK /\ RequestShape /\ ViewIsFresh(p) /\ Engaged(p)
  BY DEF Base, FreshView, Engaged
<1> QED BY <1>1, PartiesDiffer DEF ViewIsFresh, CommitRows, Wallets

\* A commit leaves every user wallet at zero or above.
LEMMA SolventStep == Base /\ Solvent /\ LedgerStep => Solvent'
<1> SUFFICES ASSUME Base, Solvent, LedgerStep, NEW a \in Accounts
             PROVE  ~(balance'[a] < 0)
  BY DEF Solvent, insolvent_wallets
<1>1. balance \in [Wallets -> Int] /\ a \in Wallets /\ a # Mint /\ balance[a] >= 0
  BY AccountsAssumption DEF Base, TypeOK, Wallets, Mint, Solvent, insolvent_wallets
<1>2. CASE UNCHANGED balance
  BY <1>1, <1>2
<1>3. ASSUME NEW p \in Workers, pc[p] = "commit", CommitRows(p)
      PROVE  ~(balance'[a] < 0)
  BY <1>1, <1>3, CommitWrites
<1> QED BY <1>2, <1>3 DEF LedgerStep

\* The seeded wallets are solvent.
LEMMA SolventInit == Init => Solvent
BY AccountsAssumption, SignupGrantAssumption
   DEF Init, InitTables, Solvent, insolvent_wallets, Mint, Wallets

\* No user wallet goes below zero, whatever transfers overlap.
THEOREM Solvency == Spec => []Solvent
<1>1. Init => Solvent
  BY SolventInit
<1>2. Base /\ Solvent /\ [Next]_vars => Solvent'
  BY SolventStep, OnlyCommitsWrite
<1> QED BY <1>1, <1>2, BaseInvariant, PTL DEF Spec

\* The debt of the mint fits its column.
MintInRange == -NumericMax <= balance[Mint]

\* Only a grant changes it, and a grant that overflows is not committed.
LEMMA MintStep == Base /\ MintInRange /\ LedgerStep => MintInRange'
<1> SUFFICES ASSUME Base, MintInRange, LedgerStep PROVE -NumericMax <= balance'[Mint]
  BY DEF MintInRange
<1>1. CASE UNCHANGED balance
  BY <1>1 DEF MintInRange
<1>2. ASSUME NEW p \in Workers, pc[p] = "commit", CommitRows(p)
      PROVE  -NumericMax <= balance'[Mint]
  <2> DEFINE s == req[p].src
             d == req[p].dst
             m == req[p].amount
  <2>1. /\ s \in Wallets /\ d \in Wallets /\ s # d /\ d \in Accounts /\ m \in Nat
        /\ -NumericMax <= balance[s] - m
        /\ balance' = [balance EXCEPT ![s] = balance[s] - m, ![d] = balance[d] + m]
    BY <1>2, CommitWrites
  <2>2. balance \in [Wallets -> Int] /\ Mint \in Wallets /\ d # Mint
    BY <2>1, AccountsAssumption DEF Base, TypeOK, Wallets, Mint
  <2>3. CASE s = Mint
    <3>1. balance'[Mint] = balance[s] - m
      BY <2>1, <2>2, <2>3
    <3> QED BY <2>1, <3>1
  <2>4. CASE s # Mint
    <3>1. balance'[Mint] = balance[Mint]
      BY <2>1, <2>2, <2>4
    <3> QED BY <3>1 DEF MintInRange
  <2> QED BY <2>3, <2>4
<1> QED BY <1>1, <1>2 DEF LedgerStep

\* The seeding was granted within it.
LEMMA MintInit == Init => MintInRange
<1> SUFFICES ASSUME Init PROVE MintInRange
  OBVIOUS
<1>1. Len(Seeded) \in Nat /\ Len(Seeded) * SignupGrant \in Nat
      /\ Len(Seeded) * SignupGrant <= NumericMax
  BY SeededAssumption, SignupGrantAssumption, NumericMaxAssumption
<1>2. balance[Mint] = -(Len(Seeded) * SignupGrant)
  BY DEF Init, InitTables, Wallets
<1> QED BY <1>1, <1>2, NumericMaxAssumption DEF MintInRange

\* Appending an entry that continues the chain.
LEMMA ChainAppend ==
  ASSUME NEW s \in Seq(LedgerEntry), NEW b \in Int, IsChain(s, b),
         NEW e \in LedgerEntry, e.balance_after = b + e.amount
  PROVE  IsChain(Append(s, e), e.balance_after)
<1> DEFINE u == Append(s, e)
<1>1. Len(u) = Len(s) + 1 /\ Len(s) \in Nat /\ u[Len(u)] = e
      /\ \A i \in 1..Len(s) : u[i] = s[i]
  OBVIOUS
<1>2. \A i \in 1..Len(s) : u[i].balance_after =
        u[i].amount + (IF i = 1 THEN 0 ELSE u[i - 1].balance_after)
  BY <1>1 DEF IsChain
<1>3. e.balance_after = e.amount + (IF Len(u) = 1 THEN 0 ELSE u[Len(u) - 1].balance_after)
  <2>1. e.amount \in Int
    BY DEF LedgerEntry
  <2>2. CASE s = <<>>
    BY <1>1, <2>1, <2>2 DEF IsChain
  <2>3. CASE s # <<>>
    <3>1. Len(s) # 0
      BY <2>3
    <3> QED BY <1>1, <2>1, <2>3, <3>1 DEF IsChain
  <2> QED BY <2>2, <2>3
<1>4. u # <<>>
  BY <1>1
<1> HIDE DEF u
<1>5. IsChain(u, e.balance_after)
  BY <1>1, <1>2, <1>3, <1>4 DEF IsChain
<1> QED BY <1>5 DEF u

\* The new entries of a commit: on the sender, on the receiver, nowhere else.
LEMMA CommitEntries ==
  ASSUME Base, NEW p \in Workers, pc[p] = "commit", CommitRows(p)
  PROVE  /\ DebitEntry(p) \in LedgerEntry /\ CreditEntry(p) \in LedgerEntry
         /\ entries'[req[p].src] = Append(entries[req[p].src], DebitEntry(p))
         /\ entries'[req[p].dst] = Append(entries[req[p].dst], CreditEntry(p))
         /\ \A w \in Wallets \ {req[p].src, req[p].dst} : entries'[w] = entries[w]
         /\ \A w \in Wallets : entries[w] \in Seq(LedgerEntry)
<1>1. req[p].src \in Wallets /\ req[p].dst \in Wallets /\ req[p].src # req[p].dst
      /\ req[p].amount \in Nat \ {0}
  BY CommitWrites
<1>2. /\ entries \in [Wallets -> Seq(LedgerEntry)] /\ req[p] \in Request
      /\ view[p] \in [src: Int, dst: Int] /\ Len(txns) \in Nat
  BY DEF Base, TypeOK
<1>3. DebitEntry(p) \in LedgerEntry /\ CreditEntry(p) \in LedgerEntry
  BY <1>1, <1>2 DEF DebitEntry, CreditEntry, NewEntry, LedgerEntry, Request
<1> QED BY <1>1, <1>2, <1>3 DEF CommitRows

LEMMA AppendFacts ==
  ASSUME NEW S, NEW s \in Seq(S), NEW e \in S
  PROVE  /\ Len(s) \in Nat /\ Len(Append(s, e)) = Len(s) + 1
         /\ Append(s, e)[Len(s) + 1] = e
         /\ \A i \in 1..Len(s) : Append(s, e)[i] = s[i]
  OBVIOUS

\* The same row by row: old entries stay, new ones follow them.
LEMMA CommitGrows ==
  ASSUME Base, NEW p \in Workers, pc[p] = "commit", CommitRows(p), NEW w \in Wallets
  PROVE  /\ Len(entries[w]) \in Nat
         /\ \A j \in 1..Len(entries[w]) : entries'[w][j] = entries[w][j]
         /\ w \in {req[p].src, req[p].dst} => Len(entries'[w]) = Len(entries[w]) + 1
         /\ w \notin {req[p].src, req[p].dst} => Len(entries'[w]) = Len(entries[w])
         /\ w = req[p].src => entries'[w][Len(entries[w]) + 1] = DebitEntry(p)
         /\ w = req[p].dst => entries'[w][Len(entries[w]) + 1] = CreditEntry(p)
<1>1. req[p].src # req[p].dst
  BY CommitWrites
<1>2. entries[w] \in Seq(LedgerEntry)
  BY CommitEntries
<1>3. Len(entries[w]) \in Nat
  BY <1>2
<1>4. CASE w = req[p].src
  <2>1. entries'[w] = Append(entries[w], DebitEntry(p)) /\ DebitEntry(p) \in LedgerEntry
    BY <1>4, CommitEntries
  <2> QED BY <1>1, <1>2, <1>4, <2>1, AppendFacts
<1>5. CASE w = req[p].dst
  <2>1. entries'[w] = Append(entries[w], CreditEntry(p)) /\ CreditEntry(p) \in LedgerEntry
    BY <1>5, CommitEntries
  <2> QED BY <1>1, <1>2, <1>5, <2>1, AppendFacts
<1>6. CASE w \notin {req[p].src, req[p].dst}
  BY <1>3, <1>6, CommitEntries
<1> QED BY <1>4, <1>5, <1>6

\* A commit continues the chains of the two wallets and of no other.
LEMMA ChainedStep == Base /\ Chained /\ LedgerStep => Chained'
<1> SUFFICES ASSUME Base, Chained, LedgerStep, NEW w \in Wallets
             PROVE  IsChain(entries[w], balance[w])'
  BY DEF Chained
<1>1. IsChain(entries[w], balance[w])
  BY DEF Chained
<1>2. CASE UNCHANGED <<balance, txns, entries>>
  BY <1>1, <1>2 DEF IsChain
<1>3. ASSUME NEW p \in Workers, pc[p] = "commit", CommitRows(p)
      PROVE  IsChain(entries[w], balance[w])'
  <2> DEFINE src == req[p].src
             dst == req[p].dst
  <2>1. /\ src \in Wallets /\ dst \in Wallets /\ src # dst /\ req[p].amount \in Nat
        /\ balance' = [balance EXCEPT ![src] = balance[src] - req[p].amount,
                                      ![dst] = balance[dst] + req[p].amount]
    BY <1>3, CommitWrites
  <2>2. balance \in [Wallets -> Int]
    BY DEF Base, TypeOK
  <2>3. /\ DebitEntry(p).amount = -req[p].amount
        /\ DebitEntry(p).balance_after = balance[src] - req[p].amount
        /\ CreditEntry(p).amount = req[p].amount
        /\ CreditEntry(p).balance_after = balance[dst] + req[p].amount
    BY <1>3 DEF Base, FreshView, ViewIsFresh, DebitEntry, CreditEntry, NewEntry
  <2>4. CASE w = src
    <3>1. DebitEntry(p).balance_after = balance[w] + DebitEntry(p).amount
      BY <2>1, <2>2, <2>3, <2>4
    <3>2. IsChain(Append(entries[w], DebitEntry(p)), DebitEntry(p).balance_after)
      BY <1>1, <1>3, <2>1, <2>2, <3>1, ChainAppend, CommitEntries
    <3>3. entries'[w] = Append(entries[w], DebitEntry(p))
          /\ balance'[w] = DebitEntry(p).balance_after
      BY <1>3, <2>1, <2>2, <2>3, <2>4, CommitEntries
    <3> QED BY <3>2, <3>3 DEF IsChain
  <2>5. CASE w = dst
    <3>1. CreditEntry(p).balance_after = balance[w] + CreditEntry(p).amount
      BY <2>1, <2>2, <2>3, <2>5
    <3>2. IsChain(Append(entries[w], CreditEntry(p)), CreditEntry(p).balance_after)
      BY <1>1, <1>3, <2>1, <2>2, <3>1, ChainAppend, CommitEntries
    <3>3. entries'[w] = Append(entries[w], CreditEntry(p))
          /\ balance'[w] = CreditEntry(p).balance_after
      BY <1>3, <2>1, <2>2, <2>3, <2>5, CommitEntries
    <3> QED BY <3>2, <3>3 DEF IsChain
  <2>6. CASE w # src /\ w # dst
    <3>1. entries'[w] = entries[w] /\ balance'[w] = balance[w]
      BY <1>3, <2>1, <2>2, <2>6, CommitEntries
    <3> QED BY <1>1, <3>1 DEF IsChain
  <2> QED BY <2>4, <2>5, <2>6
<1> QED BY <1>2, <1>3 DEF LedgerStep

\* The seeded entries are chains.
LEMMA ChainedInit == Init => Chained
<1> SUFFICES ASSUME Init, NEW w \in Wallets PROVE IsChain(entries[w], balance[w])
  BY DEF Chained
<1>1. Len(Seeded) \in Nat /\ SignupGrant \in Nat
  BY SeededAssumption, SignupGrantAssumption
<1>2. CASE w = Mint
  <2> DEFINE s == [i \in 1..Len(Seeded) |-> [txn |-> i, amount |-> -SignupGrant,
                     balance_after |-> -(i * SignupGrant), created_at |-> 0]]
  <2>1. entries[w] = s /\ balance[w] = -(Len(Seeded) * SignupGrant)
    BY <1>2 DEF Init, InitTables
  <2>2. Len(s) = Len(Seeded)
    BY <1>1
  <2>3. \A i \in 1..Len(Seeded) :
          s[i].amount = -SignupGrant /\ s[i].balance_after = -(i * SignupGrant)
    OBVIOUS
  <2>4. \A i \in Nat : -(i * SignupGrant) = -SignupGrant + (-((i - 1) * SignupGrant))
    BY <1>1
  <2>5. 0 * SignupGrant = 0 /\ 1 * SignupGrant = SignupGrant
    BY <1>1
  <2>6. s = <<>> <=> Len(Seeded) = 0
    BY <1>1, <2>2
  <2> HIDE DEF s
  <2>7. \A i \in 1..Len(s) : s[i].balance_after =
          s[i].amount + (IF i = 1 THEN 0 ELSE s[i - 1].balance_after)
    <3> TAKE i \in 1..Len(s)
    <3>1. CASE i = 1
      BY <1>1, <2>2, <2>3, <2>5, <3>1
    <3>2. CASE i # 1
      <4>1. i - 1 \in 1..Len(Seeded) /\ i \in Nat /\ i \in 1..Len(Seeded)
        BY <1>1, <2>2, <3>2
      <4> QED BY <1>1, <2>3, <2>4, <3>2, <4>1
    <3> QED BY <3>1, <3>2
  <2>8. balance[w] = IF s = <<>> THEN 0 ELSE s[Len(s)].balance_after
    BY <1>1, <2>1, <2>2, <2>3, <2>5, <2>6
  <2> QED BY <2>1, <2>7, <2>8 DEF IsChain
<1>3. CASE w # Mint /\ w \in SeededSet
  <2>1. /\ entries[w] = <<[txn |-> SeedIndex(w), amount |-> SignupGrant,
                           balance_after |-> SignupGrant, created_at |-> 0]>>
        /\ balance[w] = SignupGrant
    BY <1>3 DEF Init, InitTables
  <2> QED BY <1>1, <2>1 DEF IsChain
<1>4. CASE w # Mint /\ w \notin SeededSet
  BY <1>4 DEF Init, InitTables, IsChain
<1> QED BY <1>2, <1>3, <1>4

\* The ledger of every wallet is a chain of running balances ending in the
\* projected balance: no drift and no lost update, for any number of workers.
THEOREM LedgerChained == Spec => []Chained
<1>1. Init => Chained
  BY ChainedInit
<1>2. Base /\ Chained /\ [Next]_vars => Chained'
  BY ChainedStep, OnlyCommitsWrite
<1> QED BY <1>1, <1>2, BaseInvariant, PTL DEF Spec

-----------------------------------------------------------------------------
(* Idempotency. *)

\* Where the rows of txns are after a commit.
LEMMA CommitAppends ==
  ASSUME Base, NEW p \in Workers, CommitRows(p)
  PROVE  /\ Len(txns) \in Nat /\ Len(txns') = Len(txns) + 1
         /\ txns'[Len(txns) + 1] = NewTransaction(p)
         /\ \A i \in 1..Len(txns) : txns'[i] = txns[i]
  BY DEF Base, TypeOK, CommitRows

\* Rows of txns are never changed nor removed.
LEMMA TransactionsStay ==
  ASSUME Base, LedgerStep
  PROVE  /\ Len(txns) \in Nat /\ Len(txns') \in Nat /\ Len(txns) <= Len(txns')
         /\ \A i \in 1..Len(txns) : txns'[i] = txns[i]
<1>1. CASE UNCHANGED <<balance, txns, entries>>
  BY <1>1 DEF Base, TypeOK
<1>2. ASSUME NEW p \in Workers, CommitRows(p)
      PROVE  /\ Len(txns) \in Nat /\ Len(txns') \in Nat /\ Len(txns) <= Len(txns')
             /\ \A i \in 1..Len(txns) : txns'[i] = txns[i]
  BY <1>2, CommitAppends
<1> QED BY <1>1, <1>2 DEF LedgerStep

LEMMA SeededRows ==
  ASSUME Init
  PROVE  /\ Len(txns) = Len(Seeded) /\ Len(Seeded) \in Nat
         /\ \A i \in 1..Len(txns) :
              /\ Seeded[i] \in Accounts /\ txns[i].receiver = Seeded[i]
              /\ txns[i].type = "SIGNUP_GRANT" /\ txns[i].amount = SignupGrant
              /\ txns[i].sender = Mint /\ txns[i].key = NoKey
<1>0. Len(Seeded) \in Nat /\ \A i \in 1..Len(Seeded) : Seeded[i] \in Accounts
  BY SeededAssumption
<1>1. Len(txns) = Len(Seeded)
  BY <1>0 DEF Init, InitTables
<1>2. \A i \in 1..Len(txns) : txns[i] = GrantTo(Seeded[i]) /\ Seeded[i] \in Accounts
  BY <1>0, <1>1 DEF Init, InitTables
<1>3. \A a \in Accounts :
        /\ GrantTo(a).receiver = a /\ GrantTo(a).type = "SIGNUP_GRANT"
        /\ GrantTo(a).amount = SignupGrant /\ GrantTo(a).sender = Mint
        /\ GrantTo(a).key = NoKey
  BY DEF GrantTo
<1> QED BY <1>0, <1>1, <1>2, <1>3

\* A commit does not repeat a key of its user.
LEMMA OncePerKeyStep ==
  ASSUME Base, OncePerKey, LedgerStep
  PROVE  OncePerKey'
<1>1. CASE UNCHANGED <<balance, txns, entries>>
  BY <1>1 DEF OncePerKey, SameKey
<1>2. ASSUME NEW p \in Workers, pc[p] = "commit", CommitRows(p) PROVE OncePerKey'
  <2>1. ~Duplicate(p)
    BY <1>2 DEF Base, FreshView, ViewIsFresh
  <2>2. \A i \in 1..Len(txns) :
          ~(/\ txns[i].key # NoKey /\ txns[i].key = NewTransaction(p).key
            /\ txns[i].initiated_by = NewTransaction(p).initiated_by)
    BY <2>1 DEF Duplicate, SameKey, NewTransaction
  <2>3. \A i \in 1..Len(txns') : i \in 1..Len(txns) \/ i = Len(txns) + 1
    BY <1>2, CommitAppends
  <2>4. /\ txns'[Len(txns) + 1] = NewTransaction(p)
        /\ \A i \in 1..Len(txns) : txns'[i] = txns[i]
    BY <1>2, CommitAppends
  <2> QED BY <2>2, <2>3, <2>4 DEF OncePerKey, SameKey
<1> QED BY <1>1, <1>2 DEF LedgerStep

\* A grant has no key.
LEMMA OncePerKeyInit == Init => OncePerKey
BY SeededRows DEF OncePerKey, SameKey

\* At most one committed transaction per user and idempotency key.
THEOREM KeysSettleOnce == Spec => []OncePerKey
<1>1. Init => OncePerKey
  BY OncePerKeyInit
<1>2. Base /\ OncePerKey /\ [Next]_vars => OncePerKey'
  BY OncePerKeyStep, OnlyCommitsWrite
<1> QED BY <1>1, <1>2, BaseInvariant, PTL DEF Spec

\* A commit with a key is initiated by who pays.
LEMMA KeyedByPayerStep ==
  ASSUME Base, KeyedByPayer, LedgerStep
  PROVE  KeyedByPayer'
<1>1. CASE UNCHANGED <<balance, txns, entries>>
  BY <1>1 DEF KeyedByPayer
<1>2. ASSUME NEW p \in Workers, pc[p] = "commit", CommitRows(p) PROVE KeyedByPayer'
  <2>1. NewTransaction(p).key # NoKey =>
          NewTransaction(p).sender = NewTransaction(p).initiated_by
    BY <1>2, PartiesDiffer DEF Base, Engaged, NewTransaction
  <2> QED BY <1>2, <2>1, CommitAppends DEF KeyedByPayer
<1> QED BY <1>1, <1>2 DEF LedgerStep

\* A grant has no key.
LEMMA KeyedByPayerInit == Init => KeyedByPayer
BY SeededRows DEF KeyedByPayer

\* Only transfers carry keys, and their payer is who initiated them.
LEMMA KeyedByPayerInvariant == Spec => []KeyedByPayer
<1>1. Init => KeyedByPayer
  BY KeyedByPayerInit
<1>2. Base /\ KeyedByPayer /\ [Next]_vars => KeyedByPayer'
  BY KeyedByPayerStep, OnlyCommitsWrite
<1> QED BY <1>1, <1>2, BaseInvariant, PTL DEF Spec

\* txns[i] is what the request r of a transfer asked for.
IsAnswerTo(t, r) ==
  /\ t.sender = r.user /\ t.initiated_by = r.user
  /\ t.receiver = r.dst /\ t.amount = r.amount /\ t.key = r.key

LEMMA AnswersStep == Base /\ KeyedByPayer /\ AnswersTheRequest /\ [Next]_vars => AnswersTheRequest'
<1> SUFFICES ASSUME Base, KeyedByPayer, AnswersTheRequest, [Next]_vars,
                    NEW p \in Workers, reply'[p].kind \in {"completed", "replayed"}
             PROVE  /\ reply'[p].txn \in 1..Len(txns')
                    /\ IsAnswerTo(txns'[reply'[p].txn], req'[p])
  BY DEF AnswersTheRequest, IsAnswerTo
<1>1. CASE reply'[p] = reply[p] /\ req'[p] = req[p]
  <2>1. reply[p].txn \in 1..Len(txns) /\ IsAnswerTo(txns[reply[p].txn], req[p])
    BY <1>1 DEF AnswersTheRequest, IsAnswerTo
  <2> QED BY <1>1, <2>1, OnlyCommitsWrite, TransactionsStay
<1>2. ASSUME NEW i \in 1..Len(txns), SameKey(txns[i], req[p].user, req[p].key),
             AnswerWith(p, i), UNCHANGED <<req, txns>>
      PROVE  /\ reply'[p].txn \in 1..Len(txns')
             /\ IsAnswerTo(txns'[reply'[p].txn], req'[p])
  <2>1. reply'[p].txn = i /\ SameRequest(txns[i], req[p])
    BY <1>2 DEF AnswerWith, Answer, Base, TypeOK
  <2> QED BY <1>2, <2>1 DEF KeyedByPayer, SameKey, SameRequest, IsAnswerTo
<1>3. CASE FindReplay(p)
  <2>1. CASE Goto(p, "lock_low") /\ UNCHANGED reply
    BY <1>1, <1>3, <2>1 DEF FindReplay
  <2>2. CASE ~(Goto(p, "lock_low") /\ UNCHANGED reply)
    BY <1>2, <1>3, <2>2 DEF FindReplay, tables
  <2> QED BY <2>1, <2>2
<1>4. CASE ReturnWinner(p)
  BY <1>2, <1>4 DEF ReturnWinner, tables
<1>5. CASE CommitTransfer(p)
  <2>1. reply'[p].txn = Len(txns) + 1 /\ req'[p] = req[p]
    BY <1>5 DEF CommitTransfer, Answer, Base, TypeOK
  <2>2. IsAnswerTo(NewTransaction(p), req[p])
    BY <1>5 DEF CommitTransfer, Base, RequestShape, NewTransaction, IsAnswerTo
  <2> QED BY <1>5, <2>1, <2>2, CommitAppends DEF CommitTransfer
<1>6. CASE ~(FindReplay(p) \/ ReturnWinner(p) \/ CommitTransfer(p))
  <2>1. reply'[p].kind \in {"completed", "replayed"} => reply'[p] = reply[p] /\ req'[p] = req[p]
    <3>1. reply \in [Workers -> [kind: ReplyKind, txn: Nat]] /\ req \in [Workers -> Request]
      BY DEF Base, TypeOK
    <3>2. pc[p] = "idle" => reply[p] = NoReply
      BY DEF Base, RequestShape, Engaged, InTransfer
    <3> DEFINE Kept == reply'[p].kind \in {"completed", "replayed"} =>
                         reply'[p] = reply[p] /\ req'[p] = req[p]
    <3>3. ASSUME NEW q \in Workers,
                 \/ FindReplay(q) \/ ReturnWinner(q) \/ CommitTransfer(q)
                 \/ RefuseRecipient(q) \/ RefusePin(q) \/ PostOverflows(q)
                 \/ CommitRefusal(q) \/ InsertUser(q) \/ CommitRegistration(q)
          PROVE  Kept
      <4>1. CASE q = p
        BY <1>6, <3>1, <3>3, <4>1
           DEF RefuseRecipient, RefusePin, PostOverflows, CommitRefusal, InsertUser,
               CommitRegistration, Answer
      <4>2. CASE q # p
        BY <3>1, <3>3, <4>2
           DEF FindReplay, ReturnWinner, CommitTransfer, RefuseRecipient, RefusePin,
               PostOverflows, CommitRefusal, InsertUser, CommitRegistration, Answer, AnswerWith
      <4> QED BY <4>1, <4>2
    <3>4. ASSUME NEW q \in Workers,
                 \/ AcceptPin(q) \/ LockFirst(q) \/ LockSecond(q) \/ PostDoubleEntry(q)
                 \/ RefuseInsufficient(q) \/ LoseToDuplicate(q)
          PROVE  Kept
      BY <3>4 DEF AcceptPin, LockFirst, LockSecond, PostDoubleEntry, RefuseInsufficient,
                  LoseToDuplicate
    <3>5. ASSUME NEW q \in Workers, Reply(q) \/ Crash(q) PROVE Kept
      BY <3>1, <3>5 DEF Reply, Crash, Forget, NoReply
    <3>6. ASSUME NEW q \in Workers, Start(q) PROVE Kept
      BY <3>1, <3>2, <3>6 DEF Start, BeginSend, BeginRegister, Answer, NoReply
    <3>7. ASSUME NEW a \in Suspendable, Deactivate(a) PROVE Kept
      BY <3>7 DEF Deactivate, session
    <3>8. CASE UNCHANGED vars
      BY <3>8 DEF vars, session
    <3> QED BY <3>3, <3>4, <3>5, <3>6, <3>7, <3>8 DEF Next, Step, Finished
  <2> QED BY <1>1, <2>1
<1> QED BY <1>3, <1>4, <1>5, <1>6

\* Nothing was answered yet.
LEMMA AnswersInit == Init => AnswersTheRequest
BY DEF Init, AnswersTheRequest, NoReply

\* A successful answer always names the committed transfer that was asked for,
\* also after a lost race on uq_idem and for a replay of an older request.
THEOREM AnswersAreRight == Spec => []AnswersTheRequest
<1>1. Init => AnswersTheRequest
  BY AnswersInit
<1>2. Base /\ KeyedByPayer /\ AnswersTheRequest /\ [Next]_vars => AnswersTheRequest'
  BY AnswersStep
<1> QED BY <1>1, <1>2, BaseInvariant, KeyedByPayerInvariant, PTL DEF Spec

-----------------------------------------------------------------------------
(* Double entry. *)

LEMMA SeededEntries ==
  ASSUME Init
  PROVE  /\ Len(entries[Mint]) = Len(Seeded)
         /\ \A i \in 1..Len(Seeded) :
              /\ entries[Mint][i].txn = i /\ entries[Mint][i].amount = -SignupGrant
              /\ Len(entries[Seeded[i]]) = 1 /\ entries[Seeded[i]][1].txn = i
              /\ entries[Seeded[i]][1].amount = SignupGrant
         /\ \A w \in Wallets : w # Mint =>
              \/ Len(entries[w]) = 0
              \/ \E i \in 1..Len(Seeded) : w = Seeded[i]
<1>0. /\ Len(Seeded) \in Nat /\ Mint \in Wallets
      /\ \A i \in 1..Len(Seeded) : Seeded[i] \in Wallets /\ Seeded[i] # Mint
  BY SeededAssumption, AccountsAssumption DEF Wallets, Mint
<1>1. entries[Mint] = [i \in 1..Len(Seeded) |-> [txn |-> i, amount |-> -SignupGrant,
                         balance_after |-> -(i * SignupGrant), created_at |-> 0]]
  BY <1>0 DEF Init, InitTables
<1>2. \A w \in Wallets : w # Mint => entries[w] =
        IF w \in SeededSet THEN <<[txn |-> SeedIndex(w), amount |-> SignupGrant,
                                   balance_after |-> SignupGrant, created_at |-> 0]>>
        ELSE <<>>
  BY <1>0 DEF Init, InitTables
<1>3. ASSUME NEW i \in 1..Len(Seeded) PROVE Seeded[i] \in SeededSet /\ SeedIndex(Seeded[i]) = i
  BY SeededAssumption DEF SeededSet, SeedIndex
<1>4. Len(entries[Mint]) = Len(Seeded)
  BY <1>0, <1>1
<1>5. ASSUME NEW i \in 1..Len(Seeded)
      PROVE  /\ entries[Mint][i].txn = i /\ entries[Mint][i].amount = -SignupGrant
             /\ Len(entries[Seeded[i]]) = 1 /\ entries[Seeded[i]][1].txn = i
             /\ entries[Seeded[i]][1].amount = SignupGrant
  <2>1. entries[Seeded[i]] = <<[txn |-> i, amount |-> SignupGrant,
                               balance_after |-> SignupGrant, created_at |-> 0]>>
    BY <1>0, <1>2, <1>3
  <2>2. entries[Mint][i] = [txn |-> i, amount |-> -SignupGrant,
                            balance_after |-> -(i * SignupGrant), created_at |-> 0]
    BY <1>1
  <2> QED BY <2>1, <2>2
<1>6. \A w \in Wallets : w # Mint =>
        Len(entries[w]) = 0 \/ \E i \in 1..Len(Seeded) : w = Seeded[i]
  <2>1. Len(<<>>) = 0
    OBVIOUS
  <2> QED BY <1>2, <2>1 DEF SeededSet
<1> QED BY <1>4, <1>5, <1>6

\* A commit posts one debit, one credit and one transaction that names both.
LEMMA DoubleEntryStep ==
  ASSUME Base, DoubleEntry, LedgerStep
  PROVE  DoubleEntry'
<1>1. CASE UNCHANGED <<balance, txns, entries>>
  BY <1>1 DEF DoubleEntry, PostedOn, EntryFits
<1>2. ASSUME NEW p \in Workers, pc[p] = "commit", CommitRows(p) PROVE DoubleEntry'
  <2> DEFINE src == req[p].src
             dst == req[p].dst
             n == Len(txns) + 1
  <2>1. /\ src \in Wallets /\ dst \in Wallets /\ src # dst /\ req[p].amount \in Nat
    BY <1>2, CommitWrites
  <2>2. /\ Len(txns) \in Nat /\ n \in Nat /\ Len(txns') = n /\ txns'[n] = NewTransaction(p)
        /\ \A i \in 1..Len(txns) : txns'[i] = txns[i]
    BY <1>2, CommitAppends
  <2>3. /\ NewTransaction(p).sender = src /\ NewTransaction(p).receiver = dst
        /\ NewTransaction(p).amount = req[p].amount
        /\ DebitEntry(p).txn = n /\ DebitEntry(p).amount = -req[p].amount
        /\ CreditEntry(p).txn = n /\ CreditEntry(p).amount = req[p].amount
    BY DEF NewTransaction, DebitEntry, CreditEntry, NewEntry
  <2>4. \A w \in Wallets :
          /\ Len(entries[w]) \in Nat
          /\ \A j \in 1..Len(entries[w]) : entries'[w][j] = entries[w][j]
          /\ w \in {src, dst} => Len(entries'[w]) = Len(entries[w]) + 1
          /\ w \notin {src, dst} => Len(entries'[w]) = Len(entries[w])
          /\ w = src => entries'[w][Len(entries[w]) + 1] = DebitEntry(p)
          /\ w = dst => entries'[w][Len(entries[w]) + 1] = CreditEntry(p)
    BY <1>2, CommitGrows
  <2> HIDE DEF src, dst, n
  <2>5. ASSUME NEW w \in Wallets, NEW i \in 1..Len(txns), PostedOn(w, i)
        PROVE  PostedOn(w, i)'
    <3>1. PICK j \in 1..Len(entries[w]) : entries[w][j].txn = i
      BY <2>5 DEF PostedOn
    <3>2. j \in 1..Len(entries'[w]) /\ entries'[w][j].txn = i
      BY <2>4, <3>1
    <3> QED BY <3>2 DEF PostedOn
  <2>6. ASSUME NEW w \in {src, dst}
        PROVE  \E j \in 1..Len(entries'[w]) : entries'[w][j].txn = n
    <3>1. w \in Wallets
      BY <2>1
    <3>2. /\ Len(entries[w]) + 1 \in 1..Len(entries'[w])
          /\ entries'[w][Len(entries[w]) + 1].txn = n
      BY <2>1, <2>3, <2>4, <3>1
    <3> QED BY <3>2
  <2>8. ASSUME NEW i \in 1..Len(txns')
        PROVE  /\ txns'[i].sender # txns'[i].receiver
               /\ PostedOn(txns[i].sender, i)' /\ PostedOn(txns[i].receiver, i)'
    <3>1. CASE i = n
      <4>1. txns'[i].sender = src /\ txns'[i].receiver = dst
        BY <2>2, <2>3, <3>1
      <4> QED BY <2>1, <2>6, <3>1, <4>1 DEF PostedOn
    <3>2. CASE i # n
      <4>1. i \in 1..Len(txns) /\ txns'[i] = txns[i]
        BY <2>2, <3>2 DEF n
      <4>2. txns[i].sender \in Wallets /\ txns[i].receiver \in Wallets
        <5>1. txns \in Seq(Transaction)
          BY DEF Base, TypeOK
        <5>2. txns[i] \in Transaction
          BY <4>1, <5>1
        <5> QED BY <5>2 DEF Transaction
      <4>3. /\ txns[i].sender # txns[i].receiver
            /\ PostedOn(txns[i].sender, i) /\ PostedOn(txns[i].receiver, i)
        BY <4>1 DEF DoubleEntry
      <4>4. PostedOn(txns[i].sender, i)' /\ PostedOn(txns[i].receiver, i)'
        <5>1. \A w \in Wallets : PostedOn(w, i) => \E j \in 1..Len(entries'[w]) : entries'[w][j].txn = i
          BY <2>5, <4>1 DEF PostedOn
        <5> QED BY <4>1, <4>2, <4>3, <5>1 DEF PostedOn
      <4> QED BY <4>1, <4>3, <4>4
    <3> QED BY <3>1, <3>2
  <2>9. ASSUME NEW w \in Wallets, NEW j \in 1..Len(entries'[w]) PROVE EntryFits(w, j)'
    <3>1. CASE j \in 1..Len(entries[w])
      <4>1. EntryFits(w, j)
        BY <3>1 DEF DoubleEntry
      <4>2. /\ entries'[w][j] = entries[w][j]
            /\ \A k \in 1..(j - 1) : entries'[w][k] = entries[w][k]
        BY <2>4, <3>1
      <4>3. /\ txns'[entries[w][j].txn] = txns[entries[w][j].txn]
            /\ entries[w][j].txn \in 1..Len(txns')
        BY <2>2, <4>1 DEF EntryFits, n
      <4> QED BY <4>1, <4>2, <4>3 DEF EntryFits
    <3>2. CASE j \notin 1..Len(entries[w])
      <4>1. /\ w \in {src, dst} /\ j = Len(entries[w]) + 1 /\ Len(entries[w]) \in Nat
            /\ w = src => entries'[w][j] = DebitEntry(p)
            /\ w = dst => entries'[w][j] = CreditEntry(p)
        BY <2>4, <3>2
      <4>2. \A k \in 1..(j - 1) : entries'[w][k].txn < n
        <5> TAKE k \in 1..(j - 1)
        <5>1. k \in 1..Len(entries[w]) /\ entries'[w][k] = entries[w][k]
          BY <2>4, <4>1
        <5>2. entries[w][k].txn \in 1..Len(txns)
          BY <5>1 DEF DoubleEntry, EntryFits
        <5> QED BY <2>2, <5>1, <5>2 DEF n
      <4>3. n \in 1..Len(txns')
        BY <2>2 DEF n
      <4>4. (w = src /\ w # dst) \/ (w = dst /\ w # src)
        <5>1. w \in {src, dst}
          BY <4>1
        <5> QED BY <2>1, <5>1
      <4> QED BY <2>2, <2>3, <4>1, <4>2, <4>3, <4>4 DEF EntryFits
    <3> QED BY <3>1, <3>2
  <2> QED BY <2>8, <2>9 DEF DoubleEntry
<1> QED BY <1>1, <1>2 DEF LedgerStep

\* Each grant has its two entries.
LEMMA DoubleEntryInit == Init => DoubleEntry
<1> SUFFICES ASSUME Init PROVE DoubleEntry
  OBVIOUS
<1>0. /\ Len(Seeded) \in Nat /\ Len(txns) = Len(Seeded)
      /\ \A i \in 1..Len(Seeded) : Seeded[i] \in Accounts /\ Seeded[i] # Mint
  BY SeededRows, AccountsAssumption DEF Mint
<1>1. \A i \in 1..Len(txns) :
        /\ txns[i].sender # txns[i].receiver
        /\ PostedOn(txns[i].sender, i) /\ PostedOn(txns[i].receiver, i)
  BY <1>0, SeededRows, SeededEntries DEF PostedOn
<1>2. ASSUME NEW w \in Wallets, NEW j \in 1..Len(entries[w]) PROVE EntryFits(w, j)
  <2>1. CASE w = Mint
    BY <1>0, <2>1, SeededRows, SeededEntries DEF EntryFits
  <2>2. CASE w # Mint
    <3>1. PICK i \in 1..Len(Seeded) : w = Seeded[i]
      BY <1>0, <2>2, SeededEntries
    <3>2. j = 1
      <4>1. Len(entries[w]) = 1
        BY <3>1, SeededEntries
      <4> QED BY <4>1
    <3> QED BY <1>0, <3>1, <3>2, SeededRows, SeededEntries DEF EntryFits
  <2> QED BY <2>1, <2>2
<1> QED BY <1>1, <1>2 DEF DoubleEntry

\* Each transaction has its debit and its credit, and nothing else exists.
THEOREM DoubleEntryBookkeeping == Spec => []DoubleEntry
<1>1. Init => DoubleEntry
  BY DoubleEntryInit
<1>2. Base /\ DoubleEntry /\ [Next]_vars => DoubleEntry'
  BY DoubleEntryStep, OnlyCommitsWrite
<1> QED BY <1>1, <1>2, BaseInvariant, PTL DEF Spec

-----------------------------------------------------------------------------
(* Registration. *)

\* What a step means for the ledger: nothing is written and nobody registered,
\* a user pays another, or a new user gets the grant.
Quiet ==
  /\ UNCHANGED <<balance, txns, entries>>
  /\ \A a \in Accounts : users'[a] = "absent" <=> users[a] = "absent"

CommitPayment(p) ==
  /\ pc[p] = "commit" /\ req[p].op # "register"
  /\ CommitRows(p) /\ UNCHANGED users

CommitGrant(p) ==
  /\ pc[p] = "commit" /\ req[p].op = "register"
  /\ CommitRows(p) /\ users' = [users EXCEPT ![req[p].user] = "active"]

WriteStep == Quiet \/ \E p \in Workers : CommitPayment(p) \/ CommitGrant(p)

LEMMA WriteSteps ==
  ASSUME Base, [Next]_vars
  PROVE  WriteStep
<1>1. ASSUME NEW p \in Workers, Start(p) PROVE Quiet
  BY <1>1 DEF Quiet, Start, BeginSend, BeginRegister, tables
<1>2. ASSUME NEW p \in Workers, Step(p), ~CommitTransfer(p), ~CommitRegistration(p) PROVE Quiet
  BY <1>2
     DEF Quiet, Step, tables, RefuseRecipient, RefusePin, AcceptPin, FindReplay, LockFirst, LockSecond,
         PostDoubleEntry, PostOverflows, RefuseInsufficient, CommitRefusal, LoseToDuplicate,
         ReturnWinner, InsertUser, Reply
<1>3. ASSUME NEW p \in Workers, Crash(p) PROVE Quiet
  BY <1>3 DEF Quiet, Crash, tables
<1>4. ASSUME NEW a \in Suspendable, Deactivate(a) PROVE Quiet
  BY <1>4, SuspendableAssumption DEF Quiet, Deactivate, Base, TypeOK
<1>5. CASE UNCHANGED vars
  BY <1>5 DEF WriteStep, Quiet, vars, tables
<1>6. ASSUME NEW p \in Workers, CommitTransfer(p) PROVE CommitPayment(p)
  BY <1>6 DEF CommitTransfer, CommitPayment
<1>7. ASSUME NEW p \in Workers, CommitRegistration(p) PROVE CommitGrant(p)
  BY <1>7 DEF CommitRegistration, CommitGrant
<1> QED BY <1>1, <1>2, <1>3, <1>4, <1>5, <1>6, <1>7 DEF Next, Finished, WriteStep

\* Only the commit of a registration adds a user, and it adds one grant.
LEMMA OneGrantStep ==
  ASSUME Base, OneGrantPerUser, WriteStep
  PROVE  OneGrantPerUser'
<1>1. CASE Quiet
  BY <1>1 DEF Quiet, OneGrantPerUser
<1>2. ASSUME NEW p \in Workers, CommitPayment(p) PROVE OneGrantPerUser'
  <2>1. NewTransaction(p).type # "SIGNUP_GRANT" /\ UNCHANGED users
    BY <1>2 DEF CommitPayment, NewTransaction
  <2>2. /\ \A i \in 1..Len(txns') : i \in 1..Len(txns) \/ txns'[i] = NewTransaction(p)
        /\ \A i \in 1..Len(txns) : i \in 1..Len(txns') /\ txns'[i] = txns[i]
    BY <1>2, CommitAppends DEF CommitPayment
  <2>3. \A i \in 1..Len(txns') :
          txns'[i].type = "SIGNUP_GRANT" => i \in 1..Len(txns) /\ txns'[i] = txns[i]
    BY <2>1, <2>2
  <2> QED BY <2>1, <2>2, <2>3 DEF OneGrantPerUser
<1>3. ASSUME NEW p \in Workers, CommitGrant(p) PROVE OneGrantPerUser'
  <2> DEFINE u == req[p].user
             n == Len(txns) + 1
  <2>1. /\ NewTransaction(p).type = "SIGNUP_GRANT" /\ NewTransaction(p).receiver = u
        /\ u \in Accounts /\ users[u] = "absent" /\ users' = [users EXCEPT ![u] = "active"]
        /\ users \in [Accounts -> {"absent", "active", "inactive"}]
    BY <1>3 DEF CommitGrant, NewTransaction, Base, TypeOK, RequestShape,
                LockDiscipline, HoldsItsLocks, Engaged
  <2>2. /\ \A i \in 1..Len(txns') : i \in 1..Len(txns) \/ i = n
        /\ n \in 1..Len(txns') /\ txns'[n] = NewTransaction(p)
        /\ \A i \in 1..Len(txns) : i \in 1..Len(txns') /\ txns'[i] = txns[i]
    BY <1>3, CommitAppends DEF CommitGrant
  <2> HIDE DEF u, n
  <2>3. \A i \in 1..Len(txns) : ~(txns[i].type = "SIGNUP_GRANT" /\ txns[i].receiver = u)
    BY <2>1 DEF OneGrantPerUser
  <2>4. \A i, j \in 1..Len(txns') :
          /\ txns'[i].type = "SIGNUP_GRANT" /\ txns'[j].type = "SIGNUP_GRANT"
          /\ txns'[i].receiver = txns'[j].receiver
          => i = j
    BY <2>1, <2>2, <2>3 DEF OneGrantPerUser
  <2>5. \A a \in Accounts : users'[a] # "absent" <=>
          \E i \in 1..Len(txns') : txns'[i].type = "SIGNUP_GRANT" /\ txns'[i].receiver = a
    <3> TAKE a \in Accounts
    <3>1. CASE a = u
      BY <2>1, <2>2, <3>1
    <3>2. CASE a # u
      <4>1. users'[a] = users[a]
        BY <2>1, <3>2
      <4>2. users[a] # "absent" <=>
              \E i \in 1..Len(txns) : txns[i].type = "SIGNUP_GRANT" /\ txns[i].receiver = a
        BY DEF OneGrantPerUser
      <4> QED BY <2>1, <2>2, <3>2, <4>1, <4>2
    <3> QED BY <3>1, <3>2
  <2> QED BY <2>4, <2>5 DEF OneGrantPerUser
<1> QED BY <1>1, <1>2, <1>3 DEF WriteStep

\* Each seeded user was granted once.
LEMMA OneGrantInit == Init => OneGrantPerUser
<1> SUFFICES ASSUME Init PROVE OneGrantPerUser
  OBVIOUS
<1>1. \A a \in Accounts : users[a] # "absent" <=> a \in SeededSet
  BY DEF Init, InitTables
<1>2. \A i, j \in 1..Len(Seeded) : Seeded[i] = Seeded[j] => i = j
  BY SeededAssumption
<1> QED BY <1>1, <1>2, SeededRows DEF OneGrantPerUser, SeededSet

\* A phone gets one user and one signup grant, however registrations race.
THEOREM GrantedOnce == Spec => []OneGrantPerUser
<1>1. Init => OneGrantPerUser
  BY OneGrantInit
<1>2. Base /\ OneGrantPerUser /\ [Next]_vars => OneGrantPerUser'
  BY OneGrantStep, WriteSteps
<1> QED BY <1>1, <1>2, BaseInvariant, PTL DEF Spec

-----------------------------------------------------------------------------
(* Refinement of AtomicLedger. *)

Registered == {a \in Accounts : users[a] # "absent"}

KeyPairs == {<<txns[i].initiated_by, txns[i].key>> :
               i \in {j \in 1..Len(txns) : txns[j].key # NoKey}}

\* The pairs a commit settles.
LEMMA CommitSettles ==
  ASSUME Base, NEW p \in Workers, CommitRows(p)
  PROVE  KeyPairs' = IF req[p].key = NoKey THEN KeyPairs
                     ELSE KeyPairs \cup {<<req[p].user, req[p].key>>}
<1>1. /\ NewTransaction(p).key = req[p].key /\ NewTransaction(p).initiated_by = req[p].user
  BY DEF NewTransaction
<1>2. /\ Len(txns) \in Nat /\ Len(txns') = Len(txns) + 1
      /\ txns'[Len(txns) + 1] = NewTransaction(p)
      /\ \A i \in 1..Len(txns) : txns'[i] = txns[i]
  BY CommitAppends
<1>3. {j \in 1..Len(txns') : txns'[j].key # NoKey} =
        IF req[p].key = NoKey THEN {j \in 1..Len(txns) : txns[j].key # NoKey}
        ELSE {j \in 1..Len(txns) : txns[j].key # NoKey} \cup {Len(txns) + 1}
  BY <1>1, <1>2
<1>4. KeyPairs' = {<<txns'[i].initiated_by, txns'[i].key>> :
                     i \in {j \in 1..Len(txns') : txns'[j].key # NoKey}}
  BY DEF KeyPairs
<1> QED BY <1>1, <1>2, <1>3, <1>4 DEF KeyPairs

\* The seeded ledger is the one AtomicLedger starts from.
LEMMA AtomicInit == Init => Atomic!Init
<1> SUFFICES ASSUME Init PROVE Atomic!Init
  OBVIOUS
<1>1. Atomic!Mint = Mint /\ Atomic!Wallets = Wallets /\ Atomic!SeededSet = SeededSet
  BY DEF Atomic!Mint, Mint, Atomic!Wallets, Wallets, Atomic!SeededSet, SeededSet
<1>2. balance = [w \in Wallets |-> IF w = Mint THEN -(Len(Seeded) * SignupGrant)
                                   ELSE IF w \in SeededSet THEN SignupGrant ELSE 0]
  BY DEF Init, InitTables
<1>3. Registered = SeededSet
  BY SeededAssumption DEF Init, InitTables, Registered, SeededSet
<1>4. KeyPairs = {}
  BY SeededRows DEF KeyPairs
<1> QED BY <1>1, <1>2, <1>3, <1>4 DEF Atomic!Init, Registered, KeyPairs

\* A payment is a transfer of AtomicLedger, a grant a grant.
LEMMA AtomicStep == Base /\ WriteStep => [Atomic!Next]_<<balance, Registered, KeyPairs>>
<1> SUFFICES ASSUME Base, WriteStep
             PROVE  Atomic!Next \/ UNCHANGED <<balance, Registered, KeyPairs>>
  OBVIOUS
<1>1. CASE Quiet
  BY <1>1 DEF Quiet, Registered, KeyPairs
<1>2. ASSUME NEW p \in Workers, CommitPayment(p) PROVE Atomic!Next
  <2>1. pc[p] = "commit" /\ req[p].op # "register" /\ CommitRows(p) /\ UNCHANGED users
    BY <1>2 DEF CommitPayment
  <2>a. /\ req[p].src \in Accounts /\ req[p].dst \in Accounts /\ req[p].amount \in Amounts
        /\ req[p].src = req[p].user /\ req[p].src # req[p].dst
        /\ users[req[p].src] # "absent" /\ users[req[p].dst] # "absent"
    BY <2>1, PartiesDiffer DEF Base, Engaged
  <2>b. req[p].key \in Keys \cup {NoKey}
    BY DEF Base, TypeOK, Request
  <2>0. PICK s \in Accounts, r \in Accounts, m \in Amounts, k \in Keys \cup {NoKey} :
          s = req[p].src /\ r = req[p].dst /\ m = req[p].amount /\ k = req[p].key
    BY <2>a, <2>b
  <2>2. /\ s \in Accounts /\ r \in Accounts /\ m \in Amounts /\ k \in Keys \cup {NoKey}
        /\ req[p].user = s /\ s # r /\ users[s] # "absent" /\ users[r] # "absent"
    BY <2>0, <2>a
  <2>3. /\ balance[s] >= m
        /\ balance' = [balance EXCEPT ![s] = balance[s] - m, ![r] = balance[r] + m]
    BY <2>0, <2>1, CommitWrites
  <2>4. {s, r} \subseteq Registered /\ UNCHANGED Registered
    BY <2>1, <2>2 DEF Registered
  <2>5. k # NoKey => <<s, k>> \notin KeyPairs
    <3>1. ~Duplicate(p)
      BY <2>1 DEF Base, FreshView, ViewIsFresh
    <3> QED BY <2>0, <2>2, <3>1 DEF Duplicate, SameKey, KeyPairs
  <2>6. KeyPairs' = IF k = NoKey THEN KeyPairs ELSE KeyPairs \cup {<<s, k>>}
    BY <2>0, <2>1, <2>2, CommitSettles
  <2>7. Atomic!Transfer(s, r, m, k)
    BY <2>2, <2>3, <2>4, <2>5, <2>6 DEF Atomic!Transfer, Atomic!Move, Registered, KeyPairs
  <2> QED BY <2>2, <2>7 DEF Atomic!Next
<1>3. ASSUME NEW p \in Workers, CommitGrant(p) PROVE Atomic!Next
  <2>0. PICK a \in Accounts : a = req[p].user
    BY <1>3 DEF CommitGrant, Base, RequestShape, Engaged, InTransfer
  <2>1. pc[p] = "commit" /\ req[p].op = "register" /\ CommitRows(p)
        /\ users' = [users EXCEPT ![a] = "active"]
    BY <1>3, <2>0 DEF CommitGrant
  <2>2. /\ a \in Accounts /\ req[p].dst = a /\ req[p].src = Mint
        /\ req[p].amount = SignupGrant /\ req[p].key = NoKey
        /\ users[a] = "absent" /\ users \in [Accounts -> {"absent", "active", "inactive"}]
    BY <2>0, <2>1 DEF Base, TypeOK, RequestShape, LockDiscipline, HoldsItsLocks, Engaged
  <2>3. balance' = [balance EXCEPT ![Mint] = balance[Mint] - SignupGrant,
                                   ![a] = balance[a] + SignupGrant]
    BY <2>1, <2>2, CommitWrites
  <2>4. a \notin Registered /\ Registered' = Registered \cup {a}
    BY <2>1, <2>2 DEF Registered
  <2>5. KeyPairs' = KeyPairs
    BY <2>1, <2>2, CommitSettles
  <2>6. Atomic!Mint = Mint
    BY DEF Atomic!Mint, Mint
  <2>7. Atomic!Grant(a)
    BY <2>3, <2>4, <2>5, <2>6 DEF Atomic!Grant, Atomic!Move, Registered, KeyPairs
  <2> QED BY <2>2, <2>7 DEF Atomic!Next
<1> QED BY <1>1, <1>2, <1>3 DEF WriteStep

\* Each commit is one indivisible grant or transfer of AtomicLedger; nothing
\* else any worker does is visible in the ledger.
THEOREM Refinement == Spec => ImplementsAtomicLedger
<1>1. Init => Atomic!Init
  BY AtomicInit
<1>2. Base /\ [Next]_vars => [Atomic!Next]_<<balance, Registered, KeyPairs>>
  BY AtomicStep, WriteSteps
<1>3. QED
  BY <1>1, <1>2, BaseInvariant, PTL
     DEF Spec, ImplementsAtomicLedger, Atomic!Spec, Registered, KeyPairs

=============================================================================
