-------------------------- MODULE ReconcileProofs --------------------------
(***************************************************************************)
(* Theorems about Reconcile: what its properties count and add up, for     *)
(* every number of rows.                                                   *)
(***************************************************************************)
EXTENDS Reconcile, TransfersProofs

LEMMA UpTo ==
  ASSUME NEW n \in Nat
  PROVE  IsFiniteSet(1..n) /\ Cardinality(1..n) = n
<1>1. IsFiniteSet(1..n) /\ Cardinality(1..n) = IF 1 > n THEN 0 ELSE n - 1 + 1
  BY FS_Interval
<1> QED BY <1>1

OfType(type) == {i \in 1..Len(txns) : txns[i].type = type}

LEMMA OfTypeFinite ==
  ASSUME TypeOK, NEW type
  PROVE  IsFiniteSet(OfType(type)) /\ Cardinality(OfType(type)) \in Nat
<1>1. Len(txns) \in Nat
  BY DEF TypeOK
<1>2. IsFiniteSet(1..Len(txns))
  BY <1>1, UpTo
<1>3. OfType(type) \in SUBSET (1..Len(txns))
  BY DEF OfType
<1> QED BY <1>2, <1>3, FS_Subset, FS_CardinalityType

\* A commit adds one row, to the rows of its type.
LEMMA CommitCounts ==
  ASSUME Base, NEW p \in Workers, CommitRows(p), NEW type
  PROVE  CountTxns(type)' = IF NewTransaction(p).type = type
                            THEN CountTxns(type) + 1 ELSE CountTxns(type)
<1>1. /\ Len(txns) \in Nat /\ Len(txns') = Len(txns) + 1
      /\ txns'[Len(txns) + 1] = NewTransaction(p)
      /\ \A i \in 1..Len(txns) : txns'[i] = txns[i]
  BY CommitAppends
<1>2. CountTxns(type) = Cardinality(OfType(type))
      /\ CountTxns(type)' = Cardinality(OfType(type)')
  BY DEF CountTxns, OfType
<1>3. OfType(type)' = {i \in 1..Len(txns') : txns'[i].type = type}
  BY DEF OfType
<1>4. OfType(type)' = IF NewTransaction(p).type = type
                      THEN OfType(type) \cup {Len(txns) + 1} ELSE OfType(type)
  BY <1>1, <1>3 DEF OfType
<1>5. Len(txns) + 1 \notin OfType(type)
  BY <1>1 DEF OfType
<1>6. IsFiniteSet(OfType(type))
  BY OfTypeFinite DEF Base
<1>7. Cardinality(OfType(type) \cup {Len(txns) + 1}) = Cardinality(OfType(type)) + 1
  BY <1>5, <1>6, FS_AddElement
<1> QED BY <1>2, <1>4, <1>7

\* What a step means for the two counts of the audit log.
AuditQuiet ==
  /\ UNCHANGED txns
  /\ audit'["TRANSFER_COMPLETED"] = audit["TRANSFER_COMPLETED"]
  /\ audit'["REGISTERED"] = audit["REGISTERED"]

AuditedCommit(p, op, action, other) ==
  /\ pc[p] = "commit" /\ req[p].op = op /\ CommitRows(p)
  /\ audit'[action] = audit[action] + 1 /\ audit'[other] = audit[other]

AuditStep ==
  \/ AuditQuiet
  \/ \E p \in Workers :
       \/ AuditedCommit(p, "send", "TRANSFER_COMPLETED", "REGISTERED")
       \/ AuditedCommit(p, "approve", "TRANSFER_COMPLETED", "REGISTERED")
       \/ AuditedCommit(p, "register", "REGISTERED", "TRANSFER_COMPLETED")

LEMMA AuditSteps ==
  ASSUME Base, [Next]_vars
  PROVE  AuditStep
<1>0. audit \in [AuditAction -> Nat]
  BY DEF Base, TypeOK
<1>1. ASSUME NEW p \in Workers, Start(p) PROVE AuditQuiet
  BY <1>1 DEF AuditQuiet, Start, BeginSend, BeginRegister, tables
<1>2. ASSUME NEW p \in Workers, RefusePin(p) \/ CommitRefusal(p) PROVE AuditQuiet
  BY <1>0, <1>2 DEF AuditQuiet, RefusePin, CommitRefusal, AddAudit, AuditAction
<1>3. ASSUME NEW p \in Workers, Step(p), ~CommitTransfer(p), ~CommitRegistration(p),
             ~RefusePin(p), ~CommitRefusal(p)
      PROVE  AuditQuiet
  BY <1>3
     DEF AuditQuiet, Step, tables, RefuseRecipient, AcceptPin, FindReplay, LockFirst, LockSecond,
         PostDoubleEntry, PostOverflows, RefuseInsufficient, LoseToDuplicate,
         ReturnWinner, InsertUser, Reply
<1>4. ASSUME NEW p \in Workers, Crash(p) PROVE AuditQuiet
  BY <1>4 DEF AuditQuiet, Crash, tables
<1>5. ASSUME NEW a \in Suspendable, Deactivate(a) PROVE AuditQuiet
  BY <1>5 DEF AuditQuiet, Deactivate
<1>6. UNCHANGED vars => AuditQuiet
  BY DEF AuditQuiet, vars, tables
<1>7. ASSUME NEW p \in Workers, CommitTransfer(p)
      PROVE  AuditedCommit(p, "send", "TRANSFER_COMPLETED", "REGISTERED")
  BY <1>0, <1>7 DEF CommitTransfer, AuditedCommit, AddAudit, AuditAction
<1>8. ASSUME NEW p \in Workers, CommitRegistration(p)
      PROVE  AuditedCommit(p, "register", "REGISTERED", "TRANSFER_COMPLETED")
  BY <1>0, <1>8 DEF CommitRegistration, AuditedCommit, AddAudit, AuditAction
<1> QED BY <1>1, <1>2, <1>3, <1>4, <1>5, <1>6, <1>7, <1>8 DEF Next, Finished, AuditStep

LEMMA AuditInit == Init => AuditMatchesLedger
<1> SUFFICES ASSUME Init PROVE AuditMatchesLedger
  OBVIOUS
<1>1. Len(txns) = Len(Seeded) /\ Len(txns) \in Nat
      /\ \A i \in 1..Len(txns) : txns[i].type = "SIGNUP_GRANT"
  BY SeededRows
<1>2. audit["TRANSFER_COMPLETED"] = 0 /\ audit["REGISTERED"] = Len(Seeded)
  BY DEF Init, InitTables, AuditAction
<1>3. {i \in 1..Len(txns) : txns[i].type = "TRANSFER"} = {}
      /\ {i \in 1..Len(txns) : txns[i].type = "REQUEST_SETTLEMENT"} = {}
      /\ {i \in 1..Len(txns) : txns[i].type = "SIGNUP_GRANT"} = 1..Len(txns)
  BY <1>1
<1>4. CountTxns("TRANSFER") = 0 /\ CountTxns("REQUEST_SETTLEMENT") = 0
  BY <1>3, FS_EmptySet DEF CountTxns
<1>5. CountTxns("SIGNUP_GRANT") = Len(txns)
  BY <1>1, <1>3, UpTo DEF CountTxns
<1> QED BY <1>1, <1>2, <1>4, <1>5 DEF AuditMatchesLedger

LEMMA CountTyped ==
  ASSUME TypeOK, NEW type
  PROVE  CountTxns(type) \in Nat
BY OfTypeFinite DEF CountTxns, OfType

LEMMA AuditKept == Base /\ AuditMatchesLedger /\ AuditStep => AuditMatchesLedger'
<1> SUFFICES ASSUME Base, AuditMatchesLedger, AuditStep PROVE AuditMatchesLedger'
  OBVIOUS
<1>0. \A type : CountTxns(type) \in Nat
  BY CountTyped DEF Base
<1>1. CASE AuditQuiet
  BY <1>1 DEF AuditQuiet, AuditMatchesLedger, CountTxns
<1>2. ASSUME NEW p \in Workers, AuditedCommit(p, "send", "TRANSFER_COMPLETED", "REGISTERED")
      PROVE  AuditMatchesLedger'
  <2>1. NewTransaction(p).type = "TRANSFER" /\ CommitRows(p)
    BY <1>2 DEF AuditedCommit, NewTransaction
  <2>2. CountTxns("TRANSFER")' = CountTxns("TRANSFER") + 1
        /\ CountTxns("SIGNUP_GRANT")' = CountTxns("SIGNUP_GRANT")
        /\ CountTxns("REQUEST_SETTLEMENT")' = CountTxns("REQUEST_SETTLEMENT")
    BY <2>1, CommitCounts
  <2> QED BY <1>0, <1>2, <2>2 DEF AuditedCommit, AuditMatchesLedger
<1>3. ASSUME NEW p \in Workers, AuditedCommit(p, "approve", "TRANSFER_COMPLETED", "REGISTERED")
      PROVE  AuditMatchesLedger'
  <2>1. NewTransaction(p).type = "REQUEST_SETTLEMENT" /\ CommitRows(p)
    BY <1>3 DEF AuditedCommit, NewTransaction
  <2>2. CountTxns("REQUEST_SETTLEMENT")' = CountTxns("REQUEST_SETTLEMENT") + 1
        /\ CountTxns("SIGNUP_GRANT")' = CountTxns("SIGNUP_GRANT")
        /\ CountTxns("TRANSFER")' = CountTxns("TRANSFER")
    BY <2>1, CommitCounts
  <2> QED BY <1>0, <1>3, <2>2 DEF AuditedCommit, AuditMatchesLedger
<1>4. ASSUME NEW p \in Workers, AuditedCommit(p, "register", "REGISTERED", "TRANSFER_COMPLETED")
      PROVE  AuditMatchesLedger'
  <2>1. NewTransaction(p).type = "SIGNUP_GRANT" /\ CommitRows(p)
    BY <1>4 DEF AuditedCommit, NewTransaction
  <2>2. CountTxns("SIGNUP_GRANT")' = CountTxns("SIGNUP_GRANT") + 1
        /\ CountTxns("REQUEST_SETTLEMENT")' = CountTxns("REQUEST_SETTLEMENT")
        /\ CountTxns("TRANSFER")' = CountTxns("TRANSFER")
    BY <2>1, CommitCounts
  <2> QED BY <1>4, <2>2 DEF AuditedCommit, AuditMatchesLedger
<1> QED BY <1>1, <1>2, <1>3, <1>4 DEF AuditStep

\* One audit row per committed transfer and registration, however they race,
\* fail or crash.
THEOREM AuditCounted == Spec => []AuditMatchesLedger
<1>1. Init => AuditMatchesLedger
  BY AuditInit
<1>2. Base /\ AuditMatchesLedger /\ [Next]_vars => AuditMatchesLedger'
  BY AuditSteps, AuditKept
<1> QED BY <1>1, <1>2, BaseInvariant, PTL DEF Spec

-----------------------------------------------------------------------------
(* The mint. *)

Funded == IsFiniteSet(Registered) /\ balance[Mint] = -(SignupGrant * Cardinality(Registered))

LEMMA SeededCount == IsFiniteSet(SeededSet) /\ Cardinality(SeededSet) = Len(Seeded)
<1>1. /\ Len(Seeded) \in Nat /\ \A i \in 1..Len(Seeded) : Seeded[i] \in Accounts
      /\ \A i, j \in 1..Len(Seeded) : Seeded[i] = Seeded[j] => i = j
  BY SeededAssumption
<1>2. ExistsBijection(1..Len(Seeded), SeededSet)
  <2> DEFINE f == [i \in 1..Len(Seeded) |-> Seeded[i]]
  <2>1. f \in Bijection(1..Len(Seeded), SeededSet)
    BY <1>1 DEF Bijection, Injection, IsInjective, Surjection, SeededSet
  <2> QED BY <2>1 DEF ExistsBijection
<1>3. IsFiniteSet(1..Len(Seeded)) /\ Cardinality(1..Len(Seeded)) = Len(Seeded)
  BY <1>1, UpTo
<1> QED BY <1>2, <1>3, FS_Bijection

\* The seeding granted each of its accounts once.
LEMMA FundedInit == Init => Funded
<1> SUFFICES ASSUME Init PROVE Funded
  OBVIOUS
<1>1. /\ Len(Seeded) \in Nat /\ \A i \in 1..Len(Seeded) : Seeded[i] \in Accounts
      /\ \A i, j \in 1..Len(Seeded) : Seeded[i] = Seeded[j] => i = j
  BY SeededAssumption
<1>2. Registered = SeededSet
  BY <1>1 DEF Init, InitTables, Registered, SeededSet
<1>5. IsFiniteSet(SeededSet) /\ Cardinality(SeededSet) = Len(Seeded)
  BY SeededCount
<1>6. balance[Mint] = -(Len(Seeded) * SignupGrant)
  BY DEF Init, InitTables, Wallets
<1> QED BY <1>1, <1>2, <1>5, <1>6, SignupGrantAssumption DEF Funded

\* A payment leaves the mint alone; a grant charges it for one user more.
LEMMA FundedStep ==
  ASSUME Base, Funded, WriteStep
  PROVE  Funded'
<1>0. balance \in [Wallets -> Int] /\ Mint \in Wallets /\ SignupGrant \in Nat
  BY SignupGrantAssumption DEF Base, TypeOK, Wallets
<1>1. CASE Quiet
  BY <1>1 DEF Quiet, Funded, Registered
<1>2. ASSUME NEW p \in Workers, CommitPayment(p) PROVE Funded'
  <2>1. pc[p] = "commit" /\ CommitRows(p) /\ req[p].op # "register" /\ UNCHANGED users
    BY <1>2 DEF CommitPayment
  <2>2. req[p].src # Mint /\ req[p].dst # Mint
    BY <2>1, CommitWrites, AccountsAssumption DEF Mint
  <2>3. balance'[Mint] = balance[Mint]
    BY <1>0, <2>1, <2>2, CommitWrites
  <2> QED BY <2>1, <2>3 DEF Funded, Registered
<1>3. ASSUME NEW p \in Workers, CommitGrant(p) PROVE Funded'
  <2> DEFINE u == req[p].user
  <2>1. /\ pc[p] = "commit" /\ CommitRows(p) /\ req[p].op = "register"
        /\ users' = [users EXCEPT ![u] = "active"]
    BY <1>3 DEF CommitGrant
  <2>2. /\ u \in Accounts /\ req[p].dst = u /\ req[p].src = Mint
        /\ req[p].amount = SignupGrant
        /\ users[u] = "absent" /\ users \in [Accounts -> {"absent", "active", "inactive"}]
    BY <2>1 DEF Base, TypeOK, RequestShape, LockDiscipline, HoldsItsLocks, Engaged
  <2>3. u # Mint
    BY <2>2, AccountsAssumption DEF Mint
  <2>4. balance'[Mint] = balance[Mint] - SignupGrant
    BY <1>0, <2>1, <2>2, <2>3, CommitWrites
  <2>5. u \notin Registered /\ Registered' = Registered \cup {u}
    BY <2>1, <2>2 DEF Registered
  <2>6. IsFiniteSet(Registered') /\ Cardinality(Registered') = Cardinality(Registered) + 1
    BY <2>5, FS_AddElement DEF Funded
  <2>7. Cardinality(Registered) \in Nat
    BY FS_CardinalityType DEF Funded
  <2>8. \A n \in Nat : -(SignupGrant * n) - SignupGrant = -(SignupGrant * (n + 1))
    BY <1>0
  <2> QED BY <2>4, <2>6, <2>7, <2>8 DEF Funded
<1> QED BY <1>1, <1>2, <1>3 DEF WriteStep

\* The mint owes one grant for each registered user, whatever registrations
\* raced, failed or crashed.
THEOREM MintOwesGrants == Spec => []MintFunded
<1>1. Init => Funded
  BY FundedInit
<1>2. Base /\ Funded /\ [Next]_vars => Funded'
  BY FundedStep, WriteSteps
<1>3. Funded => MintFunded
  BY DEF Funded, MintFunded, Registered
<1> QED BY <1>1, <1>2, <1>3, BaseInvariant, PTL DEF Spec

-----------------------------------------------------------------------------
(* The report. *)

LEMMA WalletsFinite == IsFiniteSet(Wallets)
BY AccountsFinite, FS_AddElement DEF Wallets

\* Money is moved, never made: the balances of all wallets, the mint's debt
\* included, add up to nothing.
ZeroSum == SumFunctionOnSet(balance, Wallets) = 0

LEMMA ZeroSumInit == Init => ZeroSum
<1> SUFFICES ASSUME Init PROVE ZeroSum
  OBVIOUS
<1>0. SignupGrant \in Int /\ Len(Seeded) \in Nat
  BY SignupGrantAssumption, SeededAssumption
<1>1. Mint \in Wallets /\ Wallets \ {Mint} = Accounts
  BY AccountsAssumption DEF Wallets, Mint
<1>2. SeededSet \in SUBSET Accounts
  BY SeededAssumption DEF SeededSet
<1>3. \A a \in Accounts : balance[a] = IF a \in SeededSet THEN SignupGrant ELSE 0
  BY AccountsAssumption DEF Init, InitTables, Wallets, Mint
<1>4. SumFunctionOnSet(balance, Accounts) = SignupGrant * Cardinality(SeededSet)
  BY <1>0, <1>2, <1>3, AccountsFinite, SumCount
<1>5. balance[Mint] = -(Len(Seeded) * SignupGrant)
  BY DEF Init, InitTables, Wallets
<1>6. \A w \in Wallets : balance[w] \in Int
  BY <1>0, <1>1, <1>3, <1>5
<1>7. SumFunctionOnSet(balance, Wallets) = balance[Mint] + SumFunctionOnSet(balance, Wallets \ {Mint})
  BY <1>1, <1>6, WalletsFinite, SumSplit
<1>8. \A g \in Int, n \in Nat : -(n * g) + g * n = 0
  OBVIOUS
<1> QED BY <1>0, <1>1, <1>4, <1>5, <1>7, <1>8, SeededCount DEF ZeroSum

\* The debit and the credit of a commit cancel.
LEMMA ZeroSumStep == Base /\ ZeroSum /\ LedgerStep => ZeroSum'
<1> SUFFICES ASSUME Base, ZeroSum, LedgerStep PROVE SumFunctionOnSet(balance', Wallets) = 0
  BY DEF ZeroSum
<1>1. CASE UNCHANGED balance
  BY <1>1 DEF ZeroSum
<1>2. ASSUME NEW p \in Workers, pc[p] = "commit", CommitRows(p)
      PROVE  SumFunctionOnSet(balance', Wallets) = 0
  <2> DEFINE s == req[p].src
             d == req[p].dst
             m == req[p].amount
             e == balance'
  <2>1. /\ s \in Wallets /\ d \in Wallets /\ s # d /\ m \in Int
        /\ balance' = [balance EXCEPT ![s] = balance[s] - m, ![d] = balance[d] + m]
        /\ balance \in [Wallets -> Int]
    BY <1>2, CommitWrites DEF Base, TypeOK
  <2>2. /\ \A w \in Wallets : balance[w] \in Int
        /\ e[s] = balance[s] - m /\ e[d] = balance[d] + m
        /\ \A w \in Wallets : w # s /\ w # d => e[w] = balance[w]
    BY <2>1
  <2>3. s \in Wallets /\ d \in Wallets /\ s # d /\ m \in Int
    BY <2>1
  <2> HIDE DEF s, d, m, e
  <2>4. SumFunctionOnSet(e, Wallets) = SumFunctionOnSet(balance, Wallets)
    BY <2>2, <2>3, WalletsFinite, SumMove
  <2> QED BY <2>4 DEF ZeroSum, e
<1> QED BY <1>1, <1>2 DEF LedgerStep

LEMMA EntryTyped ==
  ASSUME TypeOK, NEW w \in Wallets
  PROVE  /\ Len(entries[w]) \in Nat
         /\ \A j \in 1..Len(entries[w]) :
              entries[w][j].amount \in Int /\ entries[w][j].balance_after \in Int
<1>1. entries[w] \in Seq(LedgerEntry)
  BY DEF TypeOK
<1>2. Len(entries[w]) \in Nat
  BY <1>1
<1>3. \A j \in 1..Len(entries[w]) : entries[w][j] \in LedgerEntry
  BY <1>1
<1> QED BY <1>2, <1>3 DEF LedgerEntry

\* On a wallet whose entries are a chain, the projection is what they add up to.
LEMMA NoDrift ==
  ASSUME TypeOK, Chained, NEW w \in Wallets
  PROVE  EntrySum(w) = balance[w]
<1> DEFINE n == Len(entries[w])
           b == [j \in 1..n |-> entries[w][j].balance_after]
           f == EntryAmounts(w)
<1>1. n \in Nat /\ \A i \in 1..n : entries[w][i].amount \in Int /\ entries[w][i].balance_after \in Int
  BY EntryTyped
<1>2. IsChain(entries[w], balance[w])
  BY DEF Chained
<1>3. \A i \in 1..n : f[i] = entries[w][i].amount /\ b[i] = entries[w][i].balance_after
  BY DEF EntryAmounts
<1>4. ASSUME NEW i \in 1..n
      PROVE  b[i] = f[i] + (IF i = 1 THEN 0 ELSE b[i - 1])
  <2>1. b[i] = f[i] + (IF i = 1 THEN 0 ELSE entries[w][i - 1].balance_after)
    BY <1>2, <1>3 DEF IsChain
  <2>2. i # 1 => b[i - 1] = entries[w][i - 1].balance_after
    BY <1>1
  <2> QED BY <2>1, <2>2
<1>5. EntrySum(w) = SumFunctionOnSet(f, 1..n)
  BY DEF EntrySum, SumFunction, EntryAmounts
<1>6. balance[w] = IF n = 0 THEN 0 ELSE b[n]
  <2>1. entries[w] = <<>> <=> n = 0
    BY DEF TypeOK
  <2>2. n # 0 => b[n] = entries[w][n].balance_after
    BY <1>1
  <2> QED BY <1>2, <2>1, <2>2 DEF IsChain
<1>7. /\ \A i \in 1..n : f[i] \in Int
      /\ \A i \in 1..n : b[i] \in Int
  BY <1>1, <1>3
<1>8. n \in Nat
  BY <1>1
<1> HIDE DEF n, b, f
<1>9. SumFunctionOnSet(f, 1..n) = IF n = 0 THEN 0 ELSE b[n]
  <2>1. n # 0 => b[1] = f[1]
    <3>1. n # 0 => 1 \in 1..n
      BY <1>8
    <3>2. 1 \in 1..n => b[1] = f[1] + 0 /\ f[1] \in Int
      BY <1>4, <1>7
    <3> QED BY <3>1, <3>2
  <2>2. \A i \in 1..n : i # 1 => b[i] = f[i] + b[i - 1]
    BY <1>4
  <2> QED BY <1>7, <1>8, <2>1, <2>2, RunningTotal
<1> QED BY <1>5, <1>6, <1>9

\* The one row a transaction has on its sender or receiver.
LEMMA OneRow ==
  ASSUME TypeOK, DoubleEntry, NEW i \in 1..Len(txns), NEW w \in Wallets, PostedOn(w, i)
  PROVE  \E j \in 1..Len(entries[w]) : RowsOf(w, i) = {j} /\ entries[w][j].txn = i
<1>1. PICK j \in 1..Len(entries[w]) : entries[w][j].txn = i
  BY DEF PostedOn
<1>2. ASSUME NEW k \in 1..Len(entries[w]), entries[w][k].txn = i PROVE k = j
  <2>1. EntryFits(w, j) /\ EntryFits(w, k)
    BY DEF DoubleEntry
  <2>2. k \in Nat /\ j \in Nat /\ i \in Nat
    BY DEF TypeOK
  <2>3. CASE k < j
    BY <1>1, <1>2, <2>1, <2>2, <2>3 DEF EntryFits
  <2>4. CASE j < k
    BY <1>1, <1>2, <2>1, <2>2, <2>4 DEF EntryFits
  <2> QED BY <2>2, <2>3, <2>4
<1> QED BY <1>1, <1>2 DEF RowsOf

LEMMA EventSums ==
  ASSUME TypeOK, DoubleEntry, NEW i \in 1..Len(txns), NEW w \in Wallets
  PROVE  EventSum(w, i) = IF w = txns[i].sender THEN -txns[i].amount
                          ELSE IF w = txns[i].receiver THEN txns[i].amount ELSE 0
<1>1. CASE PostedOn(w, i)
  <2>1. PICK j \in 1..Len(entries[w]) : RowsOf(w, i) = {j} /\ entries[w][j].txn = i
    BY <1>1, OneRow
  <2>2. EntryAmounts(w)[j] = entries[w][j].amount /\ entries[w][j].amount \in Int
    BY EntryTyped DEF EntryAmounts
  <2>3. EventSum(w, i) = EntryAmounts(w)[j]
    <3> DEFINE f == EntryAmounts(w)
    <3>1. IsFiniteSet({j}) /\ {j} \ {j} = {} /\ \A x \in {j} : f[x] \in Int
      BY <2>2, FS_Singleton
    <3> HIDE DEF f
    <3>2. SumFunctionOnSet(f, {j}) = f[j] + SumFunctionOnSet(f, {j} \ {j})
      BY <3>1, SumSplit
    <3>3. SumFunctionOnSet(f, {j} \ {j}) = 0
      BY <3>1, SumEmpty
    <3>4. f[j] \in Int
      BY <3>1
    <3>5. SumFunctionOnSet(f, {j}) = f[j]
      BY <3>2, <3>3, <3>4
    <3> QED BY <2>1, <3>5 DEF EventSum, f
  <2>4. txns[i].sender # txns[i].receiver /\ EntryFits(w, j)
    BY DEF DoubleEntry
  <2>5. \/ w = txns[i].sender /\ entries[w][j].amount = -txns[i].amount
        \/ w = txns[i].receiver /\ entries[w][j].amount = txns[i].amount
    BY <2>1, <2>4 DEF EntryFits
  <2> QED BY <2>2, <2>3, <2>4, <2>5
<1>2. CASE ~PostedOn(w, i)
  <2>1. RowsOf(w, i) = {}
    BY <1>2 DEF PostedOn, RowsOf
  <2>2. w # txns[i].sender /\ w # txns[i].receiver
    BY <1>2 DEF DoubleEntry
  <2> QED BY <2>1, <2>2, SumEmpty DEF EventSum
<1> QED BY <1>1, <1>2

LEMMA EventsBalance ==
  ASSUME TypeOK, DoubleEntry, NEW i \in 1..Len(txns)
  PROVE  SumFunction([w \in Wallets |-> EventSum(w, i)]) = 0
<1> DEFINE f == [w \in Wallets |-> EventSum(w, i)]
           s == txns[i].sender
           r == txns[i].receiver
<1>1. s \in Wallets /\ r \in Wallets /\ txns[i].amount \in Int
  <2>1. txns[i] \in Transaction
    BY DEF TypeOK
  <2> QED BY <2>1 DEF Transaction
<1>2. s # r
  BY DEF DoubleEntry
<1>3. /\ f[s] = -txns[i].amount /\ f[r] = txns[i].amount
      /\ \A w \in Wallets : f[w] \in Int
      /\ \A w \in Wallets : w # s /\ w # r => f[w] = 0
  BY <1>1, <1>2, EventSums
<1>4. SumFunction(f) = SumFunctionOnSet(f, Wallets)
  BY DEF SumFunction
<1> HIDE DEF f, s, r
<1>5. SumFunctionOnSet(f, Wallets) = f[s] + f[r]
  BY <1>1, <1>2, <1>3, WalletsFinite, SumOfTwo
<1>6. SumFunction(f) = 0
  BY <1>1, <1>3, <1>4, <1>5
<1> QED BY <1>6 DEF f

\* What makes the report green.
LEMMA Green ==
  ASSUME TypeOK, Chained, DoubleEntry, Solvent, ZeroSum
  PROVE  ReconcileGreen
<1>1. ledger_sum = 0
  <2> DEFINE f == [w \in Wallets |-> EntrySum(w)]
  <2>1. \A w \in Wallets : f[w] = balance[w]
    BY NoDrift
  <2>2. SumFunctionOnSet(f, Wallets) = SumFunctionOnSet(balance, Wallets)
    <3> HIDE DEF f
    <3> QED BY <2>1, WalletsFinite, SumSame
  <2> QED BY <2>2 DEF ledger_sum, SumFunction, ZeroSum
<1>2. unbalanced_transactions = {}
  BY EventsBalance DEF unbalanced_transactions
<1>3. drifted_wallets = {}
  BY NoDrift DEF drifted_wallets
<1> QED BY <1>1, <1>2, <1>3 DEF ReconcileGreen, Solvent

\* The report is green at every moment of every interleaving: the ledger sums to
\* zero, every transaction does, no projection drifts and no user is in debt.
THEOREM ReportGreen == Spec => []ReconcileGreen
<1>1. Init => ZeroSum
  BY ZeroSumInit
<1>2. Base /\ ZeroSum /\ [Next]_vars => ZeroSum'
  BY ZeroSumStep, OnlyCommitsWrite
<1>3. Base /\ Chained /\ DoubleEntry /\ Solvent /\ ZeroSum => ReconcileGreen
  BY Green DEF Base
<1> QED BY <1>1, <1>2, <1>3, BaseInvariant, LedgerChained, DoubleEntryBookkeeping, Solvency,
           PTL DEF Spec

-----------------------------------------------------------------------------
(* Payments fit. *)

\* The users' money is the mint's debt, nobody is overdrawn, and the mint's debt
\* fits its column.
Funds == ZeroSum /\ Solvent /\ MintInRange

\* A payment that passes the balance check never meets a full column.
PaymentsFit ==
  \A p \in Workers :
    pc[p] = "post" /\ req[p].op # "register" /\ ~Insufficient(p) => ~Overflows(p)

LEMMA FundsInit == Init => Funds
BY ZeroSumInit, SolventInit, MintInit DEF Funds

LEMMA FundsStep == Base /\ Funds /\ LedgerStep => Funds'
BY ZeroSumStep, SolventStep, MintStep DEF Funds

\* Two users have together at most what the mint owes.
LEMMA TwoUsersOwn ==
  ASSUME TypeOK, Funds, NEW a \in Accounts, NEW b \in Accounts, a # b
  PROVE  balance[a] + balance[b] <= NumericMax
<1>1. Mint \in Wallets /\ Wallets \ {Mint} = Accounts
  BY AccountsAssumption DEF Wallets, Mint
<1>2. \A w \in Wallets : balance[w] \in Int
  BY DEF TypeOK
<1>3. SumFunctionOnSet(balance, Wallets) = balance[Mint] + SumFunctionOnSet(balance, Wallets \ {Mint})
  BY <1>1, <1>2, WalletsFinite, SumSplit
<1>4. \A x \in Accounts : balance[x] \in Nat
  BY <1>1, <1>2 DEF Funds, Solvent, insolvent_wallets
<1>5. balance[a] + balance[b] <= SumFunctionOnSet(balance, Accounts)
  BY <1>4, AccountsFinite, SumOverTwo
<1>6. SumFunctionOnSet(balance, Accounts) \in Nat
  BY <1>4, AccountsFinite, SumNat
<1>7. -NumericMax <= balance[Mint] /\ balance[Mint] \in Int
  BY <1>1, <1>2 DEF Funds, MintInRange
<1>8. balance[Mint] + SumFunctionOnSet(balance, Accounts) = 0
  BY <1>1, <1>3 DEF Funds, ZeroSum
<1> QED BY <1>4, <1>5, <1>6, <1>7, <1>8, NumericMaxAssumption

LEMMA Fits == Base /\ Funds => PaymentsFit
<1> SUFFICES ASSUME Base, Funds, NEW p \in Workers,
                    pc[p] = "post", req[p].op # "register", ~Insufficient(p)
             PROVE  ~Overflows(p)
  BY DEF PaymentsFit
<1> DEFINE s == req[p].src
           d == req[p].dst
           m == req[p].amount
<1>1. s \in Accounts /\ d \in Accounts /\ s # d /\ m \in Nat
  BY PartiesDiffer DEF Base, Engaged
<1>2. view[p].src = balance[s] /\ view[p].dst = balance[d] /\ view[p].src >= m
  <2>1. ViewIsFresh(p)
    BY DEF Base, FreshView
  <2>2. view[p].src \in Int
    BY DEF Base, TypeOK
  <2> QED BY <1>1, <2>1, <2>2 DEF ViewIsFresh, Insufficient
<1>3. balance[s] + balance[d] <= NumericMax
  BY <1>1, TwoUsersOwn DEF Base
<1>4. balance[s] \in Int /\ balance[d] \in Int
  BY <1>1 DEF Base, TypeOK, Wallets
<1>5. -NumericMax <= view[p].src - m /\ view[p].dst + m <= NumericMax
  BY <1>1, <1>2, <1>3, <1>4, NumericMaxAssumption
<1> QED BY <1>1, <1>2, <1>4, <1>5, NumericMaxAssumption DEF Overflows, Debited, Credited

LEMMA FailuresInit == Init => OnlyGrantsFail
BY DEF Init, OnlyGrantsFail, NoReply

LEMMA FailuresStep == Base /\ PaymentsFit /\ OnlyGrantsFail /\ [Next]_vars => OnlyGrantsFail'
<1> SUFFICES ASSUME Base, PaymentsFit, OnlyGrantsFail, [Next]_vars,
                    NEW p \in Workers, reply'[p].kind = "error"
             PROVE  req'[p].op = "register"
  BY DEF OnlyGrantsFail
<1>1. /\ reply \in [Workers -> [kind: ReplyKind, txn: Nat]] /\ req \in [Workers -> Request]
      /\ pc[p] = "idle" => reply[p] = NoReply
  BY DEF Base, TypeOK, RequestShape
<1> DEFINE Kept == reply'[p] = reply[p] /\ req'[p] = req[p]
<1>2. ASSUME NEW q \in Workers, PostOverflows(q) PROVE Kept \/ req'[p].op = "register"
  <2>1. CASE q = p
    <3>1. req[p].op = "register"
      BY <1>2, <2>1 DEF PostOverflows, PaymentsFit
    <3> QED BY <1>2, <2>1, <3>1 DEF PostOverflows
  <2>2. CASE q # p
    BY <1>1, <1>2, <2>2 DEF PostOverflows, Answer
  <2> QED BY <2>1, <2>2
<1>3. ASSUME NEW q \in Workers,
             \/ FindReplay(q) \/ ReturnWinner(q) \/ CommitTransfer(q)
             \/ RefuseRecipient(q) \/ RefusePin(q)
             \/ CommitRefusal(q) \/ InsertUser(q) \/ CommitRegistration(q)
      PROVE  Kept
  BY <1>1, <1>3
     DEF FindReplay, ReturnWinner, CommitTransfer, RefuseRecipient, RefusePin,
         CommitRefusal, InsertUser, CommitRegistration, Answer, AnswerWith
<1>4. ASSUME NEW q \in Workers,
             \/ AcceptPin(q) \/ LockFirst(q) \/ LockSecond(q) \/ PostDoubleEntry(q)
             \/ RefuseInsufficient(q) \/ LoseToDuplicate(q)
      PROVE  Kept
  BY <1>4 DEF AcceptPin, LockFirst, LockSecond, PostDoubleEntry, RefuseInsufficient,
              LoseToDuplicate
<1>5. ASSUME NEW q \in Workers, Reply(q) \/ Crash(q) PROVE Kept
  BY <1>1, <1>5 DEF Reply, Crash, Forget, NoReply
<1>6. ASSUME NEW q \in Workers, Start(q) PROVE Kept
  BY <1>1, <1>6 DEF Start, BeginSend, BeginRegister, Answer, NoReply
<1>7. ASSUME NEW a \in Suspendable, Deactivate(a) PROVE Kept
  BY <1>7 DEF Deactivate, session
<1>8. ASSUME UNCHANGED vars PROVE Kept
  <2>1. reply' = reply /\ req' = req
    BY <1>8 DEF vars, session
  <2> QED BY <2>1
<1>9. Kept \/ req'[p].op = "register"
  BY <1>2, <1>3, <1>4, <1>5, <1>6, <1>7, <1>8 DEF Next, Step, Finished
<1> QED BY <1>9 DEF OnlyGrantsFail

\* A transfer is refused or fits: only a grant can meet a full column, however
\* transfers and registrations interleave.
THEOREM TransfersNeverFail == Spec => []OnlyGrantsFail
<1>1. Init => Funds /\ OnlyGrantsFail
  BY FundsInit, FailuresInit
<1>2. Base /\ Funds /\ [Next]_vars => Funds'
  BY FundsStep, OnlyCommitsWrite
<1>3. Base /\ Funds /\ OnlyGrantsFail /\ [Next]_vars => OnlyGrantsFail'
  BY Fits, FailuresStep
<1> QED BY <1>1, <1>2, <1>3, BaseInvariant, PTL DEF Spec

=============================================================================
