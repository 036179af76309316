--------------------------- MODULE RequestsProofs ---------------------------
(***************************************************************************)
(* Theorems about Requests, for every finite set of workers and any number *)
(* of accounts, amounts, keys and money requests.  The money path keeps    *)
(* what TransfersProofs shows of it, and each request is paid once.        *)
(***************************************************************************)
EXTENDS Requests, ReconcileProofs

-----------------------------------------------------------------------------
(* The inductive invariant. *)

\* The worker is past _lock_request and its transaction is open.
HoldsRow(p) == serving[p] \in 1..Len(requests) /\ requestLock[serving[p]] = p

\* Whoever decides about a request holds its row; while execute_transfer runs
\* for it the row stays pending and the arguments stay those of the row.
Serves(p) ==
  /\ pc[p] = "create_request" =>
       /\ req[p].op = "create" /\ req[p].user \in Accounts /\ req[p].dst \in Accounts
       /\ req[p].amount \in Amounts
  /\ pc[p] \in {"lock_request", "check_request"} =>
       req[p].op \in Verbs /\ req[p].user \in Accounts
  /\ pc[p] = "check_request" => HoldsRow(p)
  /\ pc[p] \in InTransfer /\ req[p].op = "approve" =>
       /\ HoldsRow(p) /\ Row(p).status = "PENDING"
       /\ req[p].user = Row(p).payer /\ req[p].dst = Row(p).requester
       /\ req[p].amount = Row(p).amount /\ req[p].key = RequestKey[serving[p]]
  /\ \A i \in RequestIds : requestLock[i] = p =>
       /\ serving[p] = i
       /\ \/ pc[p] = "check_request"
          \/ pc[p] \in InTransfer /\ req[p].op = "approve"

Serving == \A p \in Workers : Serves(p)

\* The transaction is the payment of the request: its parties, its amount, and
\* the key derived from its id.
Pays(t, i, r) ==
  /\ t.sender = r.payer /\ t.receiver = r.requester /\ t.amount = r.amount
  /\ t.key = RequestKey[i] /\ t.initiated_by = r.payer

Linked ==
  \A i \in Approved :
    requests[i].transaction \in 1..Len(txns) /\ Pays(txns[requests[i].transaction], i, requests[i])

Settled ==
  \A n \in 1..Len(txns) :
    txns[n].type = "REQUEST_SETTLEMENT" => \E i \in Approved : requests[i].transaction = n

Bounded == Len(requests) + Cardinality(Creating) <= MaxRequests

RInv == Base /\ KeyedByPayer /\ RequestsTypeOK /\ Bounded /\ Serving /\ Linked /\ Settled

-----------------------------------------------------------------------------
(* The money path is kept: a call on a request is, for the ledger, a worker  *)
(* that does nothing, or a transfer.                                         *)

\* Only p moves.
Alone(p) ==
  \A q \in Workers \ {p} :
    pc'[q] = pc[q] /\ req'[q] = req[q] /\ view'[q] = view[q] /\ reply'[q] = reply[q]

\* A worker outside lock_wallets .. commit that stays outside.
LEMMA OutsideStep ==
  ASSUME Base, NEW p \in Workers, Alone(p),
         UNCHANGED <<users, balance, txns, entries, locks>>,
         pc[p] \notin {"lock_low", "lock_high", "post", "commit"},
         pc'[p] \notin {"lock_low", "lock_high", "post", "commit"},
         TypeOK', RequestShape'
  PROVE  Base'
<1>1. LockDiscipline'
  <2>1. UNCHANGED <<users, lock, phoneLock>>
    BY DEF locks
  <2>2. ASSUME NEW q \in Workers, q # p PROVE HoldsItsLocks(q)'
    BY <2>1, <2>2, OtherHoldsItsLocks DEF Base, LockDiscipline, Alone
  <2>3. HoldsItsLocks(p)'
    BY <2>1 DEF Base, LockDiscipline, HoldsItsLocks, Engaged
  <2> QED BY <2>2, <2>3 DEF LockDiscipline
<1>2. FreshView'
  <2>1. ASSUME NEW q \in Workers, q # p PROVE ViewIsFresh(q)'
    BY <2>1, OtherViewIsFresh DEF Base, FreshView, Alone
  <2>2. ViewIsFresh(p)'
    BY DEF ViewIsFresh
  <2> QED BY <2>1, <2>2 DEF FreshView
<1> QED BY <1>1, <1>2 DEF Base

\* The shape of a request outside execute_transfer.
LEMMA OutsideShape ==
  ASSUME RequestShape, NEW p \in Workers, Alone(p), users' = users,
         pc'[p] \in {"create_request", "lock_request", "check_request", "done"},
         pc'[p] # "done" => reply'[p] = NoReply,
         req'[p].op \notin {"send", "register"},
         req'[p].op = "approve" =>
           req'[p].user \in Accounts /\ req'[p].src = req'[p].user /\ users[req'[p].user] # "absent"
  PROVE  RequestShape'
  BY DEF RequestShape, Alone, Engaged, InTransfer

\* And of the one execute_transfer is called with by an approval.
LEMMA ApprovalShape ==
  ASSUME RequestShape, NEW p \in Workers, Alone(p), users' = users,
         pc'[p] = "find_replay", reply'[p] = NoReply, req'[p].op = "approve",
         req'[p].user \in Accounts, req'[p].src = req'[p].user,
         req'[p].dst \in Accounts, req'[p].amount \in Amounts, req'[p].dst # req'[p].src,
         users[req'[p].user] # "absent", users[req'[p].dst] # "absent"
  PROVE  RequestShape'
  BY DEF RequestShape, Alone, Engaged, InTransfer

\* The steps of the calls on requests that no transfer has.
OwnStep(p) ==
  \/ StartRequest(p)
  \/ RefuseCreate(p) \/ CommitCreate(p)
  \/ RefuseStranger(p) \/ LockRequest(p) \/ RefuseVerb(p)
  \/ CommitDecline(p) \/ CommitCancel(p)
  \/ RefuseApprovalPin(p) \/ RefuseRequester(p) \/ AcceptApproval(p)
  \/ ApproveReplay(p) \/ ApproveRefused(p) \/ CommitApproval(p)

\* The steps that are those of Transfers.
LEMMA StepKinds ==
  ASSUME [RequestsNext]_allvars
  PROVE  [Next]_vars \/ \E p \in Workers : OwnStep(p)
<1>1. ASSUME NEW p \in Workers, StartRequest(p) PROVE OwnStep(p)
  BY <1>1 DEF OwnStep
<1>2. ASSUME NEW p \in Workers, RequestStep(p) PROVE Step(p) \/ OwnStep(p)
  <2>1. CASE NoReplay(p)
    <3>1. FindReplay(p)
      BY <2>1 DEF NoReplay, FindReplay
    <3> QED BY <3>1 DEF Step
  <2>2. CASE MoneyPath(p)
    BY <2>2 DEF MoneyPath, Step
  <2>3. CASE ApproveLosesToDuplicate(p)
    BY <2>3 DEF ApproveLosesToDuplicate, Step
  <2>4. CASE ReplyRequest(p)
    BY <2>4 DEF ReplyRequest, Step
  <2> QED BY <1>2, <2>1, <2>2, <2>3, <2>4 DEF RequestStep, OwnStep
<1>3. ASSUME NEW p \in Workers, TransferStep(p) PROVE Step(p)
  BY <1>3 DEF TransferStep
<1>4. ASSUME NEW p \in Workers, CrashRequest(p) PROVE Crash(p)
  BY <1>4 DEF CrashRequest
<1>5. ASSUME NEW i \in Expirable, Expire(i) PROVE UNCHANGED vars
  BY <1>5 DEF Expire
<1>6. CASE UNCHANGED allvars
  BY <1>6 DEF allvars
<1> QED BY <1>1, <1>2, <1>3, <1>4, <1>5, <1>6 DEF RequestsNext, Next

\* A step of Transfers moves one worker.
LEMMA TransferAlone ==
  ASSUME TypeOK, NEW p \in Workers, Start(p) \/ Step(p) \/ Crash(p)
  PROVE  Alone(p)
<1> USE DEF TypeOK, Alone, Goto, Answer
<1>1. ASSUME NEW s \in Accounts, NEW r \in Accounts, NEW m \in Amounts, NEW k \in Keys \cup {NoKey},
             BeginSend(p, s, r, m, k)
      PROVE  Alone(p)
  BY <1>1 DEF BeginSend
<1>2. ASSUME NEW a \in Accounts, BeginRegister(p, a) PROVE Alone(p)
  BY <1>2 DEF BeginRegister
<1>3. CASE RefuseRecipient(p) \/ RefusePin(p) \/ AcceptPin(p)
  BY <1>3 DEF RefuseRecipient, RefusePin, AcceptPin
<1>4. CASE FindReplay(p) \/ ReturnWinner(p)
  BY <1>4 DEF FindReplay, ReturnWinner, AnswerWith
<1>5. CASE LockFirst(p) \/ LockSecond(p) \/ PostDoubleEntry(p) \/ PostOverflows(p)
  BY <1>5 DEF LockFirst, LockSecond, PostDoubleEntry, PostOverflows
<1>6. CASE RefuseInsufficient(p) \/ CommitRefusal(p) \/ LoseToDuplicate(p)
  BY <1>6 DEF RefuseInsufficient, CommitRefusal, LoseToDuplicate
<1>7. CASE CommitTransfer(p) \/ InsertUser(p) \/ CommitRegistration(p)
  BY <1>7 DEF CommitTransfer, InsertUser, CommitRegistration
<1>8. CASE Reply(p) \/ Crash(p)
  BY <1>8 DEF Reply, Crash, Forget
<1> QED BY <1>1, <1>2, <1>3, <1>4, <1>5, <1>6, <1>7, <1>8 DEF Start, Step

\* So does a step of a call on a request.
LEMMA OwnAlone ==
  ASSUME TypeOK, NEW p \in Workers, OwnStep(p)
  PROVE  Alone(p)
<1> USE DEF TypeOK, Alone, Goto, Answer, AnswerRequest
<1>1. ASSUME NEW a \in Accounts, NEW b \in Accounts, NEW m \in Amounts, BeginCreate(p, a, b, m)
      PROVE  Alone(p)
  BY <1>1 DEF BeginCreate, Begin
<1>2. ASSUME NEW v \in Verbs, NEW a \in Accounts, NEW i \in 0..Len(requests), BeginVerb(p, v, a, i)
      PROVE  Alone(p)
  BY <1>2 DEF BeginVerb, Begin
<1>3. CASE RefuseCreate(p) \/ CommitCreate(p) \/ RefuseStranger(p) \/ LockRequest(p)
  BY <1>3 DEF RefuseCreate, CommitCreate, RefuseStranger, LockRequest
<1>4. CASE RefuseVerb(p) \/ CommitDecline(p) \/ CommitCancel(p)
  BY <1>4 DEF RefuseVerb, CommitDecline, CommitCancel
<1>5. CASE RefuseApprovalPin(p) \/ RefuseRequester(p) \/ AcceptApproval(p)
  BY <1>5 DEF RefuseApprovalPin, RefuseRequester, AcceptApproval
<1>6. CASE ApproveReplay(p)
  BY <1>6 DEF ApproveReplay
<1>7. CASE ApproveRefused(p) \/ CommitApproval(p)
  BY <1>7 DEF ApproveRefused, CommitApproval
<1> QED BY <1>1, <1>2, <1>3, <1>4, <1>5, <1>6, <1>7 DEF OwnStep, StartRequest

\* The row of a worker at check_request or in execute_transfer is a row.
LEMMA RowTyped ==
  ASSUME RInv, NEW p \in Workers, HoldsRow(p)
  PROVE  /\ Row(p) \in MoneyRequest /\ Row(p).requester # Row(p).payer
         /\ Row(p).requester \in Accounts /\ Row(p).payer \in Accounts
         /\ Row(p).amount \in Amounts /\ Row(p).requester \in Wallets
<1>1. requests \in Seq(MoneyRequest) /\ serving[p] \in 1..Len(requests)
  BY DEF RInv, RequestsTypeOK, HoldsRow
<1>2. Row(p) \in MoneyRequest
  BY <1>1 DEF Row
<1> QED BY <1>1, <1>2 DEF RInv, RequestsTypeOK, MoneyRequest, Row, Wallets

\* An actionable row is held, and belongs to the worker's user.
LEMMA ActionableRow ==
  ASSUME RInv, NEW p \in Workers, Actionable(p)
  PROVE  /\ pc[p] = "check_request" /\ HoldsRow(p) /\ Row(p).status = "PENDING"
         /\ serving[p] \notin expired /\ req[p].op \in Verbs
         /\ req[p].op # "cancel" => req[p].user = Row(p).payer
<1>1. pc[p] = "check_request" /\ RightParty(p) /\ effective_status(p) = "PENDING"
  BY DEF Actionable
<1>2. HoldsRow(p) /\ req[p].op \in Verbs
  BY <1>1 DEF RInv, Serving, Serves
<1> QED BY <1>1, <1>2 DEF RightParty, effective_status

LEMMA OwnTyped ==
  ASSUME RInv, NEW p \in Workers, OwnStep(p)
  PROVE  TypeOK'
<1> USE DEF tables, locks
<1>0. TypeOK
  BY DEF RInv, Base
<1>1. ASSUME NEW a \in Accounts, NEW b \in Accounts, NEW m \in Amounts, BeginCreate(p, a, b, m)
      PROVE  TypeOK'
  <2>1. pc' \in [Workers -> PC]
    BY <1>0, <1>1, GotoTyped DEF BeginCreate, Begin, PC
  <2>2. req' \in [Workers -> Request] /\ clock' \in 0..MaxStarts
    <3>1. /\ [op |-> "create", user |-> a, src |-> a, dst |-> b, amount |-> m, key |-> NoKey,
             start |-> clock + 1] \in Request
          /\ clock + 1 \in 0..MaxStarts
      <4>1. clock \in Nat /\ clock + 1 \in 0..MaxStarts
        BY <1>0, <1>1, MaxStartsAssumption DEF TypeOK, BeginCreate, Begin
      <4>2. a \in Wallets /\ b \in Wallets /\ m \in Nat
        BY AmountsAssumption DEF Wallets
      <4> QED BY <4>1, <4>2 DEF Request
    <3>2. /\ clock' = clock + 1
          /\ req' = [req EXCEPT ![p] = [op |-> "create", user |-> a, src |-> a, dst |-> b,
                       amount |-> m, key |-> NoKey, start |-> clock + 1]]
      BY <1>1 DEF BeginCreate, Begin
    <3> QED BY <1>0, <3>1, <3>2 DEF TypeOK
  <2>3. view' \in [Workers -> [src: Int, dst: Int]]
    BY <1>0, <1>1 DEF TypeOK, BeginCreate, Begin, Wallets
  <2>4. UNCHANGED <<users, balance, txns, entries, audit, lock, phoneLock, reply>>
    BY <1>1 DEF BeginCreate, Begin
  <2> QED BY <1>0, <2>1, <2>2, <2>3, <2>4 DEF TypeOK
<1>2. ASSUME NEW v \in Verbs, NEW a \in Accounts, NEW i \in 0..Len(requests), BeginVerb(p, v, a, i)
      PROVE  TypeOK'
  <2>1. pc' \in [Workers -> PC]
    BY <1>0, <1>2, GotoTyped DEF BeginVerb, Begin, PC
  <2>2. req' \in [Workers -> Request] /\ clock' \in 0..MaxStarts
    <3>1. /\ [op |-> v, user |-> a, src |-> a, dst |-> Mint, amount |-> 0, key |-> NoKey,
             start |-> clock + 1] \in Request
          /\ clock + 1 \in 0..MaxStarts
      BY <1>0, <1>2, MaxStartsAssumption DEF TypeOK, BeginVerb, Begin, Verbs, Request, Wallets
    <3>2. /\ clock' = clock + 1
          /\ req' = [req EXCEPT ![p] = [op |-> v, user |-> a, src |-> a, dst |-> Mint,
                       amount |-> 0, key |-> NoKey, start |-> clock + 1]]
      BY <1>2 DEF BeginVerb, Begin
    <3> QED BY <1>0, <3>1, <3>2 DEF TypeOK
  <2>3. view' \in [Workers -> [src: Int, dst: Int]]
    BY <1>0, <1>2 DEF TypeOK, BeginVerb, Begin, Wallets
  <2>4. UNCHANGED <<users, balance, txns, entries, audit, lock, phoneLock, reply>>
    BY <1>2 DEF BeginVerb, Begin
  <2> QED BY <1>0, <2>1, <2>2, <2>3, <2>4 DEF TypeOK
<1>3. CASE RefuseCreate(p) \/ RefuseStranger(p)
  <2>1. pc' \in [Workers -> PC] /\ reply' \in [Workers -> [kind: ReplyKind, txn: Nat]]
    BY <1>0, <1>3, AnswerTyped DEF RefuseCreate, RefuseStranger, ReplyKind
  <2> QED BY <1>0, <1>3, <2>1 DEF TypeOK, RefuseCreate, RefuseStranger
<1>4. CASE LockRequest(p)
  <2>1. pc' \in [Workers -> PC]
    BY <1>0, <1>4, GotoTyped DEF LockRequest, PC
  <2> QED BY <1>0, <1>4, <2>1 DEF TypeOK, LockRequest
<1>5. CASE RefuseVerb(p) \/ RefuseRequester(p)
  <2>1. pc' \in [Workers -> PC] /\ reply' \in [Workers -> [kind: ReplyKind, txn: Nat]]
    BY <1>0, <1>5, AnswerTyped DEF RefuseVerb, RefuseRequester, AnswerRequest, ReplyKind
  <2> QED BY <1>0, <1>5, <2>1 DEF TypeOK, RefuseVerb, RefuseRequester
<1>6. CASE CommitCreate(p) \/ CommitDecline(p) \/ CommitCancel(p) \/ RefuseApprovalPin(p)
  <2>1. pc' \in [Workers -> PC] /\ reply' \in [Workers -> [kind: ReplyKind, txn: Nat]]
    BY <1>0, <1>6, AnswerTyped
       DEF CommitCreate, CommitDecline, CommitCancel, RefuseApprovalPin, AnswerRequest, ReplyKind
  <2>2. audit' \in [AuditAction -> Nat]
    BY <1>0, <1>6, AuditTyped
       DEF CommitCreate, CommitDecline, CommitCancel, RefuseApprovalPin, AuditAction
  <2>3. UNCHANGED <<users, balance, txns, entries, lock, phoneLock, req, view, clock>>
    BY <1>6 DEF CommitCreate, CommitDecline, CommitCancel, RefuseApprovalPin
  <2> QED BY <1>0, <2>1, <2>2, <2>3 DEF TypeOK
<1>7. CASE AcceptApproval(p)
  <2>1. HoldsRow(p)
    BY <1>7, ActionableRow DEF AcceptApproval
  <2>2. /\ Row(p).requester \in Wallets /\ Row(p).amount \in Nat
        /\ RequestKey[serving[p]] \in Keys \cup {NoKey}
    <3>1. serving[p] \in RequestIds
      BY <2>1 DEF HoldsRow, RInv, RequestsTypeOK, RequestIds
    <3> QED BY <2>1, <3>1, RowTyped, AmountsAssumption, RequestKeyAssumption
  <2>3. pc' \in [Workers -> PC]
    BY <1>0, <1>7, GotoTyped DEF AcceptApproval, PC
  <2>4. req' \in [Workers -> Request]
    <3>1. req' = [req EXCEPT ![p] = [req[p] EXCEPT !.dst = Row(p).requester,
                    !.amount = Row(p).amount, !.key = RequestKey[serving[p]]]]
      BY <1>0, <1>7 DEF TypeOK, AcceptApproval
    <3>2. [req[p] EXCEPT !.dst = Row(p).requester, !.amount = Row(p).amount,
             !.key = RequestKey[serving[p]]] \in Request
      <4>1. req[p] \in Request
        BY <1>0 DEF TypeOK
      <4> QED BY <2>2, <4>1 DEF Request
    <3> QED BY <1>0, <3>1, <3>2 DEF TypeOK
  <2>5. view' \in [Workers -> [src: Int, dst: Int]]
    BY <1>0, <1>7, <2>2 DEF TypeOK, AcceptApproval
  <2> QED BY <1>0, <1>7, <2>3, <2>4, <2>5 DEF TypeOK, AcceptApproval
<1>8. CASE ApproveReplay(p)
  <2>1. PICK i \in 1..Len(txns) :
          \/ AddAudit("REQUEST_APPROVED") /\ AnswerRequest(p, "approved", i)
          \/ AnswerRequest(p, "key_conflict", 0) /\ UNCHANGED audit
    BY <1>8 DEF ApproveReplay
  <2>2. pc' \in [Workers -> PC] /\ reply' \in [Workers -> [kind: ReplyKind, txn: Nat]]
    BY <1>0, <2>1, AnswerTyped DEF AnswerRequest, ReplyKind
  <2>3. audit' \in [AuditAction -> Nat]
    BY <1>0, <2>1, AuditTyped DEF TypeOK, AuditAction
  <2>4. UNCHANGED <<users, balance, txns, entries, lock, phoneLock, req, view, clock>>
    BY <1>8 DEF ApproveReplay
  <2> QED BY <1>0, <2>2, <2>3, <2>4 DEF TypeOK
<1>9. CASE ApproveRefused(p)
  <2>1. pc' \in [Workers -> PC] /\ reply' \in [Workers -> [kind: ReplyKind, txn: Nat]]
    BY <1>0, <1>9, AnswerTyped DEF ApproveRefused, AnswerRequest, ReplyKind
  <2> QED BY <1>0, <1>9, <2>1, ReleaseTyped DEF TypeOK, ApproveRefused
<1>10. CASE CommitApproval(p)
  <2>1. pc[p] = "commit" /\ CommitRows(p)
    BY <1>10 DEF CommitApproval
  <2>2. req[p].user \in Accounts /\ req[p].amount \in Nat \ {0}
    BY <2>1, PartiesDiffer DEF RInv, Base, Engaged
  <2>3. /\ balance' \in [Wallets -> Int]
        /\ txns' \in Seq(Transaction)
        /\ entries' \in [Wallets -> Seq(LedgerEntry)]
    BY <1>0, <2>1, <2>2, CommitTyped
  <2>4. pc' \in [Workers -> PC] /\ reply' \in [Workers -> [kind: ReplyKind, txn: Nat]]
    <3>1. Len(txns) + 1 \in Nat
      BY <1>0 DEF TypeOK
    <3> QED BY <1>0, <1>10, <3>1, AnswerTyped DEF CommitApproval, AnswerRequest, ReplyKind
  <2>5. audit' \in [AuditAction -> Nat]
    <3>1. audit' = [audit EXCEPT !["TRANSFER_COMPLETED"] = @ + 1, !["REQUEST_APPROVED"] = @ + 1]
      BY <1>10 DEF CommitApproval
    <3>2. {"TRANSFER_COMPLETED", "REQUEST_APPROVED"} \subseteq AuditAction
          /\ audit \in [AuditAction -> Nat]
      BY <1>0 DEF TypeOK, AuditAction
    <3>3. audit' = [x \in AuditAction |->
            IF x \in {"TRANSFER_COMPLETED", "REQUEST_APPROVED"} THEN audit[x] + 1 ELSE audit[x]]
      BY <3>1, <3>2
    <3> QED BY <3>2, <3>3
  <2> QED BY <1>0, <1>10, <2>3, <2>4, <2>5, ReleaseTyped DEF TypeOK, CommitApproval
<1> QED BY <1>1, <1>2, <1>3, <1>4, <1>5, <1>6, <1>7, <1>8, <1>9, <1>10
        DEF OwnStep, StartRequest

LEMMA OwnShape ==
  ASSUME RInv, NEW p \in Workers, OwnStep(p)
  PROVE  RequestShape'
<1> USE DEF tables
<1>0. TypeOK /\ RequestShape /\ Alone(p)
  BY OwnAlone DEF RInv, Base
<1>1. CASE StartRequest(p)
  <2>1. PICK a \in Accounts :
          /\ pc[p] = "idle" /\ pc'[p] \in {"create_request", "lock_request"}
          /\ users[a] = "active" /\ UNCHANGED <<users, reply>>
          /\ req'[p].op \in {"create"} \cup Verbs /\ req'[p].user = a /\ req'[p].src = a
    <3>1. ASSUME NEW a \in Accounts, NEW b \in Accounts, NEW m \in Amounts, BeginCreate(p, a, b, m)
          PROVE  /\ pc[p] = "idle" /\ pc'[p] = "create_request"
                 /\ users[a] = "active" /\ UNCHANGED <<users, reply>>
                 /\ req'[p].op = "create" /\ req'[p].user = a /\ req'[p].src = a
      BY <1>0, <3>1 DEF BeginCreate, Begin, Goto, TypeOK
    <3>2. ASSUME NEW v \in Verbs, NEW a \in Accounts, NEW i \in 0..Len(requests), BeginVerb(p, v, a, i)
          PROVE  /\ pc[p] = "idle" /\ pc'[p] = "lock_request"
                 /\ users[a] = "active" /\ UNCHANGED <<users, reply>>
                 /\ req'[p].op = v /\ req'[p].user = a /\ req'[p].src = a
      BY <1>0, <3>2 DEF BeginVerb, Begin, Goto, TypeOK
    <3> QED BY <1>1, <3>1, <3>2 DEF StartRequest
  <2>2. reply[p] = NoReply
    BY <1>0, <2>1 DEF RequestShape, Engaged, InTransfer
  <2>3. req'[p].op \notin {"send", "register"}
    BY <2>1 DEF Verbs
  <2> QED BY <1>0, <2>1, <2>2, <2>3, OutsideShape
<1>2. CASE \/ RefuseCreate(p) \/ CommitCreate(p) \/ RefuseStranger(p) \/ RefuseVerb(p)
           \/ CommitDecline(p) \/ CommitCancel(p) \/ RefuseApprovalPin(p) \/ RefuseRequester(p)
           \/ ApproveReplay(p) \/ ApproveRefused(p) \/ CommitApproval(p)
  <2>1. pc'[p] = "done" /\ UNCHANGED <<users, req>>
    BY <1>0, <1>2
       DEF TypeOK, RefuseCreate, CommitCreate, RefuseStranger, RefuseVerb, CommitDecline,
           CommitCancel, RefuseApprovalPin, RefuseRequester, ApproveReplay, ApproveRefused,
           CommitApproval, AnswerRequest, Answer, Goto
  <2>2. /\ pc[p] \in {"create_request", "lock_request", "check_request"} \/ req[p].op = "approve"
    BY <1>2
       DEF RefuseCreate, CommitCreate, RefuseStranger, RefuseVerb, CommitDecline,
           CommitCancel, RefuseApprovalPin, RefuseRequester, ApproveReplay, ApproveRefused,
           CommitApproval, Actionable
  <2>3. req[p].op \in {"create", "approve", "decline", "cancel"}
    BY <2>2 DEF RInv, Serving, Serves, Verbs
  <2>4. req[p].op = "approve" =>
          req[p].user \in Accounts /\ req[p].src = req[p].user /\ users[req[p].user] # "absent"
    BY <1>0 DEF RequestShape, Engaged, InTransfer
  <2> QED BY <1>0, <2>1, <2>3, <2>4, OutsideShape
<1>3. CASE LockRequest(p)
  <2>1. pc[p] = "lock_request" /\ pc'[p] = "check_request" /\ UNCHANGED <<users, req, reply>>
    BY <1>0, <1>3 DEF TypeOK, LockRequest, Goto
  <2>2. req[p].op \in Verbs
    BY <2>1 DEF RInv, Serving, Serves
  <2>3. /\ req[p].op = "approve" =>
             req[p].user \in Accounts /\ req[p].src = req[p].user /\ users[req[p].user] # "absent"
        /\ reply[p] = NoReply
    BY <1>0, <2>1 DEF RequestShape, Engaged, InTransfer
  <2> QED BY <1>0, <2>1, <2>2, <2>3, OutsideShape DEF Verbs
<1>4. CASE AcceptApproval(p)
  <2>1. /\ Actionable(p) /\ req[p].op = "approve" /\ users[Row(p).requester] = "active"
        /\ pc'[p] = "find_replay" /\ UNCHANGED <<users, reply>>
        /\ req'[p] = [req[p] EXCEPT !.dst = Row(p).requester, !.amount = Row(p).amount,
                        !.key = RequestKey[serving[p]]]
    BY <1>0, <1>4 DEF TypeOK, AcceptApproval, Goto
  <2>2. pc[p] = "check_request" /\ HoldsRow(p) /\ req[p].user = Row(p).payer
    BY <2>1, ActionableRow
  <2>3. /\ Row(p).requester \in Accounts /\ Row(p).amount \in Amounts
        /\ Row(p).requester # Row(p).payer
    BY <2>2, RowTyped
  <2>4. /\ req[p].user \in Accounts /\ req[p].src = req[p].user
        /\ users[req[p].user] # "absent" /\ reply[p] = NoReply
    BY <1>0, <2>1, <2>2 DEF RequestShape, Engaged, InTransfer
  <2>5. /\ req'[p].op = "approve" /\ req'[p].user = req[p].user /\ req'[p].src = req[p].src
        /\ req'[p].dst = Row(p).requester /\ req'[p].amount = Row(p).amount
    <3>1. req[p] \in Request
      BY <1>0 DEF TypeOK
    <3> QED BY <2>1, <3>1 DEF Request
  <2>6. /\ users' = users /\ pc'[p] = "find_replay" /\ reply'[p] = NoReply
        /\ req'[p].user \in Accounts /\ req'[p].src = req'[p].user
        /\ req'[p].dst \in Accounts /\ req'[p].amount \in Amounts /\ req'[p].dst # req'[p].src
        /\ users[req'[p].user] # "absent" /\ users[req'[p].dst] # "absent"
    BY <2>1, <2>2, <2>3, <2>4, <2>5
  <2> QED BY <1>0, <2>5, <2>6, ApprovalShape
<1> QED BY <1>1, <1>2, <1>3, <1>4 DEF OwnStep

\* Every step keeps what the money path rests on.
LEMMA OwnBase ==
  ASSUME RInv, NEW p \in Workers, OwnStep(p)
  PROVE  Base'
<1> USE DEF tables
<1>0. TypeOK' /\ RequestShape' /\ Base /\ TypeOK /\ Alone(p)
  BY OwnTyped, OwnShape, OwnAlone DEF RInv, Base
<1>1. CASE StartRequest(p)
  <2>1. ASSUME NEW a \in Accounts, NEW b \in Accounts, NEW m \in Amounts, BeginCreate(p, a, b, m)
        PROVE  Base'
    <3>1. pc[p] = "idle" /\ pc'[p] = "create_request" /\ UNCHANGED <<users, balance, txns, entries, locks>>
      BY <1>0, <2>1 DEF TypeOK, BeginCreate, Begin, Goto
    <3> QED BY <1>0, <3>1, OutsideStep
  <2>2. ASSUME NEW v \in Verbs, NEW a \in Accounts, NEW i \in 0..Len(requests), BeginVerb(p, v, a, i)
        PROVE  Base'
    <3>1. pc[p] = "idle" /\ pc'[p] = "lock_request" /\ UNCHANGED <<users, balance, txns, entries, locks>>
      BY <1>0, <2>2 DEF TypeOK, BeginVerb, Begin, Goto
    <3> QED BY <1>0, <3>1, OutsideStep
  <2> QED BY <1>1, <2>1, <2>2 DEF StartRequest
<1>2. CASE \/ RefuseCreate(p) \/ CommitCreate(p) \/ RefuseStranger(p) \/ LockRequest(p)
           \/ RefuseVerb(p) \/ CommitDecline(p) \/ CommitCancel(p) \/ RefuseApprovalPin(p)
           \/ RefuseRequester(p) \/ AcceptApproval(p) \/ ApproveReplay(p)
  <2>1. /\ pc[p] \in {"create_request", "lock_request", "check_request", "find_replay", "find_winner"}
        /\ pc'[p] \in {"check_request", "find_replay", "done"}
        /\ UNCHANGED <<users, balance, txns, entries, locks>>
    BY <1>0, <1>2
       DEF TypeOK, RefuseCreate, CommitCreate, RefuseStranger, LockRequest, RefuseVerb, CommitDecline,
           CommitCancel, RefuseApprovalPin, RefuseRequester, AcceptApproval, ApproveReplay,
           Actionable, AnswerRequest, Answer, Goto
  <2> QED BY <1>0, <2>1, OutsideStep
<1>3. CASE ApproveRefused(p) \/ CommitApproval(p)
  <2>1. /\ pc[p] \in {"post", "commit"} /\ pc'[p] = "done" /\ req[p].op = "approve"
        /\ ReleaseWallets(p) /\ UNCHANGED <<users, phoneLock, req>>
    BY <1>0, <1>3 DEF TypeOK, ApproveRefused, CommitApproval, AnswerRequest, Answer, Goto
  <2>2. LockDiscipline'
    <3>1. ASSUME NEW q \in Workers, q # p PROVE HoldsItsLocks(q)'
      BY <1>0, <2>1, <3>1, ReleaseKeepsOthers DEF Base, LockDiscipline, Alone
    <3>2. HoldsItsLocks(p)'
      BY <1>0, <2>1, WalletsReleased DEF Base, LockDiscipline, HoldsItsLocks, Engaged
    <3> QED BY <3>1, <3>2 DEF LockDiscipline
  <2>3. FreshView'
    <3>1. ASSUME NEW q \in Workers, q # p PROVE ViewIsFresh(q)'
      <4>1. CASE ApproveRefused(p)
        <5>1. UNCHANGED <<balance, txns>>
          BY <4>1 DEF ApproveRefused
        <5> QED BY <1>0, <3>1, <5>1, OtherViewIsFresh DEF Base, FreshView, Alone
      <4>2. CASE CommitApproval(p)
        <5>1. pc[p] = "commit" /\ CommitRows(p)
          BY <4>2 DEF CommitApproval
        <5> QED BY <1>0, <3>1, <5>1, CommitLeavesOthersFresh DEF Base, Alone
      <4> QED BY <1>3, <4>1, <4>2
    <3>2. ViewIsFresh(p)'
      BY <2>1 DEF ViewIsFresh
    <3> QED BY <3>1, <3>2 DEF FreshView
  <2> QED BY <1>0, <2>2, <2>3 DEF Base
<1> QED BY <1>1, <1>2, <1>3 DEF OwnStep

LEMMA BaseStep ==
  ASSUME RInv, [RequestsNext]_allvars
  PROVE  Base'
  BY StepKinds, StepBase, OwnBase DEF RInv

-----------------------------------------------------------------------------
(* What a step does to the rows of money_requests. *)

\* The other steps of a worker: those it shares with Transfers, and the end.
OtherStep(p) ==
  \/ NoReplay(p) \/ MoneyPath(p) \/ ApproveLosesToDuplicate(p)
  \/ TransferStep(p)
  \/ Start(p) /\ UNCHANGED rvars
  \/ ReplyRequest(p) \/ CrashRequest(p)

WorkerStep(p) == OwnStep(p) \/ OtherStep(p)

\* Time passes, an operator deactivates a user, or nothing happens.
OutsideWorld ==
  /\ UNCHANGED <<txns, pc, req, requests, requestLock, serving>>
  /\ \A i \in expired' : i \in expired \/ i \in RequestIds

LEMMA StepsOf ==
  ASSUME [RequestsNext]_allvars
  PROVE  OutsideWorld \/ \E p \in Workers : WorkerStep(p)
<1>1. ASSUME NEW i \in Expirable, Expire(i) PROVE OutsideWorld
  BY <1>1, ExpirableAssumption DEF Expire, OutsideWorld, vars, tables, session
<1>2. ASSUME NEW a \in Suspendable, Deactivate(a), UNCHANGED rvars PROVE OutsideWorld
  BY <1>2 DEF Deactivate, OutsideWorld, rvars, session
<1>3. CASE UNCHANGED <<vars, rvars>>
  BY <1>3 DEF OutsideWorld, vars, tables, session, rvars
<1>4. ASSUME NEW p \in Workers, RequestStep(p) PROVE WorkerStep(p)
  BY <1>4 DEF RequestStep, WorkerStep, OwnStep, OtherStep
<1> QED BY <1>1, <1>2, <1>3, <1>4
        DEF RequestsNext, Finished, WorkerStep, OwnStep, OtherStep, allvars

LEMMA WorkerAlone ==
  ASSUME TypeOK, NEW p \in Workers, WorkerStep(p)
  PROVE  Alone(p)
<1>1. OtherStep(p) => Start(p) \/ Step(p) \/ Crash(p)
  <2>1. NoReplay(p) => FindReplay(p)
    BY DEF NoReplay, FindReplay
  <2> QED BY <2>1 DEF OtherStep, MoneyPath, ApproveLosesToDuplicate, ReplyRequest, TransferStep,
                      CrashRequest, Step
<1> QED BY <1>1, OwnAlone, TransferAlone DEF WorkerStep

\* A commit that settles no request.
SameRows ==
  /\ requests' = requests
  /\ \/ txns' = txns
     \/ \E p \in Workers : pc[p] = "commit" /\ req[p].op # "approve" /\ CommitRows(p)

NewRow(p) ==
  /\ pc[p] = "create_request" /\ pc'[p] # "create_request"
  /\ txns' = txns /\ Len(requests) < MaxRequests
  /\ \E r \in MoneyRequest :
       /\ requests' = Append(requests, r)
       /\ r.status = "PENDING" /\ r.transaction = 0 /\ r.requester # r.payer

\* p decides about the row it holds: no, or yes with the payment n.
Closes(p) ==
  /\ HoldsRow(p) /\ Row(p).status = "PENDING"
  /\ txns' = txns
  /\ \E s \in {"DECLINED", "CANCELLED"} : Close(p, s)

Settles(p) ==
  /\ HoldsRow(p) /\ Row(p).status = "PENDING"
  /\ \/ txns' = txns
     \/ pc[p] = "commit" /\ CommitRows(p)
  /\ \E n \in 1..Len(txns') :
       /\ Approve(p, n) /\ Pays(txns'[n], serving[p], Row(p))
       /\ txns' = txns \/ n = Len(txns')

RowStep(p) == SameRows \/ NewRow(p) \/ Closes(p) \/ Settles(p)

LEMMA CreatingFinite == IsFiniteSet(Creating) /\ Cardinality(Creating) \in Nat
  BY WorkersAssumption, FS_Subset, FS_CardinalityType DEF Creating

\* A payment under the key of the request p serves, found by execute_transfer.
LEMMA FoundPays ==
  ASSUME RInv, NEW p \in Workers, NEW i \in 1..Len(txns),
         pc[p] \in {"find_replay", "find_winner"}, req[p].op = "approve",
         SameKey(txns[i], req[p].user, req[p].key), SameRequest(txns[i], req[p])
  PROVE  HoldsRow(p) /\ Row(p).status = "PENDING" /\ Pays(txns[i], serving[p], Row(p))
<1>1. /\ HoldsRow(p) /\ Row(p).status = "PENDING"
      /\ req[p].user = Row(p).payer /\ req[p].dst = Row(p).requester
      /\ req[p].amount = Row(p).amount /\ req[p].key = RequestKey[serving[p]]
  BY DEF RInv, Serving, Serves, InTransfer
<1>2. /\ txns[i].key = req[p].key /\ txns[i].initiated_by = req[p].user
      /\ txns[i].sender = req[p].user
  BY DEF SameKey, RInv, KeyedByPayer
<1> QED BY <1>1, <1>2 DEF SameRequest, Pays

\* And the one it commits itself.
LEMMA CommitPays ==
  ASSUME RInv, NEW p \in Workers, pc[p] = "commit", req[p].op = "approve", CommitRows(p)
  PROVE  /\ HoldsRow(p) /\ Row(p).status = "PENDING"
         /\ Len(txns) + 1 = Len(txns') /\ Len(txns') \in 1..Len(txns')
         /\ Pays(txns'[Len(txns')], serving[p], Row(p))
<1>1. /\ HoldsRow(p) /\ Row(p).status = "PENDING"
      /\ req[p].user = Row(p).payer /\ req[p].dst = Row(p).requester
      /\ req[p].amount = Row(p).amount /\ req[p].key = RequestKey[serving[p]]
  BY DEF RInv, Serving, Serves, InTransfer
<1>2. req[p].src = req[p].user
  BY PartiesDiffer DEF RInv, Base, Engaged
<1>3. Pays(NewTransaction(p), serving[p], Row(p))
  BY <1>1, <1>2 DEF NewTransaction, Pays
<1> QED BY <1>1, <1>3, CommitAppends DEF RInv

\* Only a call that holds the pending row of a request decides about it.
LEMMA RowSteps ==
  ASSUME RInv, NEW p \in Workers, WorkerStep(p)
  PROVE  RowStep(p)
<1> USE DEF tables
<1>1. ASSUME NEW a \in Accounts, NEW b \in Accounts, NEW m \in Amounts, BeginCreate(p, a, b, m)
      PROVE  SameRows
  BY <1>1 DEF BeginCreate, Begin, SameRows
<1>2. ASSUME NEW v \in Verbs, NEW a \in Accounts, NEW i \in 0..Len(requests), BeginVerb(p, v, a, i)
      PROVE  SameRows
  BY <1>2 DEF BeginVerb, Begin, SameRows
<1>3. CASE \/ RefuseCreate(p) \/ RefuseStranger(p) \/ LockRequest(p) \/ RefuseVerb(p)
           \/ RefuseApprovalPin(p) \/ RefuseRequester(p) \/ AcceptApproval(p) \/ ApproveRefused(p)
  BY <1>3 DEF RefuseCreate, RefuseStranger, LockRequest, RefuseVerb, RefuseApprovalPin,
              RefuseRequester, AcceptApproval, ApproveRefused, SameRows, RowStep, rvars
<1>4. CASE CommitCreate(p)
  <2>1. /\ txns' = txns /\ pc[p] = "create_request" /\ req[p].dst # req[p].user
        /\ requests' = Append(requests, Pending(req[p].user, req[p].dst, req[p].amount))
        /\ pc'[p] # "create_request"
    BY <1>4 DEF CommitCreate, Answer, Goto, RInv, Base, TypeOK
  <2>2. Pending(req[p].user, req[p].dst, req[p].amount) \in MoneyRequest
    BY <2>1 DEF RInv, Serving, Serves, Pending, MoneyRequest
  <2>3. Len(requests) < MaxRequests
    <3>1. Cardinality(Creating) # 0
      BY <2>1, CreatingFinite, FS_EmptySet DEF Creating
    <3>2. Len(requests) \in Nat /\ Len(requests) + Cardinality(Creating) <= MaxRequests
      BY DEF RInv, RequestsTypeOK, Bounded
    <3> QED BY <3>1, <3>2, CreatingFinite, MaxRequestsAssumption
  <2> QED BY <2>1, <2>2, <2>3 DEF NewRow, RowStep, Pending
<1>5. CASE CommitDecline(p) \/ CommitCancel(p)
  <2>1. HoldsRow(p) /\ Row(p).status = "PENDING"
    BY <1>5, ActionableRow DEF CommitDecline, CommitCancel
  <2> QED BY <1>5, <2>1 DEF CommitDecline, CommitCancel, Closes, RowStep
<1>6. CASE ApproveReplay(p)
  <2>1. PICK i \in 1..Len(txns) :
          /\ SameKey(txns[i], req[p].user, req[p].key)
          /\ \/ SameRequest(txns[i], req[p]) /\ Approve(p, i)
             \/ UNCHANGED requests
    BY <1>6 DEF ApproveReplay
  <2>2. /\ pc[p] \in {"find_replay", "find_winner"} /\ req[p].op = "approve" /\ txns' = txns
    BY <1>6 DEF ApproveReplay
  <2>3. CASE UNCHANGED requests
    BY <2>2, <2>3 DEF SameRows, RowStep
  <2>4. CASE SameRequest(txns[i], req[p]) /\ Approve(p, i)
    BY <2>1, <2>2, <2>4, FoundPays DEF Settles, RowStep
  <2> QED BY <2>1, <2>3, <2>4
<1>7. CASE CommitApproval(p)
  BY <1>7, CommitPays DEF CommitApproval, Settles, RowStep
<1>8. CASE OtherStep(p)
  <2>1. requests' = requests
    BY <1>8 DEF OtherStep, NoReplay, MoneyPath, ApproveLosesToDuplicate, TransferStep,
                ReplyRequest, CrashRequest, rvars
  <2>2. txns' = txns \/ (pc[p] = "commit" /\ req[p].op # "approve" /\ CommitRows(p))
    <3>1. CASE NoReplay(p) \/ MoneyPath(p) \/ ApproveLosesToDuplicate(p) \/ ReplyRequest(p) \/ CrashRequest(p)
      BY <3>1 DEF NoReplay, MoneyPath, ApproveLosesToDuplicate, ReplyRequest, CrashRequest,
                  LockFirst, LockSecond, PostDoubleEntry, LoseToDuplicate, Reply, Crash
    <3>2. CASE Start(p)
      BY <3>2 DEF Start, BeginSend, BeginRegister
    <3>3. CASE TransferStep(p)
      BY <3>3
         DEF TransferStep, Step, RefuseRecipient, RefusePin, AcceptPin, FindReplay, LockFirst, LockSecond,
             PostDoubleEntry, PostOverflows, RefuseInsufficient, CommitRefusal, LoseToDuplicate,
             ReturnWinner, CommitTransfer, InsertUser, CommitRegistration, Reply
    <3> QED BY <1>8, <3>1, <3>2, <3>3 DEF OtherStep
  <2> QED BY <2>1, <2>2 DEF SameRows, RowStep
<1> QED BY <1>1, <1>2, <1>3, <1>4, <1>5, <1>6, <1>7, <1>8
        DEF WorkerStep, OwnStep, StartRequest, RowStep

\* Rows are added at the end; the other rows stay as they are.
LEMMA RowsKept ==
  ASSUME RInv, NEW p \in Workers, RowStep(p)
  PROVE  /\ Len(requests) \in Nat /\ Len(requests') \in Nat /\ Len(requests) <= Len(requests')
         /\ \A i \in 1..Len(requests) :
              requests'[i] = requests[i] \/ (requestLock[i] = p /\ requests[i].status = "PENDING")
<1>0. requests \in Seq(MoneyRequest) /\ Len(requests) \in Nat
  BY DEF RInv, RequestsTypeOK
<1>1. CASE SameRows
  BY <1>0, <1>1 DEF SameRows
<1>2. CASE NewRow(p)
  BY <1>0, <1>2, AppendFacts DEF NewRow
<1>3. CASE Closes(p)
  BY <1>0, <1>3 DEF Closes, Close, HoldsRow, Row
<1>4. CASE Settles(p)
  BY <1>0, <1>4 DEF Settles, Approve, HoldsRow, Row
<1> QED BY <1>1, <1>2, <1>3, <1>4 DEF RowStep

-----------------------------------------------------------------------------
(* Who serves what. *)

\* What worker p's step leaves of the locks and paths of the others.
OthersLeft(p) ==
  /\ \A q \in Workers \ {p} : serving'[q] = serving[q]
  /\ \A i \in RequestIds, q \in Workers \ {p} : requestLock'[i] = q <=> requestLock[i] = q

LEMMA ReleaseLeaves ==
  ASSUME RequestsTypeOK, NEW p \in Workers, ReleaseRequest(p)
  PROVE  /\ \A i \in RequestIds, q \in Workers \ {p} : requestLock'[i] = q <=> requestLock[i] = q
         /\ \A i \in RequestIds : requestLock'[i] # p
         /\ requestLock' \in [RequestIds -> Workers \cup {Nobody}]
  BY NobodyAssumption DEF RequestsTypeOK, ReleaseRequest

\* The types of the row locks and of the paths, and what is left to the others.
LEMMA LocksOfStep ==
  ASSUME RInv, NEW p \in Workers, WorkerStep(p)
  PROVE  /\ requestLock' \in [RequestIds -> Workers \cup {Nobody}]
         /\ serving' \in [Workers -> RequestIds \cup {0}]
         /\ expired' = expired
         /\ OthersLeft(p)
<1>0. /\ requestLock \in [RequestIds -> Workers \cup {Nobody}]
      /\ serving \in [Workers -> RequestIds \cup {0}] /\ RequestsTypeOK
      /\ Len(requests) \in Nat /\ Len(requests) <= MaxRequests
  BY DEF RInv, RequestsTypeOK
<1>1. ASSUME NEW a \in Accounts, NEW b \in Accounts, NEW m \in Amounts, BeginCreate(p, a, b, m)
      PROVE  UNCHANGED <<requestLock, serving, expired>>
  BY <1>1 DEF BeginCreate, Begin
<1>2. ASSUME NEW v \in Verbs, NEW a \in Accounts, NEW i \in 0..Len(requests), BeginVerb(p, v, a, i)
      PROVE  /\ UNCHANGED <<requestLock, expired>>
             /\ serving' \in [Workers -> RequestIds \cup {0}]
             /\ \A q \in Workers \ {p} : serving'[q] = serving[q]
  <2>1. i \in RequestIds \cup {0}
    BY <1>0, MaxRequestsAssumption DEF RequestIds
  <2> QED BY <1>0, <1>2, <2>1 DEF BeginVerb, Begin
<1>3. CASE RefuseCreate(p) \/ RefuseStranger(p) \/ CommitCreate(p) \/ AcceptApproval(p)
  BY <1>0, <1>3 DEF RefuseCreate, RefuseStranger, CommitCreate, AcceptApproval, rvars, OthersLeft
<1>4. CASE LockRequest(p)
  <2>1. /\ serving[p] \in RequestIds /\ requestLock[serving[p]] = Nobody
        /\ requestLock' = [requestLock EXCEPT ![serving[p]] = p]
        /\ UNCHANGED <<serving, expired>>
    BY <1>0, <1>4, MaxRequestsAssumption DEF LockRequest, IsParty, RequestIds
  <2> QED BY <1>0, <2>1, NobodyAssumption DEF OthersLeft
<1>5. CASE \/ RefuseVerb(p) \/ CommitDecline(p) \/ CommitCancel(p) \/ RefuseApprovalPin(p)
           \/ RefuseRequester(p) \/ ApproveReplay(p) \/ ApproveRefused(p) \/ CommitApproval(p)
  <2>1. ReleaseRequest(p) /\ UNCHANGED <<serving, expired>>
    BY <1>5 DEF RefuseVerb, CommitDecline, CommitCancel, RefuseApprovalPin, RefuseRequester,
                ApproveReplay, ApproveRefused, CommitApproval, AnswerRequest
  <2> QED BY <1>0, <2>1, ReleaseLeaves DEF OthersLeft
<1>6. CASE \/ NoReplay(p) \/ MoneyPath(p) \/ ApproveLosesToDuplicate(p) \/ TransferStep(p)
           \/ Start(p) /\ UNCHANGED rvars
  BY <1>0, <1>6 DEF NoReplay, MoneyPath, ApproveLosesToDuplicate, TransferStep, rvars, OthersLeft
<1>7. CASE ReplyRequest(p)
  BY <1>0, <1>7 DEF ReplyRequest, OthersLeft
<1>8. CASE CrashRequest(p)
  <2>1. ReleaseRequest(p) /\ serving' = [serving EXCEPT ![p] = 0] /\ UNCHANGED expired
    BY <1>8 DEF CrashRequest
  <2> QED BY <1>0, <2>1, ReleaseLeaves DEF OthersLeft
<1>9. CASE StartRequest(p)
  BY <1>0, <1>1, <1>2, <1>9 DEF StartRequest, OthersLeft
<1> QED BY <1>3, <1>4, <1>5, <1>6, <1>7, <1>8, <1>9 DEF WorkerStep, OwnStep, OtherStep

\* The step of one worker does not disturb what another serves.
LEMMA OthersServe ==
  ASSUME RInv, NEW p \in Workers, NEW q \in Workers \ {p}, WorkerStep(p)
  PROVE  Serves(q)'
<1>1. pc'[q] = pc[q] /\ req'[q] = req[q]
  BY WorkerAlone DEF RInv, Base, Alone
<1>2. /\ serving'[q] = serving[q]
      /\ \A i \in RequestIds : requestLock'[i] = q <=> requestLock[i] = q
  BY LocksOfStep DEF OthersLeft
<1>3. /\ Len(requests) \in Nat /\ Len(requests') \in Nat /\ Len(requests) <= Len(requests')
      /\ \A i \in 1..Len(requests) : requests'[i] = requests[i] \/ requestLock[i] = p
  BY RowSteps, RowsKept
<1>4. Len(requests) <= MaxRequests
  BY DEF RInv, RequestsTypeOK
<1>5. HoldsRow(q) => HoldsRow(q)' /\ requests'[serving'[q]] = requests[serving[q]]
  BY <1>2, <1>3, <1>4, MaxRequestsAssumption DEF HoldsRow, RequestIds
<1>6. Serves(q)
  BY DEF RInv, Serving
<1> QED BY <1>1, <1>2, <1>5, <1>6 DEF Serves, Row

\* A worker without a row, outside the calls on requests.
LEMMA FreeServes ==
  ASSUME NEW p \in Workers, pc'[p] \notin {"create_request", "lock_request", "check_request"},
         pc'[p] \in InTransfer => req'[p].op # "approve",
         \A i \in RequestIds : requestLock'[i] # p
  PROVE  Serves(p)'
  BY DEF Serves

\* A worker outside the two points that hold a row holds none.
LEMMA HoldsNone ==
  ASSUME Serving, NEW p \in Workers, pc[p] # "check_request",
         pc[p] \notin InTransfer \/ req[p].op # "approve"
  PROVE  \A i \in RequestIds : requestLock[i] # p
  BY DEF Serving, Serves

\* Nor does its own step, which takes and gives back the row it decides about.
LEMMA OwnServes ==
  ASSUME RInv, NEW p \in Workers, WorkerStep(p)
  PROVE  Serves(p)'
<1> USE DEF tables
<1>0. /\ TypeOK /\ RequestShape /\ Serving /\ Serves(p)
      /\ requestLock \in [RequestIds -> Workers \cup {Nobody}]
      /\ serving \in [Workers -> RequestIds \cup {0}] /\ RequestsTypeOK
      /\ pc \in [Workers -> PC] /\ req \in [Workers -> Request]
      /\ reply \in [Workers -> [kind: ReplyKind, txn: Nat]]
      /\ Len(requests) \in Nat /\ Len(requests) <= MaxRequests
  <2>1. TypeOK /\ RequestShape /\ Serving /\ RequestsTypeOK
    BY DEF RInv, Base
  <2>2. /\ pc \in [Workers -> PC] /\ req \in [Workers -> Request]
        /\ reply \in [Workers -> [kind: ReplyKind, txn: Nat]]
    BY <2>1 DEF TypeOK
  <2>3. /\ requestLock \in [RequestIds -> Workers \cup {Nobody}]
        /\ serving \in [Workers -> RequestIds \cup {0}]
        /\ Len(requests) \in Nat /\ Len(requests) <= MaxRequests
    BY <2>1 DEF RequestsTypeOK
  <2>4. Serves(p)
    BY <2>1 DEF Serving
  <2> QED BY <2>1, <2>2, <2>3, <2>4
<1>1. ASSUME NEW a \in Accounts, NEW b \in Accounts, NEW m \in Amounts, BeginCreate(p, a, b, m)
      PROVE  Serves(p)'
  <2>1. /\ pc[p] = "idle" /\ pc'[p] = "create_request" /\ UNCHANGED requestLock
        /\ req'[p] = [op |-> "create", user |-> a, src |-> a, dst |-> b, amount |-> m,
                      key |-> NoKey, start |-> clock + 1]
    BY <1>0, <1>1 DEF BeginCreate, Begin, Goto
  <2>2. \A i \in RequestIds : requestLock'[i] # p
    BY <1>0, <2>1, HoldsNone DEF InTransfer
  <2> QED BY <2>1, <2>2 DEF Serves, InTransfer
<1>2. ASSUME NEW v \in Verbs, NEW a \in Accounts, NEW i \in 0..Len(requests), BeginVerb(p, v, a, i)
      PROVE  Serves(p)'
  <2>1. /\ pc[p] = "idle" /\ pc'[p] = "lock_request" /\ UNCHANGED requestLock
        /\ req'[p] = [op |-> v, user |-> a, src |-> a, dst |-> Mint, amount |-> 0,
                      key |-> NoKey, start |-> clock + 1]
    BY <1>0, <1>2 DEF BeginVerb, Begin, Goto
  <2>2. \A j \in RequestIds : requestLock'[j] # p
    BY <1>0, <2>1, HoldsNone DEF InTransfer
  <2> QED BY <2>1, <2>2 DEF Serves, InTransfer
<1>3. CASE RefuseCreate(p) \/ RefuseStranger(p) \/ CommitCreate(p)
  <2>1. /\ pc[p] \in {"create_request", "lock_request"} /\ pc'[p] = "done" /\ UNCHANGED requestLock
    BY <1>0, <1>3 DEF RefuseCreate, RefuseStranger, CommitCreate, Answer, Goto, rvars
  <2>2. \A j \in RequestIds : requestLock'[j] # p
    BY <1>0, <2>1, HoldsNone DEF InTransfer
  <2> QED BY <2>1, <2>2, FreeServes DEF InTransfer
<1>4. CASE LockRequest(p)
  <2>1. /\ pc[p] = "lock_request" /\ pc'[p] = "check_request"
        /\ serving[p] \in 1..Len(requests) /\ serving[p] \in RequestIds
        /\ requestLock' = [requestLock EXCEPT ![serving[p]] = p]
        /\ UNCHANGED <<req, requests, serving>>
    BY <1>0, <1>4, MaxRequestsAssumption DEF LockRequest, IsParty, Goto, RequestIds
  <2>2. \A j \in RequestIds : requestLock[j] # p
    BY <1>0, <2>1, HoldsNone DEF InTransfer
  <2>3. requestLock'[serving[p]] = p /\ \A j \in RequestIds : requestLock'[j] = p => j = serving[p]
    BY <1>0, <2>1, <2>2
  <2> QED BY <1>0, <2>1, <2>3 DEF Serves, HoldsRow, InTransfer
<1>5. CASE \/ RefuseVerb(p) \/ CommitDecline(p) \/ CommitCancel(p) \/ RefuseApprovalPin(p)
           \/ RefuseRequester(p) \/ ApproveReplay(p) \/ ApproveRefused(p) \/ CommitApproval(p)
  <2>1. ReleaseRequest(p) /\ pc'[p] = "done"
    BY <1>0, <1>5
       DEF RefuseVerb, CommitDecline, CommitCancel, RefuseApprovalPin, RefuseRequester,
           ApproveReplay, ApproveRefused, CommitApproval, AnswerRequest, Answer, Goto
  <2> QED BY <1>0, <2>1, ReleaseLeaves, FreeServes DEF InTransfer
<1>6. CASE AcceptApproval(p)
  <2>1. /\ Actionable(p) /\ req[p].op = "approve" /\ pc'[p] = "find_replay"
        /\ req'[p] = [req[p] EXCEPT !.dst = Row(p).requester, !.amount = Row(p).amount,
                        !.key = RequestKey[serving[p]]]
        /\ UNCHANGED <<requests, requestLock, serving>>
    BY <1>0, <1>6 DEF AcceptApproval, Goto, rvars
  <2>2. /\ pc[p] = "check_request" /\ HoldsRow(p) /\ Row(p).status = "PENDING"
        /\ req[p].user = Row(p).payer
    BY <2>1, ActionableRow
  <2>3. /\ req'[p].op = "approve" /\ req'[p].user = Row(p).payer /\ req'[p].dst = Row(p).requester
        /\ req'[p].amount = Row(p).amount /\ req'[p].key = RequestKey[serving[p]]
    <3>1. req[p] \in Request
      BY <1>0
    <3> QED BY <2>1, <2>2, <3>1 DEF Request
  <2> QED BY <1>0, <2>1, <2>2, <2>3 DEF Serves, HoldsRow, Row, InTransfer
<1>7. CASE NoReplay(p) \/ MoneyPath(p) \/ ApproveLosesToDuplicate(p)
  <2>1. /\ pc[p] \in InTransfer /\ req[p].op = "approve" /\ pc'[p] \in InTransfer
        /\ UNCHANGED <<req, requests, requestLock, serving>>
    BY <1>0, <1>7
       DEF NoReplay, MoneyPath, ApproveLosesToDuplicate, LockFirst, LockSecond, PostDoubleEntry,
           LoseToDuplicate, Goto, InTransfer, rvars
  <2> QED BY <1>0, <2>1 DEF Serves, HoldsRow, Row, InTransfer
<1>8. CASE TransferStep(p)
  <2>1. /\ req[p].op \in {"send", "register"} /\ pc[p] # "done" /\ Step(p)
        /\ UNCHANGED <<requests, requestLock, serving>>
    BY <1>8 DEF TransferStep, rvars
  <2>2. pc[p] # "check_request"
    BY <1>0, <2>1 DEF Serves, Verbs
  <2>3. \A j \in RequestIds : requestLock'[j] # p
    BY <1>0, <2>1, <2>2, HoldsNone
  <2>4. /\ pc'[p] \in InTransfer \cup {"done"} /\ req' = req
    <3>1. CASE RefuseRecipient(p) \/ RefusePin(p) \/ AcceptPin(p) \/ FindReplay(p) \/ LockFirst(p)
      BY <1>0, <3>1 DEF RefuseRecipient, RefusePin, AcceptPin, RecipientResolved, FindReplay,
                        AnswerWith, LockFirst, Answer, Goto, InTransfer
    <3>2. CASE LockSecond(p) \/ PostDoubleEntry(p) \/ PostOverflows(p) \/ RefuseInsufficient(p) \/ CommitRefusal(p)
      BY <1>0, <3>2 DEF LockSecond, PostDoubleEntry, PostOverflows, RefuseInsufficient,
                        CommitRefusal, Answer, Goto, InTransfer
    <3>3. CASE LoseToDuplicate(p) \/ ReturnWinner(p) \/ CommitTransfer(p) \/ InsertUser(p) \/ CommitRegistration(p)
      BY <1>0, <3>3 DEF LoseToDuplicate, ReturnWinner, AnswerWith, CommitTransfer, InsertUser,
                        CommitRegistration, Answer, Goto, InTransfer
    <3>4. ~Reply(p)
      BY <2>1 DEF Reply
    <3> QED BY <2>1, <3>1, <3>2, <3>3, <3>4 DEF Step
  <2>5. pc'[p] \notin {"create_request", "lock_request", "check_request"} /\ req'[p].op # "approve"
    BY <2>1, <2>4 DEF InTransfer
  <2> QED BY <2>3, <2>5, FreeServes
<1>9. CASE Start(p) /\ UNCHANGED rvars
  <2>1. /\ pc[p] = "idle" /\ pc'[p] \in {"resolve", "insert_user", "done"} /\ UNCHANGED requestLock
    BY <1>0, <1>9 DEF Start, BeginSend, BeginRegister, Answer, Goto, rvars
  <2>2. \A j \in RequestIds : requestLock'[j] # p
    BY <1>0, <2>1, HoldsNone DEF InTransfer
  <2> QED BY <2>1, <2>2, FreeServes DEF InTransfer
<1>10. CASE ReplyRequest(p)
  <2>1. /\ pc[p] = "done" /\ pc'[p] = "idle" /\ UNCHANGED requestLock
    BY <1>0, <1>10 DEF ReplyRequest, Reply, Forget, Goto
  <2>2. \A j \in RequestIds : requestLock'[j] # p
    BY <1>0, <2>1, HoldsNone DEF InTransfer
  <2> QED BY <2>1, <2>2, FreeServes DEF InTransfer
<1>11. CASE CrashRequest(p)
  <2>1. ReleaseRequest(p) /\ pc'[p] = "idle"
    BY <1>0, <1>11 DEF CrashRequest, Crash, Forget, Goto
  <2> QED BY <1>0, <2>1, ReleaseLeaves, FreeServes DEF InTransfer
<1> QED BY <1>1, <1>2, <1>3, <1>4, <1>5, <1>6, <1>7, <1>8, <1>9, <1>10, <1>11
        DEF WorkerStep, OwnStep, OtherStep, StartRequest

LEMMA ServingStep ==
  ASSUME RInv, [RequestsNext]_allvars
  PROVE  Serving'
<1>1. CASE OutsideWorld
  BY <1>1 DEF OutsideWorld, RInv, Serving, Serves, HoldsRow, Row
<1>2. ASSUME NEW p \in Workers, WorkerStep(p) PROVE Serving'
  BY <1>2, OwnServes, OthersServe DEF Serving
<1> QED BY <1>1, <1>2, StepsOf

-----------------------------------------------------------------------------
(* The bound on rows, and the rows themselves. *)

\* Only a call that saw room for its row is on its way to create one.
LEMMA OnItsWay ==
  ASSUME RInv, NEW p \in Workers, WorkerStep(p), pc'[p] = "create_request"
  PROVE  pc[p] = "idle" /\ Room /\ requests' = requests
<1>0. pc \in [Workers -> PC]
  BY DEF RInv, Base, TypeOK
<1>1. ASSUME NEW a \in Accounts, NEW b \in Accounts, NEW m \in Amounts, BeginCreate(p, a, b, m)
      PROVE  pc[p] = "idle" /\ Room /\ requests' = requests
  BY <1>1 DEF BeginCreate, Begin
<1>2. ASSUME NEW v \in Verbs, NEW a \in Accounts, NEW i \in 0..Len(requests), BeginVerb(p, v, a, i)
      PROVE  FALSE
  BY <1>0, <1>2 DEF BeginVerb, Begin, Goto
<1>3. ~(\/ RefuseCreate(p) \/ CommitCreate(p) \/ RefuseStranger(p) \/ LockRequest(p)
        \/ RefuseVerb(p) \/ CommitDecline(p) \/ CommitCancel(p) \/ RefuseApprovalPin(p)
        \/ RefuseRequester(p) \/ AcceptApproval(p) \/ ApproveReplay(p) \/ ApproveRefused(p)
        \/ CommitApproval(p))
  BY <1>0 DEF RefuseCreate, CommitCreate, RefuseStranger, LockRequest, RefuseVerb, CommitDecline,
              CommitCancel, RefuseApprovalPin, RefuseRequester, AcceptApproval, ApproveReplay,
              ApproveRefused, CommitApproval, AnswerRequest, Answer, Goto
<1>4. ~(NoReplay(p) \/ MoneyPath(p) \/ ApproveLosesToDuplicate(p) \/ ReplyRequest(p) \/ CrashRequest(p))
  BY <1>0 DEF NoReplay, MoneyPath, ApproveLosesToDuplicate, ReplyRequest, CrashRequest, LockFirst,
              LockSecond, PostDoubleEntry, LoseToDuplicate, Reply, Crash, Forget, Goto
<1>5. ~Start(p)
  BY <1>0 DEF Start, BeginSend, BeginRegister, Answer, Goto
<1>6. ~Step(p)
  <2>1. ~(RefuseRecipient(p) \/ RefusePin(p) \/ AcceptPin(p) \/ FindReplay(p) \/ LockFirst(p) \/ LockSecond(p))
    BY <1>0 DEF RefuseRecipient, RefusePin, AcceptPin, FindReplay, AnswerWith, LockFirst,
                LockSecond, Answer, Goto
  <2>2. ~(PostDoubleEntry(p) \/ PostOverflows(p) \/ RefuseInsufficient(p) \/ CommitRefusal(p))
    BY <1>0 DEF PostDoubleEntry, PostOverflows, RefuseInsufficient, CommitRefusal, Answer, Goto
  <2>3. ~(\/ LoseToDuplicate(p) \/ ReturnWinner(p) \/ CommitTransfer(p) \/ InsertUser(p)
          \/ CommitRegistration(p) \/ Reply(p))
    BY <1>0 DEF LoseToDuplicate, ReturnWinner, AnswerWith, CommitTransfer, InsertUser,
                CommitRegistration, Reply, Forget, Answer, Goto
  <2> QED BY <2>1, <2>2, <2>3 DEF Step
<1> QED BY <1>1, <1>2, <1>3, <1>4, <1>5, <1>6
        DEF WorkerStep, OwnStep, OtherStep, TransferStep, StartRequest

LEMMA BoundedStep ==
  ASSUME RInv, NEW p \in Workers, WorkerStep(p)
  PROVE  Bounded'
<1>0. /\ pc \in [Workers -> PC] /\ Bounded
      /\ requests \in Seq(MoneyRequest) /\ Len(requests) \in Nat
      /\ IsFiniteSet(Creating) /\ Cardinality(Creating) \in Nat /\ MaxRequests \in Nat
  BY CreatingFinite, MaxRequestsAssumption DEF RInv, Base, TypeOK, RequestsTypeOK
<1>1. Alone(p) /\ RowStep(p)
  BY WorkerAlone, RowSteps DEF RInv, Base
<1>2. CASE pc'[p] = "create_request"
  <2>1. pc[p] = "idle" /\ Room /\ requests' = requests
    BY <1>2, OnItsWay
  <2>2. Creating' = Creating \cup {p} /\ p \notin Creating
    BY <1>1, <1>2, <2>1 DEF Alone, Creating
  <2>3. Cardinality(Creating \cup {p}) = Cardinality(Creating) + 1
    BY <1>0, <2>2, FS_AddElement
  <2> QED BY <1>0, <2>1, <2>2, <2>3 DEF Bounded, Room
<1>3. CASE pc'[p] # "create_request" /\ NewRow(p)
  <2>1. Creating' = Creating \ {p} /\ p \in Creating
    BY <1>1, <1>3 DEF Alone, Creating, NewRow
  <2>2. Cardinality(Creating \ {p}) = Cardinality(Creating) - 1
    BY <1>0, <2>1, FS_RemoveElement
  <2>3. Len(requests') = Len(requests) + 1
    BY <1>0, <1>3, AppendFacts DEF NewRow
  <2> QED BY <1>0, <2>1, <2>2, <2>3 DEF Bounded
<1>4. CASE pc'[p] # "create_request" /\ ~NewRow(p)
  <2>1. Creating' \subseteq Creating
    BY <1>1, <1>4 DEF Alone, Creating
  <2>2. Cardinality(Creating') <= Cardinality(Creating) /\ Cardinality(Creating') \in Nat
    BY <1>0, <2>1, FS_Subset, FS_CardinalityType
  <2>3. Len(requests') = Len(requests)
    <3>1. SameRows => requests' = requests
      BY DEF SameRows
    <3>2. Closes(p) => Len(requests') = Len(requests)
      BY <1>0 DEF Closes, Close
    <3>3. Settles(p) => Len(requests') = Len(requests)
      BY <1>0 DEF Settles, Approve
    <3> QED BY <1>1, <1>4, <3>1, <3>2, <3>3 DEF RowStep
  <2> QED BY <1>0, <2>2, <2>3 DEF Bounded
<1> QED BY <1>2, <1>3, <1>4

-----------------------------------------------------------------------------
(* The ledger under calls on requests: an approval commits a payment, and    *)
(* the other calls write nothing.                                            *)

LEMMA OwnWrites ==
  ASSUME RInv, NEW p \in Workers, OwnStep(p)
  PROVE  Quiet \/ CommitPayment(p)
<1> USE DEF tables
<1>1. CASE CommitApproval(p)
  BY <1>1 DEF CommitApproval, CommitPayment
<1>2. CASE StartRequest(p)
  BY <1>2 DEF StartRequest, BeginCreate, BeginVerb, Begin, Quiet
<1>3. CASE \/ RefuseCreate(p) \/ CommitCreate(p) \/ RefuseStranger(p) \/ LockRequest(p)
           \/ RefuseVerb(p) \/ CommitDecline(p) \/ CommitCancel(p) \/ RefuseApprovalPin(p)
           \/ RefuseRequester(p) \/ AcceptApproval(p) \/ ApproveReplay(p) \/ ApproveRefused(p)
  BY <1>3 DEF RefuseCreate, CommitCreate, RefuseStranger, LockRequest, RefuseVerb, CommitDecline,
              CommitCancel, RefuseApprovalPin, RefuseRequester, AcceptApproval, ApproveReplay,
              ApproveRefused, Quiet
<1> QED BY <1>1, <1>2, <1>3 DEF OwnStep

LEMMA RequestWrites ==
  ASSUME RInv, [RequestsNext]_allvars
  PROVE  WriteStep /\ LedgerStep
<1>1. WriteStep
  BY StepKinds, OwnWrites, WriteSteps DEF RInv, WriteStep
<1> QED BY <1>1 DEF WriteStep, Quiet, CommitPayment, CommitGrant, LedgerStep

-----------------------------------------------------------------------------
(* Each request and its payment. *)

RowsOK ==
  /\ requests \in Seq(MoneyRequest) /\ Len(requests) <= MaxRequests
  /\ \A i \in 1..Len(requests) :
       /\ requests[i].requester # requests[i].payer
       /\ requests[i].transaction \in 0..Len(txns)
       /\ requests[i].status = "APPROVED" <=> requests[i].transaction # 0

Money == RowsOK /\ Linked /\ Settled

\* A row that did not change stays linked while transactions are only added.
LEMMA RowStaysLinked ==
  ASSUME Linked, Len(txns) \in Nat, Len(txns') \in Nat, Len(txns) <= Len(txns'),
         \A n \in 1..Len(txns) : txns'[n] = txns[n],
         NEW i \in Approved
  PROVE  /\ requests[i].transaction \in 1..Len(txns')
         /\ Pays(txns'[requests[i].transaction], i, requests[i])
<1>1. requests[i].transaction \in 1..Len(txns) /\ Pays(txns[requests[i].transaction], i, requests[i])
  BY DEF Linked
<1>2. txns'[requests[i].transaction] = txns[requests[i].transaction]
  BY <1>1
<1> QED BY <1>1, <1>2

LEMMA SameRowsMoney ==
  ASSUME RInv, Money, SameRows, LedgerStep
  PROVE  Money'
<1>0. /\ requests' = requests /\ Approved' = Approved
      /\ Len(txns) \in Nat /\ Len(txns') \in Nat /\ Len(txns) <= Len(txns')
      /\ \A n \in 1..Len(txns) : txns'[n] = txns[n]
  BY TransactionsStay DEF SameRows, Approved, RInv
<1>1. RowsOK'
  BY <1>0 DEF Money, RowsOK
<1>2. Linked'
  BY <1>0, RowStaysLinked DEF Money, Linked
<1>3. Settled'
  <2>1. ASSUME NEW n \in 1..Len(txns'), txns'[n].type = "REQUEST_SETTLEMENT" PROVE n \in 1..Len(txns)
    <3>1. CASE txns' = txns
      BY <3>1
    <3>2. ASSUME NEW p \in Workers, req[p].op # "approve", CommitRows(p) PROVE n \in 1..Len(txns)
      <4>1. NewTransaction(p).type # "REQUEST_SETTLEMENT"
        BY <3>2 DEF NewTransaction
      <4> QED BY <1>0, <2>1, <3>2, <4>1, CommitAppends DEF RInv
    <3> QED BY <3>1, <3>2 DEF SameRows
  <2> QED BY <1>0, <2>1 DEF Money, Settled
<1> QED BY <1>1, <1>2, <1>3 DEF Money

LEMMA NewRowMoney ==
  ASSUME RInv, Money, NEW p \in Workers, NewRow(p)
  PROVE  Money'
<1>0. /\ txns' = txns /\ Len(requests) < MaxRequests /\ requests \in Seq(MoneyRequest)
      /\ Len(requests) \in Nat /\ Len(txns) \in Nat
  BY DEF NewRow, Money, RowsOK, RInv, Base, TypeOK
<1>1. PICK r \in MoneyRequest :
        /\ requests' = Append(requests, r)
        /\ r.status = "PENDING" /\ r.transaction = 0 /\ r.requester # r.payer
  BY DEF NewRow
<1>2. /\ Len(requests') = Len(requests) + 1 /\ requests'[Len(requests) + 1] = r
      /\ \A i \in 1..Len(requests) : requests'[i] = requests[i]
      /\ requests' \in Seq(MoneyRequest)
  BY <1>0, <1>1, AppendFacts
<1>3. \A i \in 1..Len(requests') : i \in 1..Len(requests) \/ requests'[i] = r
  BY <1>0, <1>2
<1>4. Approved' = Approved /\ \A i \in Approved : i \in 1..Len(requests) /\ requests'[i] = requests[i]
  BY <1>0, <1>1, <1>2, <1>3 DEF Approved
<1>5. RowsOK'
  BY <1>0, <1>1, <1>2, <1>3, MaxRequestsAssumption DEF Money, RowsOK
<1>6. Linked'
  BY <1>0, <1>4 DEF Money, Linked
<1>7. Settled'
  BY <1>0, <1>4 DEF Money, Settled
<1> QED BY <1>5, <1>6, <1>7 DEF Money

LEMMA ClosesMoney ==
  ASSUME RInv, Money, NEW p \in Workers, Closes(p)
  PROVE  Money'
<1> DEFINE i == serving[p]
<1>0. /\ txns' = txns /\ requests \in Seq(MoneyRequest) /\ i \in 1..Len(requests)
      /\ Len(requests) \in Nat /\ requests[i].status = "PENDING" /\ Len(txns) \in Nat
  BY DEF Closes, Money, RowsOK, HoldsRow, Row, RInv, Base, TypeOK
<1>1. PICK s \in {"DECLINED", "CANCELLED"} : requests' = [requests EXCEPT ![i].status = s]
  BY DEF Closes, Close
<1>2. requests[i] \in MoneyRequest /\ requests[i].transaction = 0
  BY <1>0 DEF Money, RowsOK
<1> DEFINE row == [requests[i] EXCEPT !.status = s]
<1>3. /\ row \in MoneyRequest /\ row.status = s /\ row.transaction = 0
      /\ row.requester = requests[i].requester /\ row.payer = requests[i].payer
  BY <1>2 DEF MoneyRequest
<1>4. requests' = [requests EXCEPT ![i] = row]
  BY <1>0, <1>1
<1> HIDE DEF row, i
<1>5. /\ requests' \in Seq(MoneyRequest) /\ Len(requests') = Len(requests)
      /\ \A j \in 1..Len(requests) : j # i => requests'[j] = requests[j]
      /\ requests'[i] = row
  BY <1>0, <1>3, <1>4
<1>6. /\ requests'[i].status \in {"DECLINED", "CANCELLED"} /\ requests'[i].transaction = 0
      /\ requests'[i].requester = requests[i].requester /\ requests'[i].payer = requests[i].payer
  BY <1>3, <1>5
<1>7. Approved' = Approved /\ \A j \in Approved : j # i /\ requests'[j] = requests[j]
  BY <1>0, <1>5, <1>6 DEF Approved
<1>8. RowsOK'
  <2>1. ASSUME NEW j \in 1..Len(requests')
        PROVE  /\ requests'[j].requester # requests'[j].payer
               /\ requests'[j].transaction \in 0..Len(txns')
               /\ requests'[j].status = "APPROVED" <=> requests'[j].transaction # 0
    <3>1. CASE j = i
      BY <1>0, <1>6, <3>1 DEF Money, RowsOK
    <3>2. CASE j # i
      BY <1>0, <1>5, <2>1, <3>2 DEF Money, RowsOK
    <3> QED BY <3>1, <3>2
  <2>2. Len(requests') <= MaxRequests
    BY <1>5 DEF Money, RowsOK
  <2> QED BY <1>5, <2>1, <2>2 DEF RowsOK
<1>9. Linked'
  BY <1>0, <1>7 DEF Money, Linked
<1>10. Settled'
  BY <1>0, <1>7 DEF Money, Settled
<1> QED BY <1>8, <1>9, <1>10 DEF Money

LEMMA SettlesMoney ==
  ASSUME RInv, Money, NEW p \in Workers, Settles(p), LedgerStep
  PROVE  Money'
<1> DEFINE i == serving[p]
<1>0. /\ requests \in Seq(MoneyRequest) /\ i \in 1..Len(requests)
      /\ Len(requests) \in Nat /\ requests[i].status = "PENDING"
      /\ Len(txns) \in Nat /\ Len(txns') \in Nat /\ Len(txns) <= Len(txns')
      /\ \A n \in 1..Len(txns) : txns'[n] = txns[n]
  BY TransactionsStay DEF Settles, Money, RowsOK, HoldsRow, Row, RInv
<1>1. PICK n \in 1..Len(txns') :
        /\ requests' = [requests EXCEPT ![i].status = "APPROVED", ![i].transaction = n]
        /\ Pays(txns'[n], i, requests[i]) /\ (txns' = txns \/ n = Len(txns'))
  BY DEF Settles, Approve, Row
<1>2. requests[i] \in MoneyRequest /\ n \in Nat \ {0}
  BY <1>0 DEF Money, RowsOK
<1> DEFINE row == [requests[i] EXCEPT !.status = "APPROVED", !.transaction = n]
<1>3. /\ row \in MoneyRequest /\ row.status = "APPROVED" /\ row.transaction = n
      /\ row.requester = requests[i].requester /\ row.payer = requests[i].payer
      /\ row.amount = requests[i].amount
  BY <1>2 DEF MoneyRequest
<1>4. requests' = [requests EXCEPT ![i] = row]
  BY <1>0, <1>1
<1> HIDE DEF row, i
<1>5. /\ requests' \in Seq(MoneyRequest) /\ Len(requests') = Len(requests)
      /\ \A j \in 1..Len(requests) : j # i => requests'[j] = requests[j]
      /\ requests'[i] = row
  BY <1>0, <1>3, <1>4
<1>6. /\ requests'[i].status = "APPROVED" /\ requests'[i].transaction = n
      /\ requests'[i].requester = requests[i].requester /\ requests'[i].payer = requests[i].payer
      /\ requests'[i].amount = requests[i].amount
  BY <1>3, <1>5
<1>7. Approved' = Approved \cup {i} /\ \A j \in Approved : j # i /\ requests'[j] = requests[j]
  BY <1>0, <1>5, <1>6 DEF Approved
<1>8. RowsOK'
  BY <1>0, <1>1, <1>2, <1>5, <1>6 DEF Money, RowsOK
<1>9. Linked'
  <2>1. Pays(txns'[n], i, requests'[i])
    BY <1>1, <1>6 DEF Pays
  <2> QED BY <1>0, <1>6, <1>7, <2>1, RowStaysLinked DEF Money, Linked
<1>10. Settled'
  <2>1. ASSUME NEW m \in 1..Len(txns'), txns'[m].type = "REQUEST_SETTLEMENT"
        PROVE  \E j \in Approved' : requests'[j].transaction = m
    <3>1. CASE m = n
      BY <1>6, <1>7, <3>1
    <3>2. CASE m # n
      <4>1. m \in 1..Len(txns)
        <5>1. txns' = txns \/ Len(txns') = Len(txns) + 1
          BY CommitAppends DEF Settles, RInv
        <5> QED BY <1>0, <1>1, <3>2, <5>1
      <4> QED BY <1>0, <1>7, <2>1, <4>1 DEF Money, Settled
    <3> QED BY <3>1, <3>2
  <2> QED BY <2>1 DEF Settled
<1> QED BY <1>8, <1>9, <1>10 DEF Money

LEMMA MoneyStep ==
  ASSUME RInv, Money, [RequestsNext]_allvars
  PROVE  Money'
<1>1. LedgerStep
  BY RequestWrites
<1>2. CASE OutsideWorld
  BY <1>1, <1>2, SameRowsMoney DEF OutsideWorld, SameRows
<1>3. ASSUME NEW p \in Workers, WorkerStep(p) PROVE Money'
  BY <1>1, <1>3, RowSteps, SameRowsMoney, NewRowMoney, ClosesMoney, SettlesMoney DEF RowStep
<1> QED BY <1>2, <1>3, StepsOf

-----------------------------------------------------------------------------
(* The invariant. *)

LEMMA RowIn ==
  ASSUME NEW S, NEW s \in Seq(S), NEW i \in 1..Len(s)
  PROVE  s[i] \in S
  OBVIOUS

LEMMA InitRInv == RequestsInit => RInv
<1> SUFFICES ASSUME RequestsInit PROVE RInv
  OBVIOUS
<1>1. /\ Base /\ TypeOK /\ Init
      /\ requests = [i \in 1..Len(Asked) |->
                       Pending(Asked[i].requester, Asked[i].payer, Asked[i].amount)]
      /\ expired = {} /\ requestLock = [i \in RequestIds |-> Nobody]
      /\ serving = [p \in Workers |-> 0]
      /\ pc = [p \in Workers |-> "idle"]
  BY InitBase DEF RequestsInit, Base, Init
<1>2. KeyedByPayer
  BY <1>1, SeededRows DEF KeyedByPayer
<1>3. Len(Asked) \in Nat /\ Len(Asked) <= MaxRequests /\ Len(requests) = Len(Asked)
  BY <1>1, AskedAssumption
<1>4. ASSUME NEW i \in 1..Len(requests)
      PROVE  /\ requests[i] \in MoneyRequest /\ requests[i].requester # requests[i].payer
             /\ requests[i].transaction = 0 /\ requests[i].status = "PENDING"
  <2>1. /\ Asked[i] \in [requester: Accounts, payer: Accounts, amount: Amounts]
        /\ Asked[i].requester # Asked[i].payer
    <3>1. Asked \in Seq([requester: Accounts, payer: Accounts, amount: Amounts])
          /\ i \in 1..Len(Asked)
      BY <1>3, AskedAssumption
    <3>2. Asked[i] \in [requester: Accounts, payer: Accounts, amount: Amounts]
      BY <3>1, RowIn
    <3> QED BY <3>1, <3>2, AskedAssumption
  <2>2. requests[i] = Pending(Asked[i].requester, Asked[i].payer, Asked[i].amount)
    BY <1>1, <1>3
  <2> QED BY <2>1, <2>2 DEF Pending, MoneyRequest
<1>5. requests \in Seq(MoneyRequest)
  <2>1. requests = [i \in 1..Len(Asked) |-> requests[i]]
    BY <1>1
  <2>2. \A i \in 1..Len(Asked) : requests[i] \in MoneyRequest
    BY <1>3, <1>4
  <2> QED BY <1>3, <2>1, <2>2
<1>6. Len(txns) \in Nat /\ \A n \in 1..Len(txns) : txns[n].type = "SIGNUP_GRANT"
  BY <1>1, SeededRows
<1>7. RequestsTypeOK
  BY <1>1, <1>3, <1>4, <1>5, <1>6 DEF RequestsTypeOK
<1>8. Bounded
  <2>1. Creating = {}
    BY <1>1 DEF Creating
  <2> QED BY <1>3, <2>1, FS_EmptySet DEF Bounded
<1>9. Serving
  BY <1>1, NobodyAssumption DEF Serving, Serves, InTransfer
<1>10. Linked /\ Settled
  BY <1>4, <1>6 DEF Linked, Settled, Approved
<1> QED BY <1>1, <1>2, <1>7, <1>8, <1>9, <1>10 DEF RInv

LEMMA RInvStep == RInv /\ [RequestsNext]_allvars => RInv'
<1> SUFFICES ASSUME RInv, [RequestsNext]_allvars PROVE RInv'
  OBVIOUS
<1>1. Base' /\ Serving'
  BY BaseStep, ServingStep
<1>2. KeyedByPayer'
  BY RequestWrites, KeyedByPayerStep DEF RInv
<1>3. Money'
  BY MoneyStep DEF Money, RowsOK, RInv, RequestsTypeOK
<1>4. /\ requestLock' \in [RequestIds -> Workers \cup {Nobody}]
      /\ serving' \in [Workers -> RequestIds \cup {0}]
      /\ expired' \subseteq RequestIds
  <2>1. CASE OutsideWorld
    BY <2>1 DEF OutsideWorld, RInv, RequestsTypeOK
  <2>2. ASSUME NEW p \in Workers, WorkerStep(p)
        PROVE  /\ requestLock' \in [RequestIds -> Workers \cup {Nobody}]
               /\ serving' \in [Workers -> RequestIds \cup {0}]
               /\ expired' \subseteq RequestIds
    BY <2>2, LocksOfStep DEF RInv, RequestsTypeOK
  <2> QED BY <2>1, <2>2, StepsOf
<1>5. RequestsTypeOK'
  BY <1>1, <1>3, <1>4 DEF Base, Money, RowsOK, RequestsTypeOK
<1>6. Bounded'
  <2>1. CASE OutsideWorld
    BY <2>1 DEF OutsideWorld, RInv, Bounded, Creating
  <2> QED BY <2>1, BoundedStep, StepsOf
<1> QED BY <1>1, <1>2, <1>3, <1>5, <1>6 DEF RInv, Money

THEOREM RequestsInvariant == RequestsSpec => []RInv
<1>1. RequestsInit => RInv
  BY InitRInv
<1>2. RInv /\ [RequestsNext]_allvars => RInv'
  BY RInvStep
<1> QED BY <1>1, <1>2, PTL DEF RequestsSpec

\* Type correctness of the requests and of the money path under them.
THEOREM RequestsTyped == RequestsSpec => []RequestsTypeOK
<1>1. RInv => RequestsTypeOK
  BY DEF RInv
<1> QED BY <1>1, RequestsInvariant, PTL

-----------------------------------------------------------------------------
(* What the requests promise. *)

\* The money of a request moves exactly once and exactly with its approval,
\* however its approvals, declines, cancellations and crashes interleave.
THEOREM RequestsPaidOnce == RequestsSpec => []PaidOnce
<1>1. RInv => PaidOnce
  <2> SUFFICES ASSUME RInv PROVE PaidOnce
    OBVIOUS
  <2>1. \A i \in Approved : i \in RequestIds
    BY MaxRequestsAssumption DEF RInv, RequestsTypeOK, Approved, RequestIds
  <2>2. ASSUME NEW i \in Approved, NEW j \in Approved,
               requests[i].transaction = requests[j].transaction
        PROVE  i = j
    <3>1. RequestKey[i] = RequestKey[j]
      BY <2>2 DEF RInv, Linked, Pays
    <3> QED BY <2>1, <3>1, RequestKeyAssumption
  <2> QED BY <2>2 DEF RInv, Linked, Settled, Pays, PaidOnce
<1> QED BY <1>1, RequestsInvariant, PTL

\* What was decided about a request stays decided.
THEOREM RequestsDecidedOnce == RequestsSpec => DecidedOnce
<1>1. RInv /\ [RequestsNext]_allvars =>
        [\A i \in 1..Len(requests) :
           requests[i].status # "PENDING" => requests'[i] = requests[i]]_allvars
  <2> SUFFICES ASSUME RInv, [RequestsNext]_allvars, NEW i \in 1..Len(requests),
                      requests[i].status # "PENDING"
               PROVE  requests'[i] = requests[i]
    OBVIOUS
  <2>1. CASE OutsideWorld
    BY <2>1 DEF OutsideWorld
  <2>2. ASSUME NEW p \in Workers, WorkerStep(p) PROVE requests'[i] = requests[i]
    BY <2>2, RowSteps, RowsKept
  <2> QED BY <2>1, <2>2, StepsOf
<1> QED BY <1>1, RequestsInvariant, PTL DEF RequestsSpec, DecidedOnce

-----------------------------------------------------------------------------
(* Deadlock freedom. *)

LEMMA RequestsOrdered == RInv => RequestsWaitUpward
<1> SUFFICES ASSUME RInv, NEW p \in Workers, NEW q \in Workers, WaitsForRow(p, q)
             PROVE  /\ pc[p] # "post"
                    /\ \A r \in Workers : WaitsForRow(q, r) => Rank(p) < Rank(q)
  BY DEF RequestsWaitUpward
<1>1. /\ TypeOK /\ RequestShape /\ WaitsUpward
      /\ \A x \in Workers : HoldsItsLocks(x) /\ Serves(x)
  BY LocksOrdered DEF RInv, Base, LockDiscipline, Serving
<1>2. CASE WaitsFor(p, q)
  <2>1. pc[p] # "post"
    BY <1>1, <1>2 DEF WaitsUpward
  <2>2. pc[p] \in {"lock_low", "lock_high", "insert_user"}
    BY <1>2, <2>1 DEF WaitsFor
  <2>3. pc[q] # "lock_request"
    <3>1. CASE pc[p] = "insert_user"
      <4>1. req[p].user \in Accounts /\ phoneLock[req[p].user] = q
        BY <1>1, <1>2, <3>1, OpOf DEF WaitsFor
      <4> QED BY <1>1, <4>1 DEF HoldsItsLocks, Engaged
    <3>2. CASE pc[p] \in {"lock_low", "lock_high"}
      <4>1. FirstLock(p) \in Wallets /\ SecondLock(p) \in Wallets
        BY <1>1, <3>2, PartiesDiffer DEF Engaged, FirstLock, SecondLock
      <4> QED BY <1>1, <1>2, <3>2, <4>1 DEF WaitsFor, HoldsItsLocks
    <3> QED BY <2>2, <3>1, <3>2
  <2>4. ASSUME NEW r \in Workers, WaitsForRow(q, r) PROVE Rank(p) < Rank(q)
    <3>1. WaitsFor(q, r)
      BY <2>3, <2>4 DEF WaitsForRow
    <3>2. WaitRank(p) < WaitRank(q)
      BY <1>1, <1>2, <3>1 DEF WaitsUpward
    <3> QED BY <2>2, <2>3, <3>2 DEF Rank
  <2> QED BY <2>1, <2>4
<1>3. CASE pc[p] = "lock_request" /\ IsParty(p) /\ requestLock[serving[p]] = q
  <2>1. serving[p] \in RequestIds
    BY <1>3, MaxRequestsAssumption DEF IsParty, RequestIds, RInv, RequestsTypeOK
  <2>2. pc[q] # "lock_request"
    BY <1>1, <1>3, <2>1 DEF Serves, InTransfer
  <2>3. WaitRank(q) \in Int /\ -1 <= WaitRank(q)
    <3>0. \A w \in Wallets : w \in Nat
      BY AccountsAssumption DEF Wallets, Mint
    <3>1. Engaged(q) => FirstLock(q) \in Nat /\ SecondLock(q) \in Nat
      BY <1>1, <3>0, PartiesDiffer DEF FirstLock, SecondLock
    <3> QED BY <3>1 DEF WaitRank, Engaged
  <2> QED BY <1>3, <2>2, <2>3 DEF Rank
<1> QED BY <1>2, <1>3 DEF WaitsForRow

\* No cycle of workers waiting for rows of requests, phones and wallets.
THEOREM RequestsLockOrder == RequestsSpec => []RequestsWaitUpward
  BY RequestsOrdered, RequestsInvariant, PTL

\* Among any workers there is one that waits for none of them.
NoneStuckOnRows ==
  \A S \in SUBSET Workers : IsFiniteSet(S) /\ S # {} =>
    \E p \in S : \A q \in S : ~WaitsForRow(p, q)

LEMMA RequestsOrderPreventsCycles == TypeOK /\ RequestsWaitUpward => NoneStuckOnRows
<1> SUFFICES ASSUME TypeOK, RequestsWaitUpward,
                    NEW S \in SUBSET Workers, IsFiniteSet(S), S # {},
                    \A p \in S : \E q \in S : WaitsForRow(p, q)
             PROVE  FALSE
  BY DEF NoneStuckOnRows
<1> DEFINE rank == [p \in S |-> Rank(p)]
<1>1. ASSUME NEW p \in S PROVE rank[p] \in Int
  <2>1. \A w \in Wallets : w \in Int
    BY AccountsAssumption DEF Wallets, Mint
  <2>2. pc[p] \in {"lock_request", "lock_low", "lock_high", "insert_user", "post"}
    BY DEF WaitsForRow, WaitsFor
  <2>3. req[p].src \in Int /\ req[p].dst \in Int
    BY <2>1 DEF TypeOK, Request
  <2> QED BY <2>2, <2>3 DEF Rank, WaitRank, FirstLock, SecondLock
<1>2. \A p \in S : rank[p] = Rank(p)
  OBVIOUS
<1> HIDE DEF rank
<1>3. PICK p \in S : \A q \in S : rank[q] <= rank[p]
  BY <1>1, Highest
<1>4. PICK q \in S : WaitsForRow(p, q)
  OBVIOUS
<1>5. PICK r \in S : WaitsForRow(q, r)
  OBVIOUS
<1>6. rank[p] < rank[q] /\ rank[q] <= rank[p]
  BY <1>2, <1>3, <1>4, <1>5 DEF RequestsWaitUpward
<1> QED BY <1>1, <1>6

\* Approvals, the other verbs, transfers and registrations never deadlock: no
\* group of workers waits for nothing but each other's rows.
THEOREM RequestsDeadlockFree == RequestsSpec => []NoneStuckOnRows
<1>1. RInv => NoneStuckOnRows
  BY RequestsOrdered, RequestsOrderPreventsCycles DEF RInv, Base
<1> QED BY <1>1, RequestsInvariant, PTL

-----------------------------------------------------------------------------
(* The money path keeps its promises while requests are approved. *)

\* What an approval computes with is the committed row, too.
THEOREM RequestsFreshView == RequestsSpec => []FreshView
<1>1. RInv => FreshView
  BY DEF RInv, Base
<1> QED BY <1>1, RequestsInvariant, PTL

\* No approval overdraws its payer.
THEOREM RequestsSolvent == RequestsSpec => []Solvent
<1>1. RequestsInit => Solvent
  BY SolventInit DEF RequestsInit
<1>2. RInv /\ Solvent /\ [RequestsNext]_allvars => Solvent'
  BY SolventStep, RequestWrites DEF RInv
<1> QED BY <1>1, <1>2, RequestsInvariant, PTL DEF RequestsSpec

\* The entries of a settlement extend the chains of its two wallets.
THEOREM RequestsChained == RequestsSpec => []Chained
<1>1. RequestsInit => Chained
  BY ChainedInit DEF RequestsInit
<1>2. RInv /\ Chained /\ [RequestsNext]_allvars => Chained'
  BY ChainedStep, RequestWrites DEF RInv
<1> QED BY <1>1, <1>2, RequestsInvariant, PTL DEF RequestsSpec

\* A settlement has its debit and its credit, and nothing else is posted.
THEOREM RequestsDoubleEntry == RequestsSpec => []DoubleEntry
<1>1. RequestsInit => DoubleEntry
  BY DoubleEntryInit DEF RequestsInit
<1>2. RInv /\ DoubleEntry /\ [RequestsNext]_allvars => DoubleEntry'
  BY DoubleEntryStep, RequestWrites DEF RInv
<1> QED BY <1>1, <1>2, RequestsInvariant, PTL DEF RequestsSpec

\* No key is used twice, the keys of requests included.
THEOREM RequestsOncePerKey == RequestsSpec => []OncePerKey
<1>1. RequestsInit => OncePerKey
  BY OncePerKeyInit DEF RequestsInit
<1>2. RInv /\ OncePerKey /\ [RequestsNext]_allvars => OncePerKey'
  BY OncePerKeyStep, RequestWrites DEF RInv
<1> QED BY <1>1, <1>2, RequestsInvariant, PTL DEF RequestsSpec

\* Approvals, which are not transfers, never answer for one.
LEMMA OwnAnswers ==
  ASSUME RInv, AnswersTheRequest, NEW p \in Workers, OwnStep(p)
  PROVE  AnswersTheRequest'
<1>0. /\ reply \in [Workers -> [kind: ReplyKind, txn: Nat]] /\ pc \in [Workers -> PC]
      /\ pc[p] # "done" => reply[p] = NoReply
      /\ TypeOK
  BY DEF RInv, Base, TypeOK, RequestShape
<1>1. reply'[p].kind \notin {"completed", "replayed"}
  <2>1. CASE StartRequest(p) \/ LockRequest(p) \/ AcceptApproval(p)
    <3>1. pc[p] # "done" /\ reply' = reply
      BY <2>1 DEF StartRequest, BeginCreate, BeginVerb, Begin, LockRequest, AcceptApproval, Actionable
    <3> QED BY <1>0, <3>1 DEF NoReply
  <2>2. CASE RefuseCreate(p) \/ CommitCreate(p) \/ RefuseStranger(p) \/ RefuseVerb(p)
    BY <1>0, <2>2 DEF RefuseCreate, CommitCreate, RefuseStranger, RefuseVerb, AnswerRequest, Answer
  <2>3. CASE CommitDecline(p) \/ CommitCancel(p) \/ RefuseApprovalPin(p) \/ RefuseRequester(p)
    BY <1>0, <2>3 DEF CommitDecline, CommitCancel, RefuseApprovalPin, RefuseRequester,
                      AnswerRequest, Answer
  <2>4. CASE ApproveReplay(p) \/ ApproveRefused(p) \/ CommitApproval(p)
    BY <1>0, <2>4 DEF ApproveReplay, ApproveRefused, CommitApproval, AnswerRequest, Answer
  <2> QED BY <2>1, <2>2, <2>3, <2>4 DEF OwnStep
<1>2. LedgerStep
  BY OwnWrites DEF Quiet, CommitPayment, LedgerStep
<1>3. ASSUME NEW q \in Workers, q # p, reply'[q].kind \in {"completed", "replayed"}
      PROVE  /\ reply'[q].txn \in 1..Len(txns')
             /\ IsAnswerTo(txns'[reply'[q].txn], req'[q])
  <2>1. reply'[q] = reply[q] /\ req'[q] = req[q]
    BY <1>0, <1>3, OwnAlone DEF Alone
  <2>2. reply[q].txn \in 1..Len(txns) /\ IsAnswerTo(txns[reply[q].txn], req[q])
    BY <1>3, <2>1 DEF AnswersTheRequest, IsAnswerTo
  <2> QED BY <1>2, <2>1, <2>2, TransactionsStay DEF RInv
<1> QED BY <1>1, <1>3 DEF AnswersTheRequest, IsAnswerTo

\* A transfer's answer names that transfer, never the payment of a request.
THEOREM RequestsAnswers == RequestsSpec => []AnswersTheRequest
<1>1. RequestsInit => AnswersTheRequest
  BY AnswersInit DEF RequestsInit
<1>2. RInv /\ AnswersTheRequest /\ [RequestsNext]_allvars => AnswersTheRequest'
  BY AnswersStep, OwnAnswers, StepKinds DEF RInv
<1> QED BY <1>1, <1>2, RequestsInvariant, PTL DEF RequestsSpec

\* An approval is one indivisible transfer of AtomicLedger; the other calls on
\* requests are invisible in the ledger.
THEOREM RequestsRefinement == RequestsSpec => ImplementsAtomicLedger
<1>1. RequestsInit => Atomic!Init
  BY AtomicInit DEF RequestsInit
<1>2. RInv /\ [RequestsNext]_allvars => [Atomic!Next]_<<balance, Registered, KeyPairs>>
  BY AtomicStep, RequestWrites DEF RInv
<1>3. QED
  BY <1>1, <1>2, RequestsInvariant, PTL
     DEF RequestsSpec, ImplementsAtomicLedger, Atomic!Spec, Registered, KeyPairs

\* One user and one grant per phone, whatever requests are paid meanwhile.
THEOREM RequestsGrantOnce == RequestsSpec => []OneGrantPerUser
<1>1. RequestsInit => OneGrantPerUser
  BY OneGrantInit DEF RequestsInit
<1>2. RInv /\ OneGrantPerUser /\ [RequestsNext]_allvars => OneGrantPerUser'
  BY OneGrantStep, RequestWrites DEF RInv
<1> QED BY <1>1, <1>2, RequestsInvariant, PTL DEF RequestsSpec

-----------------------------------------------------------------------------
(* Payments fit. *)

LEMMA FundsInvariant == RequestsSpec => []Funds
<1>1. RequestsInit => Funds
  BY FundsInit DEF RequestsInit
<1>2. RInv /\ Funds /\ [RequestsNext]_allvars => Funds'
  BY FundsStep, RequestWrites DEF RInv
<1> QED BY <1>1, <1>2, RequestsInvariant, PTL DEF RequestsSpec

\* An approval that passes the balance check fits the payee's column: MoneyPath
\* is right to leave PostOverflows out.
THEOREM ApprovalsFit == RequestsSpec => []PaymentsFit
<1>1. RInv /\ Funds => PaymentsFit
  BY Fits DEF RInv
<1> QED BY <1>1, RequestsInvariant, FundsInvariant, PTL

\* The answers of a call on a request are not failures.
LEMMA OwnFailures ==
  ASSUME RInv, OnlyGrantsFail, NEW p \in Workers, OwnStep(p)
  PROVE  OnlyGrantsFail'
<1>0. /\ reply \in [Workers -> [kind: ReplyKind, txn: Nat]] /\ pc \in [Workers -> PC]
      /\ pc[p] # "done" => reply[p] = NoReply
      /\ TypeOK
  BY DEF RInv, Base, TypeOK, RequestShape
<1>1. reply'[p].kind # "error"
  <2>1. CASE StartRequest(p) \/ LockRequest(p) \/ AcceptApproval(p)
    <3>1. pc[p] # "done" /\ reply' = reply
      BY <2>1 DEF StartRequest, BeginCreate, BeginVerb, Begin, LockRequest, AcceptApproval, Actionable
    <3> QED BY <1>0, <3>1 DEF NoReply
  <2>2. CASE RefuseCreate(p) \/ CommitCreate(p) \/ RefuseStranger(p) \/ RefuseVerb(p)
    BY <1>0, <2>2 DEF RefuseCreate, CommitCreate, RefuseStranger, RefuseVerb, AnswerRequest, Answer
  <2>3. CASE CommitDecline(p) \/ CommitCancel(p) \/ RefuseApprovalPin(p) \/ RefuseRequester(p)
    BY <1>0, <2>3 DEF CommitDecline, CommitCancel, RefuseApprovalPin, RefuseRequester,
                      AnswerRequest, Answer
  <2>4. CASE ApproveReplay(p) \/ ApproveRefused(p) \/ CommitApproval(p)
    BY <1>0, <2>4 DEF ApproveReplay, ApproveRefused, CommitApproval, AnswerRequest, Answer
  <2> QED BY <2>1, <2>2, <2>3, <2>4 DEF OwnStep
<1>2. \A q \in Workers \ {p} : reply'[q] = reply[q] /\ req'[q] = req[q]
  BY <1>0, OwnAlone DEF Alone
<1> QED BY <1>1, <1>2 DEF OnlyGrantsFail

\* Transfers beside approvals are refused or fit, too.
THEOREM RequestsNeverFail == RequestsSpec => []OnlyGrantsFail
<1>1. RequestsInit => OnlyGrantsFail
  BY FailuresInit DEF RequestsInit
<1>2. RInv /\ Funds /\ OnlyGrantsFail /\ [RequestsNext]_allvars => OnlyGrantsFail'
  BY Fits, FailuresStep, OwnFailures, StepKinds DEF RInv
<1> QED BY <1>1, <1>2, RequestsInvariant, FundsInvariant, PTL DEF RequestsSpec

-----------------------------------------------------------------------------
(* What an operator sees. *)

\* The report stays green while requests are paid, declined and cancelled.
THEOREM RequestsReportGreen == RequestsSpec => []ReconcileGreen
<1>1. RequestsInit => ZeroSum
  BY ZeroSumInit DEF RequestsInit
<1>2. RInv /\ ZeroSum /\ [RequestsNext]_allvars => ZeroSum'
  BY ZeroSumStep, RequestWrites DEF RInv
<1>3. RInv /\ Chained /\ DoubleEntry /\ Solvent /\ ZeroSum => ReconcileGreen
  BY Green DEF RInv, Base
<1> QED BY <1>1, <1>2, <1>3, RequestsInvariant, RequestsChained, RequestsDoubleEntry,
           RequestsSolvent, PTL DEF RequestsSpec

\* No approval touches the mint: it still owes one grant per user.
THEOREM RequestsMintFunded == RequestsSpec => []MintFunded
<1>1. RequestsInit => Funded
  BY FundedInit DEF RequestsInit
<1>2. RInv /\ Funded /\ [RequestsNext]_allvars => Funded'
  BY FundedStep, RequestWrites DEF RInv
<1>3. Funded => MintFunded
  BY DEF Funded, MintFunded, Registered
<1> QED BY <1>1, <1>2, <1>3, RequestsInvariant, PTL DEF RequestsSpec

LEMMA OwnAudits ==
  ASSUME RInv, NEW p \in Workers, OwnStep(p)
  PROVE  AuditStep
<1>0. audit \in [AuditAction -> Nat]
  BY DEF RInv, Base, TypeOK
<1>1. CASE CommitApproval(p)
  BY <1>0, <1>1 DEF CommitApproval, AuditStep, AuditedCommit, AuditAction
<1>2. CASE StartRequest(p)
  BY <1>2 DEF StartRequest, BeginCreate, BeginVerb, Begin, AuditStep, AuditQuiet, tables
<1>3. CASE \/ CommitCreate(p) \/ CommitDecline(p) \/ CommitCancel(p) \/ RefuseApprovalPin(p)
           \/ ApproveReplay(p)
  BY <1>0, <1>3 DEF CommitCreate, CommitDecline, CommitCancel, RefuseApprovalPin, ApproveReplay,
              AddAudit, AuditStep, AuditQuiet, AuditAction
<1>4. CASE \/ RefuseCreate(p) \/ RefuseStranger(p) \/ LockRequest(p) \/ RefuseVerb(p)
           \/ RefuseRequester(p) \/ AcceptApproval(p) \/ ApproveRefused(p)
  BY <1>4 DEF RefuseCreate, RefuseStranger, LockRequest, RefuseVerb, RefuseRequester,
              AcceptApproval, ApproveRefused, AuditStep, AuditQuiet, tables
<1> QED BY <1>1, <1>2, <1>3, <1>4 DEF OwnStep

\* The audit row of a transfer is committed with it, also when the transfer pays
\* a request; an approval answered with an earlier transfer adds none.
THEOREM RequestsAudited == RequestsSpec => []AuditMatchesLedger
<1>1. RequestsInit => AuditMatchesLedger
  BY AuditInit DEF RequestsInit
<1>2. RInv /\ AuditMatchesLedger /\ [RequestsNext]_allvars => AuditMatchesLedger'
  <2> SUFFICES ASSUME RInv, AuditMatchesLedger, [RequestsNext]_allvars
               PROVE  AuditMatchesLedger'
    OBVIOUS
  <2>1. Base /\ AuditStep
    BY StepKinds, OwnAudits, AuditSteps DEF RInv
  <2> QED BY <2>1, AuditKept
<1> QED BY <1>1, <1>2, RequestsInvariant, PTL DEF RequestsSpec

=============================================================================
