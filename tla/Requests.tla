------------------------------ MODULE Requests ------------------------------
(***************************************************************************)
(* request_service over the money path: create_request, approve, decline   *)
(* and cancel, running together with transfers and registrations.  An      *)
(* approval locks the request row, then goes through execute_transfer with *)
(* commit=False, so the transfer and the status of the request commit      *)
(* together.                                                               *)
(*                                                                         *)
(* A row of money_requests is an element of the sequence `requests`; its   *)
(* index stands for its id.                                                *)
(***************************************************************************)
EXTENDS Transfers, FiniteSets

CONSTANTS
  MaxRequests,  \* bound: rows of money_requests
  Asked,        \* requests pending before the behaviour starts, in order
  RequestKey,   \* the key "request:<id>" of each request
  Expirable     \* bound: requests whose expires_at may pass

RequestIds == 1..MaxRequests

ASSUME WorkersAssumption == IsFiniteSet(Workers)
ASSUME MaxRequestsAssumption == MaxRequests \in Nat
ASSUME AskedAssumption ==
  /\ Asked \in Seq([requester: Accounts, payer: Accounts, amount: Amounts])
  /\ Len(Asked) <= MaxRequests
  /\ \A i \in 1..Len(Asked) :
       /\ Asked[i].requester # Asked[i].payer
       /\ {Asked[i].requester, Asked[i].payer} \subseteq SeededSet
ASSUME RequestKeyAssumption ==
  /\ RequestKey \in [RequestIds -> Keys]
  /\ \A i, j \in RequestIds : RequestKey[i] = RequestKey[j] => i = j
ASSUME ExpirableAssumption == Expirable \subseteq RequestIds

VARIABLES
  requests,     \* committed money_requests rows, in insertion order
  expired,      \* requests past their expires_at
  requestLock,  \* holder of each request row's FOR UPDATE lock
  serving       \* the id in the path of the call a worker serves

rvars == <<requests, expired, requestLock, serving>>
allvars == <<vars, rvars>>

\* transaction is the index of the transactions row, 0 for NULL.
MoneyRequest == [requester: Accounts, payer: Accounts, amount: Amounts,
                 status: {"PENDING", "APPROVED", "DECLINED", "CANCELLED"},
                 transaction: Nat]

Pending(requester, payer, amount) ==
  [requester |-> requester, payer |-> payer, amount |-> amount,
   status |-> "PENDING", transaction |-> 0]

RequestsTypeOK ==
  /\ TypeOK
  /\ requests \in Seq(MoneyRequest) /\ Len(requests) <= MaxRequests
  /\ \A i \in 1..Len(requests) :
       /\ requests[i].requester # requests[i].payer
       /\ requests[i].transaction \in 0..Len(txns)
       /\ requests[i].status = "APPROVED" <=> requests[i].transaction # 0
  /\ expired \subseteq RequestIds
  /\ requestLock \in [RequestIds -> Workers \cup {Nobody}]
  /\ serving \in [Workers -> RequestIds \cup {0}]

RequestsInit ==
  /\ Init
  /\ requests = [i \in 1..Len(Asked) |->
                   Pending(Asked[i].requester, Asked[i].payer, Asked[i].amount)]
  /\ expired = {}
  /\ requestLock = [i \in RequestIds |-> Nobody]
  /\ serving = [p \in Workers |-> 0]

-----------------------------------------------------------------------------
ReleaseRequest(p) ==
  requestLock' = [i \in RequestIds |-> IF requestLock[i] = p THEN Nobody ELSE requestLock[i]]

\* The end of a call on a request: its lock is dropped with the transaction.
AnswerRequest(p, kind, i) == Answer(p, kind, i) /\ ReleaseRequest(p)

Row(p) == requests[serving[p]]

\* The principal is checked, and its wallet read, as for a transfer.
Begin(p, l, op, a) ==
  /\ pc[p] = "idle" /\ clock < MaxStarts
  /\ users[a] = "active"
  /\ clock' = clock + 1
  /\ view' = [view EXCEPT ![p].src = balance[a]]
  /\ Goto(p, l)
  /\ UNCHANGED <<tables, locks, reply, requests, expired, requestLock>>

-----------------------------------------------------------------------------
(* POST /requests: create_request *)

\* Room for the rows of the calls in flight.
Creating == {q \in Workers : pc[q] = "create_request"}
Room == Len(requests) + Cardinality(Creating) < MaxRequests

BeginCreate(p, requester, payer, amount) ==
  /\ Room
  /\ Begin(p, "create_request", "create", requester)
  /\ req' = [req EXCEPT ![p] = [op |-> "create", user |-> requester, src |-> requester,
                dst |-> payer, amount |-> amount, key |-> NoKey, start |-> clock + 1]]
  /\ UNCHANGED serving

RefuseCreate(p) ==
  /\ pc[p] = "create_request"
  /\ \/ users[req[p].dst] # "active" /\ Answer(p, "recipient_not_found", 0)
     \/ /\ users[req[p].dst] = "active" /\ req[p].dst = req[p].user
        /\ Answer(p, "self_request", 0)
  /\ UNCHANGED <<tables, locks, req, view, clock, rvars>>

CommitCreate(p) ==
  /\ pc[p] = "create_request"
  /\ users[req[p].dst] = "active" /\ req[p].dst # req[p].user
  /\ requests' = Append(requests, Pending(req[p].user, req[p].dst, req[p].amount))
  /\ AddAudit("REQUEST_CREATED")
  /\ Answer(p, "created", 0)
  /\ UNCHANGED <<users, balance, txns, entries, locks, req, view, clock>>
  /\ UNCHANGED <<expired, requestLock, serving>>

-----------------------------------------------------------------------------
(* _lock_request and the checks the three verbs begin with *)

\* i = 0 is an id no request has.
BeginVerb(p, verb, a, i) ==
  /\ Begin(p, "lock_request", verb, a)
  /\ req' = [req EXCEPT ![p] = [op |-> verb, user |-> a, src |-> a, dst |-> Mint,
                amount |-> 0, key |-> NoKey, start |-> clock + 1]]
  /\ serving' = [serving EXCEPT ![p] = i]

\* The WHERE clause finds the row only for its two parties.
IsParty(p) ==
  /\ serving[p] \in 1..Len(requests)
  /\ req[p].user \in {Row(p).requester, Row(p).payer}

RefuseStranger(p) ==
  /\ pc[p] = "lock_request" /\ ~IsParty(p)
  /\ Answer(p, "request_not_found", 0)
  /\ UNCHANGED <<tables, locks, req, view, clock, rvars>>

\* mutant: the row is read without FOR UPDATE
LockRequest_Unlocked(p) ==
  /\ pc[p] = "lock_request" /\ IsParty(p)
  /\ Goto(p, "check_request")
  /\ UNCHANGED <<tables, locks, req, view, reply, clock, rvars>>

LockRequest(p) ==
  /\ pc[p] = "lock_request" /\ IsParty(p)
  /\ requestLock[serving[p]] = Nobody
  /\ requestLock' = [requestLock EXCEPT ![serving[p]] = p]
  /\ Goto(p, "check_request")
  /\ UNCHANGED <<tables, locks, req, view, reply, clock, requests, expired, serving>>

\* The payer approves and declines, the requester cancels.
RightParty(p) ==
  req[p].user = IF req[p].op = "cancel" THEN Row(p).requester ELSE Row(p).payer

\* effective_status: PENDING past its expiry reads as EXPIRED.
effective_status(p) ==
  IF Row(p).status = "PENDING" /\ serving[p] \in expired THEN "EXPIRED" ELSE Row(p).status

Actionable(p) ==
  pc[p] = "check_request" /\ RightParty(p) /\ effective_status(p) = "PENDING"

RefuseVerb(p) ==
  /\ pc[p] = "check_request" /\ ~Actionable(p)
  /\ AnswerRequest(p, IF ~RightParty(p) THEN "request_not_found"
                      ELSE IF effective_status(p) = "EXPIRED" THEN "request_expired"
                      ELSE "request_not_pending", 0)
  /\ UNCHANGED <<tables, locks, req, view, clock, requests, expired, serving>>

-----------------------------------------------------------------------------
(* decline and cancel *)

Close(p, status) == requests' = [requests EXCEPT ![serving[p]].status = status]

CommitDecline(p) ==
  /\ Actionable(p) /\ req[p].op = "decline"
  /\ Close(p, "DECLINED")
  /\ AddAudit("REQUEST_DECLINED")
  /\ AnswerRequest(p, "declined", 0)
  /\ UNCHANGED <<users, balance, txns, entries, locks, req, view, clock, expired, serving>>

CommitCancel(p) ==
  /\ Actionable(p) /\ req[p].op = "cancel"
  /\ Close(p, "CANCELLED")
  /\ AddAudit("REQUEST_CANCELLED")
  /\ AnswerRequest(p, "cancelled", 0)
  /\ UNCHANGED <<users, balance, txns, entries, locks, req, view, clock, expired, serving>>

-----------------------------------------------------------------------------
(* approve *)

RefuseApprovalPin(p) ==
  /\ Actionable(p) /\ req[p].op = "approve"
  /\ AddAudit("PIN_FAILED")
  /\ AnswerRequest(p, "invalid_pin", 0)
  /\ UNCHANGED <<users, balance, txns, entries, locks, req, view, clock>>
  /\ UNCHANGED <<requests, expired, serving>>

RefuseRequester(p) ==
  /\ Actionable(p) /\ req[p].op = "approve"
  /\ users[Row(p).requester] # "active"
  /\ AnswerRequest(p, "recipient_not_found", 0)
  /\ UNCHANGED <<tables, locks, req, view, clock, requests, expired, serving>>

\* The arguments of execute_transfer; the requester's wallet is loaded.
AcceptApproval(p) ==
  /\ Actionable(p) /\ req[p].op = "approve"
  /\ users[Row(p).requester] = "active"
  /\ req' = [req EXCEPT ![p].dst = Row(p).requester, ![p].amount = Row(p).amount,
                        ![p].key = RequestKey[serving[p]]]
  /\ view' = [view EXCEPT ![p].dst = balance[Row(p).requester]]
  /\ Goto(p, "find_replay")
  /\ UNCHANGED <<tables, locks, reply, clock, rvars>>

\* mutant: the link to the transaction is forgotten
Approve_Unlinked(p, i) == requests' = [requests EXCEPT ![serving[p]].status = "APPROVED"]
Approve(p, i) ==
  requests' = [requests EXCEPT ![serving[p]].status = "APPROVED",
                               ![serving[p]].transaction = i]

NoReplay(p) ==
  /\ pc[p] = "find_replay" /\ req[p].op = "approve"
  /\ ~Duplicate(p)
  /\ Goto(p, "lock_low")
  /\ UNCHANGED <<tables, locks, req, view, reply, clock, rvars>>

\* execute_transfer found a transaction of the payer under the key, before the
\* locks or after the insert failed on uq_idem: it is taken for the payment, or
\* its amount or payee differ and the call is refused.
ApproveReplay(p) ==
  /\ pc[p] \in {"find_replay", "find_winner"} /\ req[p].op = "approve"
  /\ \E i \in 1..Len(txns) :
       /\ SameKey(txns[i], req[p].user, req[p].key)
       /\ \/ /\ SameRequest(txns[i], req[p])
             /\ Approve(p, i) /\ AddAudit("REQUEST_APPROVED")
             /\ AnswerRequest(p, "approved", i)
          \/ /\ ~SameRequest(txns[i], req[p])
             /\ AnswerRequest(p, "key_conflict", 0)
             /\ UNCHANGED <<audit, requests>>
  /\ UNCHANGED <<users, balance, txns, entries, locks, req, view, clock, expired, serving>>

\* InsufficientFunds with commit=False: the refusal's audit row is added and
\* rolled back with everything else when the session closes.
ApproveRefused(p) ==
  /\ pc[p] = "post" /\ req[p].op = "approve" /\ Insufficient(p)
  /\ ReleaseWallets(p)
  /\ AnswerRequest(p, "insufficient_funds", 0)
  /\ UNCHANGED <<tables, phoneLock, req, view, clock, requests, expired, serving>>

\* The savepoint gives the wallets back, the request stays locked.
ApproveLosesToDuplicate(p) ==
  /\ req[p].op = "approve" /\ LoseToDuplicate(p)
  /\ UNCHANGED rvars

\* mutant: execute_transfer commits by itself, the status follows
CommitApproval_InTwo(p) ==
  /\ pc[p] = "commit" /\ req[p].op = "approve"
  /\ CommitRows(p)
  /\ AddAudit("TRANSFER_COMPLETED")
  /\ ReleaseWallets(p)
  /\ Goto(p, "find_winner")
  /\ UNCHANGED <<users, phoneLock, req, view, reply, clock, rvars>>

\* One commit for the transfer, the status and both audit rows.
CommitApproval(p) ==
  /\ pc[p] = "commit" /\ req[p].op = "approve"
  /\ CommitRows(p)
  /\ Approve(p, Len(txns) + 1)
  /\ audit' = [audit EXCEPT !["TRANSFER_COMPLETED"] = @ + 1, !["REQUEST_APPROVED"] = @ + 1]
  /\ ReleaseWallets(p)
  /\ AnswerRequest(p, "approved", Len(txns) + 1)
  /\ UNCHANGED <<users, phoneLock, req, view, clock, expired, serving>>

\* The wallet path of an approval is the one of a transfer.  PostOverflows is
\* not among its steps: what users own together never exceeds what the mint
\* gave, so only a grant can meet a full column (theorem ApprovalsFit).
MoneyPath(p) ==
  /\ req[p].op = "approve"
  /\ LockFirst(p) \/ LockSecond(p) \/ PostDoubleEntry(p)
  /\ UNCHANGED rvars

-----------------------------------------------------------------------------
(* The environment, and the handlers of Transfers beside these. *)

ReplyRequest(p) == Reply(p) /\ serving' = [serving EXCEPT ![p] = 0]
                   /\ UNCHANGED <<requests, expired, requestLock>>

CrashRequest(p) == Crash(p) /\ ReleaseRequest(p)
                   /\ serving' = [serving EXCEPT ![p] = 0]
                   /\ UNCHANGED <<requests, expired>>

Expire(i) ==
  /\ i \in 1..Len(requests) /\ i \notin expired
  /\ expired' = expired \cup {i}
  /\ UNCHANGED <<vars, requests, requestLock, serving>>

Verbs == {"approve", "decline", "cancel"}

StartRequest(p) ==
  \/ \E a, b \in Accounts, m \in Amounts : BeginCreate(p, a, b, m)
  \/ \E v \in Verbs, a \in Accounts, i \in 0..Len(requests) : BeginVerb(p, v, a, i)

RequestStep(p) ==
  \/ RefuseCreate(p) \/ CommitCreate(p)
  \/ RefuseStranger(p) \/ LockRequest(p) \/ RefuseVerb(p)
  \/ CommitDecline(p) \/ CommitCancel(p)
  \/ RefuseApprovalPin(p) \/ RefuseRequester(p) \/ AcceptApproval(p)
  \/ NoReplay(p) \/ ApproveReplay(p) \/ MoneyPath(p)
  \/ ApproveRefused(p) \/ ApproveLosesToDuplicate(p) \/ CommitApproval(p)
  \/ ReplyRequest(p)

TransferStep(p) ==
  /\ req[p].op \in {"send", "register"} /\ pc[p] # "done"
  /\ Step(p)
  /\ UNCHANGED rvars

RequestsNext ==
  \/ \E p \in Workers : StartRequest(p) \/ RequestStep(p) \/ TransferStep(p) \/ CrashRequest(p)
  \/ \E p \in Workers : Start(p) /\ UNCHANGED rvars
  \/ \E i \in Expirable : Expire(i)
  \/ \E a \in Suspendable : Deactivate(a) /\ UNCHANGED rvars
  \/ Finished /\ UNCHANGED rvars

RequestsSpec == RequestsInit /\ [][RequestsNext]_allvars

\* As in Transfers: the server runs every call it has accepted.
RequestsFairSpec ==
  RequestsSpec /\ \A p \in Workers : WF_allvars(RequestStep(p) \/ TransferStep(p))

-----------------------------------------------------------------------------
(* Correctness. *)

Approved == {i \in 1..Len(requests) : requests[i].status = "APPROVED"}

\* The money of a request moves exactly once and exactly with its approval:
\* an approved request names its own payment (payer, payee, amount), no two
\* name the same one, and every settlement in the ledger is named by a request.
\* So a declined, cancelled or still pending request was not settled, whatever
\* calls overlapped or died, and "there is no moment where the money has moved
\* but the request still looks payable" (approve_request).
PaidOnce ==
  /\ \A i \in Approved :
       LET t == txns[requests[i].transaction] IN
         t.sender = requests[i].payer /\ t.receiver = requests[i].requester
         /\ t.amount = requests[i].amount
  /\ \A i, j \in Approved : requests[i].transaction = requests[j].transaction => i = j
  /\ \A n \in 1..Len(txns) :
       txns[n].type = "REQUEST_SETTLEMENT" =>
         \E i \in Approved : requests[i].transaction = n

\* Approve, decline and cancel of one request overlap: one of them wins, and
\* what it decided is never changed by the ones that were on their way.
DecidedOnce ==
  [][\A i \in 1..Len(requests) :
       requests[i].status # "PENDING" => requests'[i] = requests[i]]_allvars

\* p cannot go on before the transaction of q ends.
WaitsForRow(p, q) ==
  \/ WaitsFor(p, q)
  \/ pc[p] = "lock_request" /\ IsParty(p) /\ requestLock[serving[p]] = q

Rank(p) == IF pc[p] = "lock_request" THEN -2 ELSE WaitRank(p)

\* The request row comes before the phone index and the wallets in the order
\* of locks: mutual approvals, approvals against transfers and against the
\* other verbs never close a cycle of waiting workers.
RequestsWaitUpward ==
  \A p, q \in Workers :
    WaitsForRow(p, q) =>
      /\ pc[p] # "post"
      /\ \A r \in Workers : WaitsForRow(q, r) => Rank(p) < Rank(q)

-----------------------------------------------------------------------------
(* A claim of the code's comments it does not keep. *)

\* "The savepoint rolled back; nothing was written.  Record the refusal."
\* (execute_transfer): whoever is answered insufficient_funds has left a
\* TRANSFER_REJECTED row.  An approval leaves none.
RefusalsAudited ==
  [][\A p \in Workers :
       reply'[p].kind = "insufficient_funds" /\ reply[p].kind = "none" =>
         audit'["TRANSFER_REJECTED"] = audit["TRANSFER_REJECTED"] + 1]_allvars

=============================================================================
