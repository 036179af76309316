----------------------------- MODULE Transfers -----------------------------
(***************************************************************************)
(* transfer_service.send_money / execute_transfer and                      *)
(* auth_service.register: concurrent requests that move money, with client *)
(* retries under one Idempotency-Key, workers that die at any point        *)
(* (their connection rolls back) and replies that are lost.                *)
(***************************************************************************)
EXTENDS Ledger

-----------------------------------------------------------------------------
(* POST /transfers *)

\* get_current_principal loads the sender and, eagerly, its wallet; the first
\* statement fixes now() for the whole transaction.  A client retry is a
\* second BeginSend with the same arguments.
BeginSend(p, sender, recipient, amount, key) ==
  /\ pc[p] = "idle" /\ clock < MaxStarts
  /\ users[sender] = "active"
  /\ clock' = clock + 1
  /\ req' = [req EXCEPT ![p] = [op |-> "send", user |-> sender, src |-> sender,
                dst |-> recipient, amount |-> amount, key |-> key, start |-> clock + 1]]
  /\ view' = [view EXCEPT ![p] = [src |-> balance[sender], dst |-> 0]]
  /\ Goto(p, "resolve")
  /\ UNCHANGED <<tables, locks, reply>>

\* resolve_recipient
RefuseRecipient(p) ==
  /\ pc[p] = "resolve"
  /\ \/ /\ users[req[p].dst] # "active"
        /\ Answer(p, "recipient_not_found", 0)
     \/ /\ users[req[p].dst] = "active" /\ req[p].dst = req[p].user
        /\ Answer(p, "self_transfer", 0)
  /\ UNCHANGED <<tables, locks, req, view, clock>>

RecipientResolved(p) ==
  /\ pc[p] = "resolve"
  /\ users[req[p].dst] = "active" /\ req[p].dst # req[p].user

\* verify_secret fails: the attempt is audited and committed, then refused.
RefusePin(p) ==
  /\ RecipientResolved(p)
  /\ AddAudit("PIN_FAILED")
  /\ Answer(p, "invalid_pin", 0)
  /\ UNCHANGED <<users, balance, txns, entries, locks, req, view, clock>>

AcceptPin(p) ==
  /\ RecipientResolved(p)
  /\ view' = [view EXCEPT ![p].dst = balance[req[p].dst]]
  /\ Goto(p, "find_replay")
  /\ UNCHANGED <<tables, locks, req, reply, clock>>

-----------------------------------------------------------------------------
(* execute_transfer *)

\* _assert_same_request
SameRequest_NoAmount(t, r) == t.receiver = r.dst \* mutant
SameRequest(t, r) == t.amount = r.amount /\ t.receiver = r.dst

\* _find_replay found txns[i]: return it, or refuse the key.
AnswerWith(p, i) ==
  Answer(p, IF SameRequest(txns[i], req[p]) THEN "replayed" ELSE "key_conflict",
         IF SameRequest(txns[i], req[p]) THEN i ELSE 0)

FindReplay(p) ==
  /\ pc[p] = "find_replay"
  /\ \/ \E i \in 1..Len(txns) :
          SameKey(txns[i], req[p].user, req[p].key) /\ AnswerWith(p, i)
     \/ ~Duplicate(p) /\ Goto(p, "lock_low") /\ UNCHANGED reply
  /\ UNCHANGED <<tables, locks, req, view, clock>>

\* mutant: no savepoint, so the wallets stay locked until the refusal commits
RefuseInsufficient_NoSavepoint(p) ==
  /\ pc[p] = "post" /\ Insufficient(p)
  /\ Goto(p, "reject")
  /\ UNCHANGED <<tables, locks, req, view, reply, clock>>

\* except InsufficientFunds: the savepoint is gone and with it the locks.
RefuseInsufficient(p) ==
  /\ pc[p] = "post" /\ Insufficient(p)
  /\ ReleaseWallets(p)
  /\ Goto(p, "reject")
  /\ UNCHANGED <<tables, phoneLock, req, view, reply, clock>>

CommitRefusal(p) ==
  /\ pc[p] = "reject"
  /\ AddAudit("TRANSFER_REJECTED")
  /\ Answer(p, "insufficient_funds", 0)
  /\ UNCHANGED <<users, balance, txns, entries, locks, req, view, clock>>

\* except IntegrityError with uq_idem: a concurrent duplicate committed first.
LoseToDuplicate(p) ==
  /\ pc[p] = "post" /\ ~Insufficient(p) /\ Duplicate(p)
  /\ ReleaseWallets(p)
  /\ Goto(p, "find_winner")
  /\ UNCHANGED <<tables, phoneLock, req, view, reply, clock>>

ReturnWinner(p) ==
  /\ pc[p] = "find_winner"
  /\ \E i \in 1..Len(txns) :
       SameKey(txns[i], req[p].user, req[p].key) /\ AnswerWith(p, i)
  /\ UNCHANGED <<tables, locks, req, view, clock>>

CommitTransfer(p) ==
  /\ pc[p] = "commit" /\ req[p].op = "send"
  /\ CommitRows(p)
  /\ AddAudit("TRANSFER_COMPLETED")
  /\ ReleaseWallets(p)
  /\ Answer(p, "completed", Len(txns) + 1)
  /\ UNCHANGED <<users, phoneLock, req, view, clock>>

-----------------------------------------------------------------------------
(* POST /auth/register *)

BeginRegister(p, a) ==
  /\ pc[p] = "idle" /\ clock < MaxStarts
  /\ clock' = clock + 1
  /\ req' = [req EXCEPT ![p] = [op |-> "register", user |-> a, src |-> Mint,
                dst |-> a, amount |-> SignupGrant, key |-> NoKey, start |-> clock + 1]]
  /\ \/ users[a] # "absent" /\ Answer(p, "phone_taken", 0)
     \/ users[a] = "absent" /\ Goto(p, "insert_user") /\ UNCHANGED reply
  /\ UNCHANGED <<tables, locks, view>>

PhoneTaken_Unchecked(p) == FALSE \* mutant: no unique index on phone
PhoneTaken(p) == users[req[p].user] # "absent"

\* The insert waits for an uncommitted insert of the same phone, then fails on
\* users_phone_key if that one committed.  The wallet row is inserted with it.
InsertUser(p) ==
  /\ pc[p] = "insert_user"
  /\ phoneLock[req[p].user] = Nobody
  /\ \/ /\ PhoneTaken(p)
        /\ Answer(p, "phone_taken", 0)
        /\ UNCHANGED phoneLock
     \/ /\ ~PhoneTaken(p)
        /\ phoneLock' = [phoneLock EXCEPT ![req[p].user] = p]
        /\ Goto(p, "lock_low")
        /\ UNCHANGED reply
  /\ UNCHANGED <<tables, lock, req, view, clock>>

CommitRegistration(p) ==
  /\ pc[p] = "commit" /\ req[p].op = "register"
  /\ CommitRows(p)
  /\ users' = [users EXCEPT ![req[p].user] = "active"]
  /\ AddAudit("REGISTERED")
  /\ ReleaseWallets(p) /\ ReleasePhone(p)
  /\ Answer(p, "registered", Len(txns) + 1)
  /\ UNCHANGED <<req, view, clock>>

-----------------------------------------------------------------------------
(* The environment. *)

Forget(p) ==
  /\ Goto(p, "idle")
  /\ req' = [req EXCEPT ![p] = NoRequest]
  /\ view' = [view EXCEPT ![p] = NoView]
  /\ reply' = [reply EXCEPT ![p] = NoReply]

\* The response reaches the client and get_db closes the session.
Reply(p) ==
  /\ pc[p] = "done"
  /\ Forget(p)
  /\ UNCHANGED <<tables, locks, clock>>

\* The worker or its connection dies: PostgreSQL rolls back what was not
\* committed; after the commit only the reply is lost.
Crash(p) ==
  /\ pc[p] # "idle"
  /\ ReleaseWallets(p) /\ ReleasePhone(p)
  /\ Forget(p)
  /\ UNCHANGED <<tables, clock>>

\* No service writes is_active; an operator does, in SQL.
Deactivate(a) ==
  /\ users[a] = "active"
  /\ users' = [users EXCEPT ![a] = "inactive"]
  /\ UNCHANGED <<balance, txns, entries, audit, locks, session, clock>>

Start(p) ==
  \/ \E s, r \in Accounts, m \in Amounts, k \in Keys \cup {NoKey} :
       BeginSend(p, s, r, m, k)
  \/ \E a \in Accounts : BeginRegister(p, a)

\* What the handler does by itself once started.
Step(p) ==
  \/ RefuseRecipient(p) \/ RefusePin(p) \/ AcceptPin(p) \/ FindReplay(p)
  \/ LockFirst(p) \/ LockSecond(p) \/ PostDoubleEntry(p) \/ PostOverflows(p)
  \/ RefuseInsufficient(p) \/ CommitRefusal(p)
  \/ LoseToDuplicate(p) \/ ReturnWinner(p)
  \/ CommitTransfer(p) \/ InsertUser(p) \/ CommitRegistration(p) \/ Reply(p)

\* The bound on requests is reached and every one of them was answered.
Finished ==
  /\ clock = MaxStarts /\ \A p \in Workers : pc[p] = "idle"
  /\ UNCHANGED vars

Next ==
  \/ \E p \in Workers : Start(p) \/ Step(p) \/ Crash(p)
  \/ \E a \in Suspendable : Deactivate(a)
  \/ Finished

Spec == Init /\ [][Next]_vars

\* The server runs every request it has accepted; it need not crash, and
\* clients need not send.
FairSpec == Spec /\ \A p \in Workers : WF_vars(Step(p))

-----------------------------------------------------------------------------
(* Correctness. *)

\* Workers inside lock_wallets .. commit.
Engaged(p) == pc[p] \in {"lock_low", "lock_high", "post", "commit"}

\* The points inside execute_transfer: for a transfer, and for an approval of a
\* money request.
InTransfer ==
  {"find_replay", "lock_low", "lock_high", "post", "commit", "reject", "find_winner"}

\* What the fields of a request say at each point of its handler.
RequestShape ==
  \A p \in Workers :
    /\ pc[p] # "done" => reply[p] = NoReply
    /\ pc[p] = "resolve" => req[p].op = "send"
    /\ pc[p] = "insert_user" => req[p].op = "register"
    /\ Engaged(p) => req[p].op \in {"send", "approve", "register"}
    /\ pc[p] \in {"find_replay", "reject", "find_winner"} => req[p].op \in {"send", "approve"}
    /\ req[p].op \in {"send", "approve"} =>
         /\ req[p].user \in Accounts /\ req[p].src = req[p].user
         /\ users[req[p].user] # "absent"
    /\ req[p].op = "send" => req[p].dst \in Accounts /\ req[p].amount \in Amounts
    /\ req[p].op \in {"send", "approve"} /\ pc[p] \in InTransfer =>
         /\ req[p].dst \in Accounts /\ req[p].amount \in Amounts
         /\ req[p].dst # req[p].src /\ users[req[p].dst] # "absent"
    /\ req[p].op = "register" =>
         /\ req[p].user \in Accounts /\ req[p].dst = req[p].user
         /\ req[p].src = Mint /\ req[p].amount = SignupGrant /\ req[p].key = NoKey

\* Who holds what: a worker holds the first wallet while it waits for the
\* second, both from then to the end of its savepoint or transaction, and
\* nothing outside; a registration holds its phone from the insert on, while
\* no committed row has it.  Every exit path gives everything back.
HoldsItsLocks(p) ==
  /\ pc[p] = "lock_high" => lock[FirstLock(p)] = p
  /\ pc[p] \in {"post", "commit"} => lock[req[p].src] = p /\ lock[req[p].dst] = p
  /\ \A w \in Wallets : lock[w] = p =>
       \/ pc[p] = "lock_high" /\ w = FirstLock(p)
       \/ pc[p] \in {"post", "commit"} /\ w \in {req[p].src, req[p].dst}
  /\ \A a \in Accounts :
       phoneLock[a] = p <=> Engaged(p) /\ req[p].op = "register" /\ req[p].user = a
  /\ Engaged(p) /\ req[p].op = "register" => users[req[p].user] = "absent"

LockDiscipline == \A p \in Workers : HoldsItsLocks(p)

\* Between the lock and the commit the cached objects agree with the committed
\* rows (before posting) or differ from them by exactly the amount (after): the
\* stale copies the eager join left behind are never used, nobody else changes
\* the rows meanwhile, and nobody else can commit the key.
ViewIsFresh(p) ==
  /\ pc[p] = "post" =>
       /\ view[p].src = balance[req[p].src]
       /\ view[p].dst = balance[req[p].dst]
  /\ pc[p] = "commit" =>
       /\ view[p].src = balance[req[p].src] - req[p].amount
       /\ view[p].dst = balance[req[p].dst] + req[p].amount
       /\ req[p].op # "register" => balance[req[p].src] >= req[p].amount
       /\ -NumericMax <= view[p].src /\ view[p].dst <= NumericMax
       /\ ~Duplicate(p)

FreshView == \A p \in Workers : ViewIsFresh(p)

\* insolvent_wallets: user wallets below zero.
insolvent_wallets == {a \in Accounts : balance[a] < 0}

\* No interleaving of transfers overdraws a user wallet.  The CHECK constraint
\* no_overdraft is not a guard of the model: the check post_double_entry makes
\* on the locked, re-read row suffices.
Solvent == insolvent_wallets = {}

\* s is a running balance from 0 to b: every entry's balance_after is the one
\* before it plus its own signed amount.
IsChain(s, b) ==
  /\ \A i \in 1..Len(s) :
       s[i].balance_after = s[i].amount + (IF i = 1 THEN 0 ELSE s[i - 1].balance_after)
  /\ b = IF s = <<>> THEN 0 ELSE s[Len(s)].balance_after

\* The projection and its audit trail: on every wallet the entries, in id
\* order, are a chain that ends in wallets.balance.  One lost update breaks it.
Chained == \A w \in Wallets : IsChain(entries[w], balance[w])

\* Transaction i has an entry on wallet w.
PostedOn(w, i) == \E j \in 1..Len(entries[w]) : entries[w][j].txn = i

\* Entry j of wallet w is one side of its transaction, and the only one there.
EntryFits(w, j) ==
  LET e == entries[w][j]
      t == txns[e.txn]
  IN  /\ e.txn \in 1..Len(txns)
      /\ \/ w = t.sender   /\ e.amount = -t.amount
         \/ w = t.receiver /\ e.amount = t.amount
      /\ \A k \in 1..(j - 1) : entries[w][k].txn < e.txn

\* Every committed transaction has exactly one debit on its sender and one
\* credit of the same amount on its receiver, and there is no other entry.
DoubleEntry ==
  /\ \A i \in 1..Len(txns) :
       /\ txns[i].sender # txns[i].receiver
       /\ PostedOn(txns[i].sender, i) /\ PostedOn(txns[i].receiver, i)
  /\ \A w \in Wallets : \A j \in 1..Len(entries[w]) : EntryFits(w, j)

\* However often a client retries a key, and however the retries overlap, at
\* most one transaction of that user carries it (uq_idem).
OncePerKey ==
  \A i, j \in 1..Len(txns) :
    SameKey(txns[i], txns[j].initiated_by, txns[j].key) => i = j

\* A 201 answer names a committed transfer that is the one asked for: same
\* payer, payee, amount and key, whether this worker posted it, found it before
\* locking, or lost the race on uq_idem to it.
AnswersTheRequest ==
  \A p \in Workers :
    reply[p].kind \in {"completed", "replayed"} =>
      /\ reply[p].txn \in 1..Len(txns)
      /\ LET t == txns[reply[p].txn] IN
           /\ t.sender = req[p].user /\ t.initiated_by = req[p].user
           /\ t.receiver = req[p].dst /\ t.amount = req[p].amount
           /\ t.key = req[p].key

\* Overlapping registrations of one phone end in one user with one signup
\* grant, and nobody else has one (users_phone_key, one commit for user, wallet
\* and grant).
OneGrantPerUser ==
  /\ \A i, j \in 1..Len(txns) :
       /\ txns[i].type = "SIGNUP_GRANT" /\ txns[j].type = "SIGNUP_GRANT"
       /\ txns[i].receiver = txns[j].receiver
       => i = j
  /\ \A a \in Accounts :
       users[a] # "absent" <=>
         \E i \in 1..Len(txns) : txns[i].type = "SIGNUP_GRANT" /\ txns[i].receiver = a

\* Only a signup grant can end in the unhandled DataError of a full column.  A
\* transfer or an approval is refused for want of money or it fits: what all
\* users own together is what the mint could still be charged for, so a payee
\* never has room for less than its payer has.
OnlyGrantsFail ==
  \A p \in Workers : reply[p].kind = "error" => req[p].op = "register"

\* A committed row with a key is a transfer its payer initiated.
KeyedByPayer ==
  \A i \in 1..Len(txns) : txns[i].key # NoKey => txns[i].sender = txns[i].initiated_by

\* p cannot go on before the transaction of q ends.
WaitsFor(p, q) ==
  \/ pc[p] = "lock_low"  /\ lock[FirstLock(p)] = q
  \/ pc[p] = "lock_high" /\ lock[SecondLock(p)] = q
  \/ pc[p] = "insert_user" /\ phoneLock[req[p].user] = q
  \/ pc[p] = "post" /\ IndexBusy(p, q)

\* The place in the global lock order of what a waiting worker waits for: the
\* phone index, then the wallets by id.
WaitRank(p) ==
  CASE pc[p] = "lock_low"  -> FirstLock(p)
    [] pc[p] = "lock_high" -> SecondLock(p)
    [] OTHER -> -1

\* "Every transaction acquires locks in the same global order": a worker waited
\* for waits, if at all, for something later in the order, so no cycle of
\* waiting transfers and registrations closes; and uq_idem never makes one wait.
WaitsUpward ==
  \A p, q \in Workers :
    WaitsFor(p, q) =>
      /\ pc[p] # "post"
      /\ \A r \in Workers : WaitsFor(q, r) => WaitRank(p) < WaitRank(q)

\* Every accepted request is answered (or its worker dies): nothing waits for
\* a lock for ever.
EveryRequestAnswered == \A p \in Workers : []<>(pc[p] = "idle")

\* The ledger anyone can observe is that of AtomicLedger: money moves in
\* single indivisible steps, each by its exact amount, never twice for a key.
Atomic == INSTANCE AtomicLedger WITH
  registered <- {a \in Accounts : users[a] # "absent"},
  settled <- {<<txns[i].initiated_by, txns[i].key>> :
                i \in {j \in 1..Len(txns) : txns[j].key # NoKey}}

ImplementsAtomicLedger == Atomic!Spec

-----------------------------------------------------------------------------
(* A claim of the documentation the code does not keep. *)

\* "A retried request returns the original transaction" (README, and the ten
\* threads of test_concurrent_retries_of_one_key_move_money_once): no request
\* is refused for lack of funds while the transaction it repeats is committed.
\* A duplicate that passed _find_replay before the winner committed meets the
\* balance check before uq_idem, so it fails when the balance paid for one.
RetryReturnsOriginal ==
  [][\A p \in Workers :
       pc[p] = "post" /\ pc'[p] = "reject" =>
         ~\E i \in 1..Len(txns) :
            SameKey(txns[i], req[p].user, req[p].key) /\ SameRequest(txns[i], req[p])]_vars

=============================================================================
