------------------------------- MODULE Ledger -------------------------------
(***************************************************************************)
(* The money path every service of the application goes through:           *)
(* ledger_service.lock_wallets and ledger_service.post_double_entry, run   *)
(* by request workers (one SQLAlchemy session and one PostgreSQL READ      *)
(* COMMITTED transaction each) against the tables users, wallets,          *)
(* transactions, ledger_entries and audit_log.                             *)
(*                                                                         *)
(* The committed tables are shared variables.  What a worker has read or   *)
(* flushed and not yet committed lives in its own req / view / reply, so a *)
(* rollback is forgetting them.  Row locks are explicit.                   *)
(*                                                                         *)
(* An account stands for a phone number, its user and its wallet.  Wallet  *)
(* ids are numbers because lock_wallets sorts by them; the system mint has *)
(* the least id (constants.py).  A row of ledger_entries is an element of  *)
(* the sequence of its wallet: its place is the order of the BIGSERIAL id. *)
(***************************************************************************)
EXTENDS Integers, Sequences

CONSTANTS
  Workers,      \* request threads, each with its own database session
  Nobody,       \* the owner of a free lock
  Accounts,     \* phone numbers that may be registered; also their wallet ids
  Seeded,       \* accounts registered before the behaviour starts, in order
  SignupGrant,  \* settings.signup_grant
  Amounts,      \* amounts the schema MoneyAmount accepts
  Keys,         \* Idempotency-Key values clients use
  NoKey,        \* no key, or the router's auto-<uuid4>: never repeated
  NumericMax,   \* largest value of a NUMERIC(15,2) column
  MaxStarts,    \* bound: requests started in a behaviour
  Suspendable   \* bound: accounts an operator may deactivate

Mint == 0
Wallets == Accounts \cup {Mint}

ASSUME NobodyAssumption == Nobody \notin Workers
ASSUME AccountsAssumption == Accounts \subseteq Nat \ {0}
ASSUME KeysAssumption == NoKey \notin Keys
ASSUME AmountsAssumption == Amounts \subseteq Nat \ {0}
ASSUME SignupGrantAssumption == SignupGrant \in Nat \ {0}
ASSUME MaxStartsAssumption == MaxStarts \in Nat
ASSUME SuspendableAssumption == Suspendable \subseteq Accounts
ASSUME SeededAssumption ==
  /\ Seeded \in Seq(Accounts)
  /\ \A i, j \in 1..Len(Seeded) : Seeded[i] = Seeded[j] => i = j
ASSUME NumericMaxAssumption ==
  /\ NumericMax \in Nat
  /\ SignupGrant <= NumericMax
  /\ \A i \in 1..Len(Seeded) : i * SignupGrant <= NumericMax

VARIABLES
  users,      \* committed users rows: "absent", "active" or "inactive"
  balance,    \* committed wallets.balance (0 for a wallet not yet created)
  txns,       \* committed transactions rows, in commit order
  entries,    \* committed ledger_entries rows of each wallet, in id order
  audit,      \* committed audit_log rows, counted by action
  lock,       \* holder of each wallet row's FOR UPDATE lock
  phoneLock,  \* worker whose uncommitted insert holds users_phone_key
  pc,         \* where each worker is in its handler
  req,        \* the request a worker serves
  view,       \* balances of the two wallets in the worker's identity map
  reply,      \* what the handler answers
  clock       \* requests started so far; PostgreSQL's now() is read from it

tables  == <<users, balance, txns, entries, audit>>
locks   == <<lock, phoneLock>>
session == <<pc, req, view, reply>>
vars    == <<tables, locks, session, clock>>

-----------------------------------------------------------------------------
(* Records and their sets. *)

Transaction == [type: {"SIGNUP_GRANT", "TRANSFER", "REQUEST_SETTLEMENT"}, amount: Nat \ {0},
                sender: Wallets, receiver: Wallets, initiated_by: Accounts,
                key: Keys \cup {NoKey}]

\* txn is the index of the transactions row the entry belongs to.
LedgerEntry == [txn: Nat \ {0}, amount: Int, balance_after: Int, created_at: Nat]

AuditAction == {"REGISTERED", "TRANSFER_COMPLETED", "TRANSFER_REJECTED", "PIN_FAILED",
                "REQUEST_CREATED", "REQUEST_APPROVED", "REQUEST_DECLINED", "REQUEST_CANCELLED"}

Request == [op: {"none", "send", "register", "create", "approve", "decline", "cancel"},
            user: Wallets, src: Wallets, dst: Wallets, amount: Nat, key: Keys \cup {NoKey}, start: Nat]

NoRequest == [op |-> "none", user |-> Mint, src |-> Mint, dst |-> Mint,
              amount |-> 0, key |-> NoKey, start |-> 0]

ReplyKind == {"none", "completed", "replayed", "registered", "recipient_not_found",
              "self_transfer", "invalid_pin", "key_conflict", "insufficient_funds",
              "phone_taken", "error", "created", "approved", "declined", "cancelled",
              "self_request", "request_not_found", "request_expired", "request_not_pending"}

NoReply == [kind |-> "none", txn |-> 0]
NoView == [src |-> 0, dst |-> 0]

PC == {"idle", "resolve", "find_replay", "insert_user", "lock_low", "lock_high",
       "post", "commit", "reject", "find_winner", "done",
       "create_request", "lock_request", "check_request"}

TypeOK ==
  /\ users \in [Accounts -> {"absent", "active", "inactive"}]
  /\ balance \in [Wallets -> Int]
  /\ txns \in Seq(Transaction)
  /\ entries \in [Wallets -> Seq(LedgerEntry)]
  /\ audit \in [AuditAction -> Nat]
  /\ lock \in [Wallets -> Workers \cup {Nobody}]
  /\ phoneLock \in [Accounts -> Workers \cup {Nobody}]
  /\ pc \in [Workers -> PC]
  /\ req \in [Workers -> Request]
  /\ view \in [Workers -> [src: Int, dst: Int]]
  /\ reply \in [Workers -> [kind: ReplyKind, txn: Nat]]
  /\ clock \in 0..MaxStarts

-----------------------------------------------------------------------------
(* The state left by migration 0001 and by registering Seeded one by one. *)

GrantTo(a) == [type |-> "SIGNUP_GRANT", amount |-> SignupGrant, sender |-> Mint,
               receiver |-> a, initiated_by |-> a, key |-> NoKey]

SeededSet == {Seeded[i] : i \in 1..Len(Seeded)}

SeedIndex(a) == CHOOSE i \in 1..Len(Seeded) : Seeded[i] = a

InitTables ==
  /\ users = [a \in Accounts |-> IF a \in SeededSet THEN "active" ELSE "absent"]
  /\ balance = [w \in Wallets |->
                  IF w = Mint THEN -(Len(Seeded) * SignupGrant)
                  ELSE IF w \in SeededSet THEN SignupGrant ELSE 0]
  /\ txns = [i \in 1..Len(Seeded) |-> GrantTo(Seeded[i])]
  /\ entries = [w \in Wallets |->
       IF w = Mint
         THEN [i \in 1..Len(Seeded) |-> [txn |-> i, amount |-> -SignupGrant,
                 balance_after |-> -(i * SignupGrant), created_at |-> 0]]
       ELSE IF w \in SeededSet
         THEN <<[txn |-> SeedIndex(w), amount |-> SignupGrant,
                 balance_after |-> SignupGrant, created_at |-> 0]>>
       ELSE <<>>]
  /\ audit = [x \in AuditAction |-> IF x = "REGISTERED" THEN Len(Seeded) ELSE 0]

Init ==
  /\ InitTables
  /\ lock = [w \in Wallets |-> Nobody]
  /\ phoneLock = [a \in Accounts |-> Nobody]
  /\ pc = [p \in Workers |-> "idle"]
  /\ req = [p \in Workers |-> NoRequest]
  /\ view = [p \in Workers |-> NoView]
  /\ reply = [p \in Workers |-> NoReply]
  /\ clock = 0

-----------------------------------------------------------------------------
(* Worker bookkeeping. *)

Goto(p, l) == pc' = [pc EXCEPT ![p] = l]

\* End of the handler: the answer is ready, the database session is closed.
Answer(p, kind, i) ==
  /\ Goto(p, "done")
  /\ reply' = [reply EXCEPT ![p] = [kind |-> kind, txn |-> i]]

\* audit: one more row, committed with the step that adds it.
AddAudit_Lost(action) == UNCHANGED audit \* mutant: the row is never flushed
AddAudit(action) == audit' = [audit EXCEPT ![action] = @ + 1]

\* ROLLBACK TO SAVEPOINT, ROLLBACK and COMMIT all drop the row locks taken.
ReleaseWallets(p) ==
  lock' = [w \in Wallets |-> IF lock[w] = p THEN Nobody ELSE lock[w]]

ReleasePhone(p) ==
  phoneLock' = [a \in Accounts |-> IF phoneLock[a] = p THEN Nobody ELSE phoneLock[a]]

-----------------------------------------------------------------------------
(* lock_wallets: SELECT ... ORDER BY id FOR UPDATE takes the rows one by   *)
(* one and waits at a row another transaction holds.                       *)

\* The least of the two ids is locked first.
FirstLock_Unsorted(p) == req[p].src \* mutant: rows locked in the order given
FirstLock(p) == IF req[p].src < req[p].dst THEN req[p].src ELSE req[p].dst
SecondLock(p) == IF FirstLock(p) = req[p].src THEN req[p].dst ELSE req[p].src

LockFirst(p) ==
  /\ pc[p] = "lock_low"
  /\ lock[FirstLock(p)] = Nobody
  /\ lock' = [lock EXCEPT ![FirstLock(p)] = p]
  /\ Goto(p, "lock_high")
  /\ UNCHANGED <<tables, phoneLock, req, view, reply, clock>>

\* mutant: without populate_existing the identity map keeps what it had
LockedView_Cached(p) == view[p]

\* populate_existing overwrites the cached objects with the locked rows.
LockedView(p) == [src |-> balance[req[p].src], dst |-> balance[req[p].dst]]

LockSecond(p) ==
  /\ pc[p] = "lock_high"
  /\ lock[SecondLock(p)] = Nobody
  /\ lock' = [lock EXCEPT ![SecondLock(p)] = p]
  /\ view' = [view EXCEPT ![p] = LockedView(p)]
  /\ Goto(p, "post")
  /\ UNCHANGED <<tables, phoneLock, req, reply, clock>>

-----------------------------------------------------------------------------
(* post_double_entry. *)

\* Only the signup grant passes allow_overdraft.
Insufficient_Overdraft(p) == FALSE \* mutant: allow_overdraft is the default
Insufficient(p) == req[p].op # "register" /\ view[p].src < req[p].amount

\* The partial unique index uq_idem (initiated_by, idempotency_key).
SameKey(t, user, key) == key # NoKey /\ t.initiated_by = user /\ t.key = key

Duplicate_NoIndex(p) == FALSE \* mutant: neither the lookup nor uq_idem

Duplicate(p) ==
  \E i \in 1..Len(txns) : SameKey(txns[i], req[p].user, req[p].key)

\* An uncommitted row with the key makes the index insert wait.
IndexBusy(p, q) ==
  /\ q # p /\ pc[q] = "commit"
  /\ req[p].key # NoKey /\ req[q].key = req[p].key /\ req[q].user = req[p].user

\* mutant: the mint is not charged for the grant
Debited_FreeGrant(p) == IF req[p].op = "register" THEN view[p].src
                        ELSE view[p].src - req[p].amount

Debited(p)  == view[p].src - req[p].amount
Credited(p) == view[p].dst + req[p].amount

\* PostgreSQL's column type NUMERIC(15,2), not a check of the code: a value
\* outside it is a DataError no handler catches.
Overflows(p) == Debited(p) < -NumericMax \/ Credited(p) > NumericMax

\* The rows are flushed, not committed; the balances are written from the
\* objects of the identity map.
PostDoubleEntry(p) ==
  /\ pc[p] = "post"
  /\ ~Insufficient(p) /\ ~Duplicate(p) /\ ~Overflows(p)
  /\ \A q \in Workers : ~IndexBusy(p, q)
  /\ view' = [view EXCEPT ![p] = [src |-> Debited(p), dst |-> Credited(p)]]
  /\ Goto(p, "commit")
  /\ UNCHANGED <<tables, locks, req, reply, clock>>

PostOverflows(p) ==
  /\ pc[p] = "post"
  /\ ~Insufficient(p) /\ ~Duplicate(p) /\ Overflows(p)
  /\ \A q \in Workers : ~IndexBusy(p, q)
  /\ ReleaseWallets(p) /\ ReleasePhone(p)
  /\ Answer(p, "error", 0)
  /\ UNCHANGED <<tables, req, view, clock>>

-----------------------------------------------------------------------------
(* COMMIT makes the flushed rows visible and drops the locks. *)

\* mutant: initiated by the owner of the debited wallet, the mint included
NewTransaction_BySource(p) ==
  [type |-> IF req[p].op = "register" THEN "SIGNUP_GRANT"
            ELSE IF req[p].op = "approve" THEN "REQUEST_SETTLEMENT" ELSE "TRANSFER",
   amount |-> req[p].amount, sender |-> req[p].src, receiver |-> req[p].dst,
   initiated_by |-> req[p].src, key |-> req[p].key]

NewTransaction(p) ==
  [type |-> IF req[p].op = "register" THEN "SIGNUP_GRANT"
            ELSE IF req[p].op = "approve" THEN "REQUEST_SETTLEMENT" ELSE "TRANSFER",
   amount |-> req[p].amount, sender |-> req[p].src, receiver |-> req[p].dst,
   initiated_by |-> req[p].user, key |-> req[p].key]

\* created_at defaults to now(), the start of the transaction.
NewEntry(p, amount, after) ==
  [txn |-> Len(txns) + 1, amount |-> amount, balance_after |-> after,
   created_at |-> req[p].start]

DebitEntry_Unsigned(p) == NewEntry(p, req[p].amount, view[p].src) \* mutant
\* mutant: balance_after taken before the projection is updated
CreditEntry_Before(p) == NewEntry(p, req[p].amount, view[p].dst - req[p].amount)

DebitEntry(p)  == NewEntry(p, -req[p].amount, view[p].src)
CreditEntry(p) == NewEntry(p, req[p].amount, view[p].dst)

CommitRows(p) ==
  /\ txns' = Append(txns, NewTransaction(p))
  /\ balance' = [balance EXCEPT ![req[p].src] = view[p].src,
                                ![req[p].dst] = view[p].dst]
  /\ entries' = [entries EXCEPT ![req[p].src] = Append(@, DebitEntry(p)),
                                ![req[p].dst] = Append(@, CreditEntry(p))]

=============================================================================
