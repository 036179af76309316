# TLA+ models of the wallet service

This directory specifies, model-checks and proves the core of the wallet
application in `src/app`: the double-entry money path, money requests,
refresh-token sessions, login with its lockout, and the statement. Every definition is translated from the source; the
`map` of `PROJECT.json` names the lines each one stands for.

Contents: 1 the system, 2 the modules, 3 how the models read the code,
4 runs and bounds, 5 fairness, 6 proofs, 7 what the documentation promises and
the code does not keep, 8 what is not modelled, 9 what was done in which order.

## 1. The system

A FastAPI application whose handlers are synchronous functions run by a pool of
worker threads. Each request has its own SQLAlchemy session, hence its own
PostgreSQL transaction at READ COMMITTED. All shared state is in PostgreSQL.
Threads never talk to each other: they interact through committed rows, row
locks, unique indexes and what an earlier request left behind.

| component | code | state | operations |
|---|---|---|---|
| ledger | `services/ledger_service.py`, `models/wallet.py`, `models/transaction.py` | `wallets.balance`, `transactions`, `ledger_entries`, wallet row locks | `lock_wallets`, `post_double_entry` |
| direct transfers | `services/transfer_service.py`, `routers/transfers.py` | `transactions.idempotency_key` (`uq_idem`), `audit_log` | `send_money`, `execute_transfer` |
| registration | `services/auth_service.py` `register` | `users`, `wallets` | one commit for user, wallet and signup grant |
| money requests | `services/request_service.py`, `routers/requests.py` | `money_requests`, request row locks | create, approve, decline, cancel, expiry on read |
| sessions | `services/auth_service.py`, `core/deps.py` | `sessions` (family, `is_blocked`) | `issue_tokens`, `rotate_tokens`, `_revoke_family`, `logout`, the check of every request |
| login and lockout | `services/auth_service.py` `authenticate` | `failed_login_count`, `locked_until` | count, lock, reset |
| reconciliation | `ledger_service.py` sums, `routers/admin.py` | none | four queries |
| statement | `services/statement_service.py` | none | keyset pages over `ledger_entries` |
| rate limits, schemas, hashing, configuration, pool | `core/limiter.py`, `schemas/`, `core/security.py`, `config.py`, `database.py` | per process | pure or library code |

How they interact. A transfer, an approval and a registration all go through
`lock_wallets` and `post_double_entry`. An approval is `execute_transfer` with
`commit=False` under the lock of its request row. Every authenticated call reads
its `sessions` row once, at the start. Reconciliation and statement only read.

What is hard to get right, and what makes each component correct:

* **Stale copies.** `user.wallet` is joined eagerly, so a wallet is in the
  identity map before it is locked; only `populate_existing` makes the locked
  read count. Correct when the balance checked and written is the committed one
  (`FreshView`), so that no interleaving overdraws a wallet (`Solvent`) or loses
  an update (`Chained`, `ReconcileGreen`).
* **Locks.** Wallets are locked in id order, after the phone index
  (registration) or the request row (approval). Correct when no cycle of waits
  closes (`WaitsUpward`, `RequestsWaitUpward`) and every exit path, savepoint
  included, gives everything back (`LockDiscipline`).
* **Retries.** A client that lost a reply repeats its key, possibly while the
  first call still runs, possibly with another body. Correct when a key settles
  once (`OncePerKey`) and a 201 names the transfer that was asked for
  (`AnswersTheRequest`).
* **Partial failure.** A crash, a constraint violation or a refusal between two
  statements. Correct when rows, balances, audit and statuses appear together
  (`DoubleEntry`, `AuditMatchesLedger`, `OneGrantPerUser`, `PaidOnce`).
* **Racing verbs.** Approve, decline and cancel of one request overlap. Correct
  when the first to commit decides for good (`DecidedOnce`).
* **Lockout.** The failure counter is read and written back around a slow
  password check, without a lock. Correct when the account still locks after a
  bounded number of failures (`BruteForceBounded`) and a lockout is outlived
  only by attempts that had passed the check (`FewLateAnswers`).
* **Pages.** Entries commit between two pages, some with a timestamp before the
  cursor, some with a tied one. Correct when the walk loses nothing and repeats
  nothing that was there (`NothingSkipped`, `NothingTwice`, `NewestFirst`).
* **Token rotation.** Two tabs refresh at once, a replay overlaps a rotation, a
  logout overlaps both. Correct when a family has at most one live link
  (`AtMostOneLive`), a dead family stays dead (`DeadStaysDead`), and each commit
  touches one family only (`ImplementsFamilies`).

`PROJECT.json` lists every hazard at its line with the properties that watch it.

## 2. The modules

| module | what it is |
|---|---|
| `Ledger` | the tables, locks and per-worker sessions; `lock_wallets` and `post_double_entry` |
| `Transfers` | extends `Ledger`: `send_money`, `execute_transfer`, `register`, crashes, lost replies, deactivation; the safety and liveness properties |
| `AtomicLedger` | the abstract ledger: indivisible grants and transfers, one per key; no sessions, locks, caches or crashes |
| `Requests` | extends `Transfers`: `money_requests`, the three verbs, approval folding a transfer |
| `Reconcile` | extends `Transfers`: the queries of `/admin/reconcile`, as finite sums over rows and wallets |
| `Statement` | extends `Transfers`: the order of a statement's rows |
| `Pages` | `statement_page`: the walk by cursor while entries commit |
| `Sessions` | the `sessions` table: issue, rotate, replay, revoke, log out |
| `Families` | the abstract sessions: a login opens a family, a refresh exchanges its token for a new one, a logout or a detected reuse closes it |
| `Login` | `authenticate`: one account, its failure counter and its lockout |
| `Principals` | composes `Transfers` and an instance of `Sessions`: transfers admitted on a session |
| `<module>Proofs` | theorems and proofs about `Transfers`, `Requests`, `Reconcile`, `Sessions`, `Login`, `Pages`, `Principals` |
| `Sums` | lemmas for the proofs: least and highest elements, induction over finite sets, and what the community modules' finite sums do |
| `MC<module>` | constants and symmetry sets of the TLC instances |

`AtomicLedger` is instantiated in `Transfers` with a refinement mapping: the
committed balances, the users that are not absent, and the pairs (user, key) on
committed transactions. `ImplementsAtomicLedger` says that `Transfers`, and also
`Requests`, implements it.

`Families` is instantiated in `Sessions`: the current token of a family is its
live row (`LiveLink`), the tokens used are the rows. `ImplementsFamilies` says
that nothing else of the table can be seen: no commit opens, refreshes or closes
two families at once, and no token that was replaced is current again.

In `Principals` the two components share the `users` table: what an operator does
to a user (`Deactivate` of `Transfers`) is for `Sessions` the deactivation of all
of that user's families, those still to come included.

## 3. How the models read the code

**A worker is a thread serving one request.** Its `pc` is the statement it is
at, `req` the arguments, `view` the two wallet objects of its identity map,
`reply` the answer. Statements of one handler that other transactions can
distinguish are separate actions; a handler's last statements and its `COMMIT`
are one. What is read or flushed and not committed is private, so a rollback is
forgetting it.

**Locks.** `SELECT ... ORDER BY id FOR UPDATE` takes rows one at a time
(`LockFirst`, `LockSecond`) and is disabled while the row is held. `COMMIT`,
`ROLLBACK` and `ROLLBACK TO SAVEPOINT` release. `uq_idem` and `users_phone_key`
make an insert wait for an uncommitted equal key, then fail if it committed.

**Handlers.** `send_money` is `BeginSend` (the session check loads the user and,
stale from here on, the wallet), `RefuseRecipient` or `RefusePin` or `AcceptPin`,
`FindReplay`, `LockFirst`, `LockSecond`, then one of `PostDoubleEntry`,
`RefuseInsufficient` (savepoint rolled back) with `CommitRefusal`, and
`LoseToDuplicate` with `ReturnWinner`; at the end `CommitTransfer` and `Reply`.
`register` is `BeginRegister`, `InsertUser`, the same wallet path, and
`CommitRegistration`. In `Requests`, a verb is `BeginVerb`, `LockRequest` or
`RefuseStranger`, then `RefuseVerb`, `CommitDecline`, `CommitCancel`, or for an
approval `AcceptApproval`, `NoReplay` or `ApproveReplay`, `MoneyPath` (the wallet
actions of `Ledger`), `ApproveRefused`, `ApproveLosesToDuplicate` and
`CommitApproval`. `authenticate` is `BeginLogin` (the read and the checks on the
row), then `FailLogin`, `LockAccount` or `AcceptLogin`, which write what the copy
says. `statement_page` is `FirstPage` or `NextPage`, one `SELECT` each.
`get_current_principal` is the guard of `AdmitSend`; nothing looks at the session
again.

**Details kept on purpose.**

* `Insufficient` is checked before the insert that `uq_idem` rejects.
* `created_at` is the start of the transaction, not its commit.
* The database `CHECK no_overdraft` is *not* a guard of the model, so `Solvent`
  is the work of the locked re-read alone.
* A key `request:<id>` may also be sent as an `Idempotency-Key` header by the
  payer, and the approval then answers with, or conflicts with, that transfer.
* `_revoke_family` is one `UPDATE`: it fixes its rows when it starts and locks
  them one by one in an order nothing determines. A row inserted later is not
  among them. Two of them can deadlock; PostgreSQL aborts one.
* An attribute SQLAlchemy finds unchanged is not in its `UPDATE`: a successful
  login that read a count of 0 does not reset the count a failure wrote
  meanwhile (`AcceptLogin`).
* A page takes one row more than it shows to learn whether there is a next one;
  the cursor is the last row shown, compared by (`created_at`, `id`), and
  `created_at` of an entry that commits later may be anything.
* A presented refresh token is genuine or has the wrong secret; expiry is looked
  at after `is_blocked` and before the secret, as in the code.

**Abstracted.** Accounts are numbers that stand for phone, user and wallet; the
mint has the least id. Amounts are small integers (the code's amounts are exact
decimals with two places); `NumericMax` stands for the limit of `NUMERIC(15,2)`.
PINs, secrets and validation are a nondeterministic outcome. Audit rows are
counted by action. `WalletMissing` cannot arise (wallet and user share a commit)
and is left out. A grant can overflow the mint's column, and `PostOverflows` is
that. The limit itself is PostgreSQL's, not a check of the code, so no property
says that it is kept; what is checked is that no transfer or approval ever meets
it (`OnlyGrantsFail`): users own together what the mint gave.

## 4. Runs and bounds

| run | what it asks | bounds |
|---|---|---|
| `requests` | is the money path an atomic ledger, with approvals in it? `FreshView`, `Solvent`, `Chained`, `DoubleEntry`, `OncePerKey`, `AnswersTheRequest`, `PaidOnce`, `DecidedOnce`, `ImplementsAtomicLedger` | 2 workers, 2 accounts with 3 each, amounts 2 and 3, one pending request whose key is also a client key, 3 calls |
| `requests_mutual` | do waits end? `RequestsTypeOK`, `RequestsWaitUpward`, `EveryRequestAnswered` | 2 workers, two opposite requests and a new one, an expiry and a deactivation, 2 calls, no symmetry |
| `reconcile` | is the report green, also when registrations race? `TypeOK`, `ReconcileGreen`, `MintFunded`, `AuditMatchesLedger`, `OnlyGrantsFail`, `LockDiscipline`, `WaitsUpward`, `OneGrantPerUser` | 2 workers, 4 accounts of which 1 registered with 3, amounts 1, 3 and 7, `NumericMax` three grants, 3 requests, one deactivation |
| `sessions` | is a family one live chain? `TypeOK`, `AtMostOneLive`, `DeadStaysDead`, `ImplementsFamilies`, `EveryHandlerEnds` | 2 workers, 5 rows, one row may expire, a user with two families may be deactivated, no symmetry |
| `login` | is brute force bounded? `TypeOK`, `BruteForceBounded`, `FewLateAnswers` | 3 workers, the code's limit of 5, no bound on attempts |
| `pages` | does a walk show everything once? `TypeOK`, `NothingSkipped`, `NothingTwice`, `NewestFirst` | 3 timestamps, 3 entries of which two tie, 3 more that commit, pages of 1 and 2, limits below and inside the range |
| `retry_refused`, `statement_chain`, `family_escape`, `refusal_unaudited`, `lockout_late`, `dead_session` | the claims of section 7 | the smallest that show each one |

Why these bounds. Two transfers of 2 or 3 from a wallet of 3 cannot both
succeed, so `requests` meets refusals; with amounts 1 and 3 in `reconcile` a
duplicate also reaches `uq_idem` while money is left; two overlapping calls meet every race of a
pair, and the third call is the retry, the competitor or the one after a crash.
All behaviours of `Transfers` are behaviours of
`Requests` in which nobody calls a request, so `requests` asks of both at once.
Cycles of waits longer than a pair need more wallets and workers than a run
affords: the theorems `DeadlockFree` and `RequestsDeadlockFree` cover them for
any number. `NumericMax` of three
grants makes the fourth registration overflow the mint, and still leaves room for
a second grant to one phone, so that nothing but the unique index prevents it; 7
is an amount nobody has and with a payee's 3 more than the column holds, so that
only the balance check keeps a transfer from an overflow.
Five session rows allow a login, two rotations and then replays of both retired
links at once, the smallest deadlock of two revocations, and, with fewer
rotations, a second family beside the first. The attempts in `login`
are not bounded: its counters are, by the properties. In `pages` three entries
and three more make walks of up to six pages, with every placement of a late
entry before, at and after the cursor. Workers are interchangeable, so the safety
runs use their permutations as symmetry; the runs with fairness do not. Named bounds:
`MaxStarts`, `MaxRequests`, `MaxSessions`, `MaxRows`, `Suspendable`, `Expirable`.

A crash is always possible while a handler runs, so TLC's own deadlock check
says little here: what a lock cycle would break is `WaitsUpward`,
`RequestsWaitUpward` and the liveness properties, for which nothing obliges a
crash. `Finished` and `Full` are the stuttering ends of a bounded behaviour;
`dead_session`, whose bounded instance just stops, is run without the deadlock
check.

Every property has a mutant in `PROJECT.json`: a plausible bug in a mapped
definition (no `populate_existing`, unsorted locks, no savepoint, no row lock,
a transfer that commits by itself, ...) that makes the property fail under the
bounds of its own run. The mutated forms stand beside the definitions they
change, marked `mutant`.

## 5. Fairness

`RequestsFairSpec` assumes weak fairness of the steps of every worker (approvals,
the other verbs, transfers and registrations): a handler that can go on eventually
does, also when it has to wait for a thread (section 8). `FairSpec` of `Transfers` is the same without requests; no run needs it
beside the one with requests. Nothing is assumed
of clients, crashes or operators. Weak fairness is enough because the number of
requests is bounded, so nobody is overtaken for ever at a lock. `Sessions`
assumes strong fairness of `Step(p)`: there rotations that end without a new row
can come back without bound, and PostgreSQL serves the waiters of a row in order,
so a waiting worker is not passed over for ever. The deadlock detector is part of
`Step`, as it is part of PostgreSQL: it may abort any worker on a cycle of waits
(`Deadlocked`), and none that only waits for one. Both liveness properties say that every
worker is idle again and again: no handler hangs.

## 6. Proofs

TLAPS proves the following for *every* finite or infinite set of workers,
accounts, keys and amounts and any number of requests (`TransfersProofs`,
`ReconcileProofs`), and for every finite set of workers (`RequestsProofs`,
`SessionsProofs`, `LoginProofs`) and number of rows. Only the sums of
`ReconcileGreen` need a finite set of accounts (`AccountsFinite`).

`TransfersProofs`. The inductive invariant is

    Base == TypeOK /\ RequestShape /\ LockDiscipline /\ FreshView

`Solvent` alone is not inductive: the balance a commit writes is a private copy,
so one must know that the copy is fresh (`FreshView`), which holds because
nobody else can commit that wallet while it is locked (`LockDiscipline`), which
needs to know what a request's fields say at each point (`RequestShape`).
`BaseInvariant` proves it action by action. From it follow

| theorem | property |
|---|---|
| `TypeCorrect`, `LocksDisciplined`, `ViewsFresh` | `TypeOK`, `LockDiscipline`, `FreshView` |
| `LockOrder` | `WaitsUpward`: who is waited for waits, if at all, for something later in the order |
| `DeadlockFree` | from it: among any workers one waits for none of them. The highest of their ranks belongs to somebody whose wait would need a higher one |
| `Solvency` | `Solvent` |
| `LedgerChained`, `DoubleEntryBookkeeping` | `Chained`, `DoubleEntry` |
| `KeysSettleOnce`, `AnswersAreRight` | `OncePerKey`, `AnswersTheRequest` |
| `GrantedOnce` | `OneGrantPerUser` |
| `Refinement` | `ImplementsAtomicLedger`: initial states map to initial states, each commit to one abstract step, everything else to a stutter |

`SessionsProofs`. The inductive invariant is

    IInv == TypeOK /\ Bounded /\ Owned /\ Fresh /\ AtMostOneLive

A rotation retires one link and inserts another, so `AtMostOneLive` survives it
only if the retired link was still live at the commit (`Fresh`), which holds
because the row is locked from the check on (`Owned`); `Bounded` keeps room for
the rows in flight. From it: `SessionsTyped`, `OneLiveLink` and `DeadFamilies`
(`DeadStaysDead`).

A second invariant, `Confined`, is proved beside it (`RevocationConfined`): what a
worker has locked, or a revocation has still to lock, belongs to the family of the
session it was called with. Two things rest on it. `FamiliesRefinement`
(`ImplementsFamilies`): a login appends a row of a family nobody had, a rotation
moves the one live link to the new row, a revocation or a logout blocks rows of a
single family and so closes it or changes nothing anyone can use; that the live
link is *the* link is `AtMostOneLive` before and after the step. And
`OnlyReplaysDeadlock`: a worker that is waited for and itself waits is revoking,
and it and its neighbours are at one family; so the deadlocks that PostgreSQL has
to break here (`sessions` reaches them) are between replays of one token family,
and no user's request aborts another's.

`RequestsProofs`. The inductive invariant is

    RInv == Base /\ KeyedByPayer /\ RequestsTypeOK /\ Bounded
                 /\ Serving /\ Linked /\ Settled

`Base` is that of `Transfers`: its lemmas say what one worker's step does to
`Base` without saying whose specification the step belongs to, so they serve both.
Every step of `Requests` is for the ledger either a worker that stays outside
`lock_wallets` .. commit (`OutsideStep`) or a step of a transfer. What is new
is `Serving`: a worker past `_lock_request` holds the request row, and while
`execute_transfer` runs for it the request stays pending and the transfer has
the request's parties, amount and key. Without it an approval could pay a request that was
cancelled meanwhile. `Linked` says that an approved request names a transaction
that pays it *under its key*; the key matters, because an approval may answer
with a transfer the payer made under `request:<id>`, and two requests cannot
name one transaction only because their keys differ. `Settled` is the converse.

| theorem | property |
|---|---|
| `RequestsTyped` | `RequestsTypeOK` |
| `RequestsPaidOnce`, `RequestsDecidedOnce` | `PaidOnce`, `DecidedOnce` |
| `RequestsLockOrder`, `RequestsDeadlockFree` | `RequestsWaitUpward`, and from it that no group of workers waits for each other |
| `RequestsFreshView`, `RequestsSolvent`, `RequestsNeverFail`, `RequestsChained`, `RequestsDoubleEntry`, `RequestsOncePerKey`, `RequestsAnswers`, `RequestsGrantOnce` | the properties of the money path, with approvals |
| `RequestsMintFunded`, `RequestsAudited`, `RequestsReportGreen` | the counts and the report, with approvals |
| `RequestsRefinement` | `ImplementsAtomicLedger`, with approvals |

`ReconcileProofs`. `AuditCounted` (`AuditMatchesLedger`) and `MintOwesGrants`
(`MintFunded`) count rows: a commit adds exactly one element to a finite set.
`ReportGreen` (`ReconcileGreen`) proves the four checks of the report, for any
number of entries:

* no projection drifts, because on a chain of running balances the amounts add up
  to the last one (`NoDrift`, by `RunningTotal` of `Sums`);
* all entries add up to nothing, because all balances do: the invariant `ZeroSum`
  holds of the seeded wallets (the mint owes what they were given) and a commit
  takes from one wallet what it gives to another (`SumMove`);
* a transaction balances, because it has one row on its sender, one on its
  receiver and none elsewhere (`OneRow`, `EventSums`, from `DoubleEntry`);
* nobody is insolvent (`Solvency`).

`RequestsReportGreen` is the same with approvals.

`TransfersNeverFail` (`OnlyGrantsFail`) uses the same sum. Two users own together
at most what all users own, which is what the mint owes (`ZeroSum`, `Solvent`,
`TwoUsersOwn`), and the mint's debt fits its column. So when the payer's fresh copy
covers the amount, the payee's balance plus the amount fits, too (`Fits`).
`ApprovalsFit` says this of approvals as well: it is why `MoneyPath` of `Requests`
has no overflow, and a theorem, not an assumption.

`Sums` proves what such sums do
from their definition: the recursion the community modules hide in a `CHOOSE` has
one solution on a finite set, and induction over subsets is the existence of a
least counterexample, which needs no operator as a parameter.

`LoginProofs`. `LockoutAnswersFew` (`FewLateAnswers`) rests on the invariant that
during a lockout the attempts already answered and those still verifying are
together fewer than the workers: the lockout was set by one of them, and nobody
begins while it lasts. `SerialLockout` proves the documented lockout
(`FailuresLock`) when attempts never overlap, which is what `lockout_late`
refutes when they do.

`BruteForce` (`BruteForceBounded`) counts the failures that overlapping attempts
can record. For each level below the limit, the `Profile` says how many workers
would write at least that level back: what they read, or what the row says, if
that is less. A profile is nonincreasing, so there are `Cardinality(Profiles)` of
them. A recorded failure takes its worker from one level to the next and, at the
levels up to the count it read, takes nobody away: in lexicographic order the
profile goes up, like an odometer. Every other step that keeps the failures keeps
it or moves it up, since reading or crashing only replaces a stale copy by the
row. The invariant `FailuresPass`, fewer failures than profiles left behind, then
bounds them. TLC reaches the bound with three workers (34 failures), so it is not
only sufficient.

`PagesProofs`. The invariant `WalkInvariant` adds to the three properties that the
cursor is the lowest entry of the last page: everything shown is then at or above
it, everything still to come below it, and a late entry falls on one side.

`PrincipalsProofs`. `BehindSessions`: behind the session check the money path is
still `Transfers`, so its theorems hold there. `InFrontOfTransfers`: in front of
it the sessions are still `Sessions`. The second needs the invariant of the first:
a registration changes the `users` table the sessions look at, but only a user who
was absent, and an operator's step is a step of both components at once.

The assumptions are the named `ASSUME`s beside the constants; TLC evaluates them
in every run. Every leaf is checked by Z3, Zenon or, for temporal steps, LS4.

Only model-checked: liveness (`EveryRequestAnswered`, `EveryHandlerEnds`), which
is out of the prover's reach. Every other property of a passing run is a theorem.

## 7. Promises the code does not keep

Each is a run that TLC must find violated; the trace is the scenario.

* `retry_refused` / `RetryReturnsOriginal`. A duplicate that passed the replay
  lookup before the original committed meets the balance check before `uq_idem`.
  If the money paid for one, the retry is answered *insufficient funds* although
  the original is committed ("a retried request returns the original
  transaction", `README.md`).
* `statement_chain` / `StatementIsChain`. The statement is ordered by the start
  of transactions, `balance_after` by lock order; two overlapping transfers can
  be listed as a broken chain with nothing tampered ("any tampering would be
  visible as a broken chain", `routers/wallet.py`).
* `family_escape` / `FamilyRevoked`. A rotation in flight commits its successor
  after the revoking `UPDATE` fixed its rows, and survives it ("revokes the
  entire family in one statement", `README.md`). What does hold is
  `AtMostOneLive`, and `DeadStaysDead` once a revocation reached every link.
* `refusal_unaudited` / `RefusalsAudited`. A refused approval adds its
  `TRANSFER_REJECTED` row to a transaction nobody commits ("Record the refusal",
  `transfer_service.py`).
* `lockout_late` / `FailuresLock`. Overlapping wrong passwords write the same
  count: five failures are recorded and the account is not locked ("5 failed
  logins", `README.md`). What does hold is `BruteForceBounded`: with the limit of
  5, two overlapping workers get at most 14 failures in a row, three at most 34.
* `dead_session` / `DeadSessionsMoveNothing`. A transfer that passed the session
  check commits after a logout of its session ("What must never happen is money
  moving on a session the server has already decided is dead",
  `tests/test_race_conditions.py`). The transfer itself is still whole
  (`BehindSessions`).

## 8. Not modelled

* The pool of connections. A request has one session and never asks for a second
  connection, and row locks belong to a connection: who waits for the pool holds
  no lock and has written nothing, so no safety property depends on it. It does
  occupy one of the 40 threads, and who holds a connection needs a thread for the
  next step (dependencies, the endpoint and the closing of the session each take
  one). With every thread waiting for the pool the holders wait for a thread, and
  nothing moves until the pool timeout answers some of the waiters with an error.
  That delay, and who gets the error, are not in the models; the fairness of
  section 5 only needs that it ends.
* Rate limits: counters of the slowapi library, per process; the code chooses the
  key. The lockout is modelled without them, so `BruteForceBounded` does not lean
  on them.
* Schemas, hashes, tokens, configuration: library or pure code before any shared
  state; their outcomes are nondeterministic choices here. `Amounts` is the set
  `MoneyAmount` accepts.
* Reads without state: the lists of requests, `get_transaction_for_user`,
  `/me/activity`, `/me`. The balance beside a statement page is the one read with the
  principal, a moment before the page.
* Login attempts on unknown phones, locked or inactive accounts: they change
  nothing but, at most, the audit log.
* The append-only triggers: no action changes an existing entry or audit row.
* The demo seed and the static page keep no state of the system.

## 9. Order of work

| step | modules | questions |
|---|---|---|
| 1 | `Ledger`, `Transfers`, `AtomicLedger`, `TransfersProofs` | atomicity, locks, keys, refinement |
| 2 | `Reconcile`, `Statement`, `Sessions`, `SessionsProofs` | the report, the order, families |
| 3 | `Requests`, `RequestsProofs` | verbs, approval, their locks and the refinement |
| 4 | `Login`, `LoginProofs` | the counter without a lock |
| 5 | `Pages`, `PagesProofs` | the walk while entries commit |
| 6 | `Principals`, `PrincipalsProofs` | money on a session that ended meanwhile |
| 7 | `ReconcileProofs`, `Sums` | the counts of the audit log and of the mint, the sums of the report |
| 8 | `LoginProofs` | how many failures overlapping attempts can record |
| 9 | `Families`, `SessionsProofs`, `PrincipalsProofs` | families as an abstract specification, who can deadlock with whom, both components in the composition |

What a continuation could add: proofs about the statement (what order its rows do
have), and the abstract ledger as seen through the pages of a walk.
