----------------------------- MODULE Reconcile -----------------------------
(***************************************************************************)
(* GET /admin/reconcile: the queries of ledger_service over the committed  *)
(* tables.  Each is one statement on one READ COMMITTED snapshot, that is, *)
(* on one reachable state; what holds of every state holds of the report   *)
(* however transfers interleave with its four statements.                  *)
(***************************************************************************)
EXTENDS Transfers, FiniteSets, Functions

\* Phone numbers are strings of bounded length, so a sum over wallets is finite.
ASSUME AccountsFinite == IsFiniteSet(Accounts)

\* The column ledger_entries.amount of the rows of one wallet.
EntryAmounts(w) == [j \in 1..Len(entries[w]) |-> entries[w][j].amount]
RowsOf(w, i) == {j \in 1..Len(entries[w]) : entries[w][j].txn = i}

\* SUM(amount) of one wallet, of all, and of one wallet for transaction i.
EntrySum(w) == SumFunction(EntryAmounts(w))
ledger_sum == SumFunction([w \in Wallets |-> EntrySum(w)])
EventSum(w, i) == SumFunctionOnSet(EntryAmounts(w), RowsOf(w, i))

unbalanced_transactions ==
  {i \in 1..Len(txns) : SumFunction([w \in Wallets |-> EventSum(w, i)]) # 0}

drifted_wallets == {w \in Wallets : balance[w] # EntrySum(w)}

\* The admin endpoint's report: all four checks of reconcile.
\* "It should always come back green", at any moment of any interleaving.
ReconcileGreen ==
  /\ ledger_sum = 0
  /\ unbalanced_transactions = {}
  /\ drifted_wallets = {}
  /\ insolvent_wallets = {}

\* Issued money has a provable origin: the mint owes exactly one grant per
\* registered user, whatever registrations were aborted, raced or failed.
MintFunded ==
  balance[Mint] = -(SignupGrant * Cardinality({a \in Accounts : users[a] # "absent"}))

CountTxns(type) == Cardinality({i \in 1..Len(txns) : txns[i].type = type})

\* The audit log counts what the ledger holds: one record per committed
\* transfer, whether sent or settled for a request, and per registration, none
\* for a rolled-back one.
AuditMatchesLedger ==
  /\ audit["TRANSFER_COMPLETED"] = CountTxns("TRANSFER") + CountTxns("REQUEST_SETTLEMENT")
  /\ audit["REGISTERED"] = CountTxns("SIGNUP_GRANT")

=============================================================================
