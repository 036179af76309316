----------------------------- MODULE Statement -----------------------------
(***************************************************************************)
(* statement_service: the order in which GET /wallet/statement lists the   *)
(* ledger entries of a wallet.                                             *)
(***************************************************************************)
EXTENDS Transfers

\* ORDER BY created_at DESC, id DESC: entry i of wallet w is listed above j.
ListedAbove(w, i, j) ==
  \/ entries[w][i].created_at > entries[w][j].created_at
  \/ entries[w][i].created_at = entries[w][j].created_at /\ i > j

\* The statement shows i directly above j.
ListedNext(w, i, j) ==
  /\ ListedAbove(w, i, j)
  /\ ~\E k \in 1..Len(entries[w]) : ListedAbove(w, i, k) /\ ListedAbove(w, k, j)

\* "Each row also carries balance_after ... any tampering would be visible as a
\* broken chain" (routers/wallet.py): read top to bottom, the statement of an
\* untampered ledger is a chain.  created_at is now(), the start of the
\* transaction, while balance_after follows the order of the wallet locks.
StatementIsChain ==
  \A w \in Accounts : \A i, j \in 1..Len(entries[w]) :
    ListedNext(w, i, j) =>
      entries[w][i].balance_after = entries[w][j].balance_after + entries[w][i].amount

=============================================================================
