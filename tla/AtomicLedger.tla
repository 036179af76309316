---------------------------- MODULE AtomicLedger ----------------------------
(***************************************************************************)
(* What the money path promises to its users: balances change only by      *)
(* indivisible grants and transfers, a transfer needs the money, and a     *)
(* user's idempotency key settles at most one transfer.  No sessions, no   *)
(* locks, no caches, no crashes.                                           *)
(***************************************************************************)
EXTENDS Integers, Sequences

CONSTANTS Accounts, Seeded, SignupGrant, Amounts, Keys, NoKey

VARIABLES balance, registered, settled

Mint == 0
Wallets == Accounts \cup {Mint}
SeededSet == {Seeded[i] : i \in 1..Len(Seeded)}

Init ==
  /\ balance = [w \in Wallets |->
                  IF w = Mint THEN -(Len(Seeded) * SignupGrant)
                  ELSE IF w \in SeededSet THEN SignupGrant ELSE 0]
  /\ registered = SeededSet
  /\ settled = {}

Move(src, dst, amount) ==
  balance' = [balance EXCEPT ![src] = @ - amount, ![dst] = @ + amount]

Grant(a) ==
  /\ a \notin registered
  /\ registered' = registered \cup {a}
  /\ Move(Mint, a, SignupGrant)
  /\ UNCHANGED settled

Transfer(s, r, amount, key) ==
  /\ {s, r} \subseteq registered /\ s # r
  /\ balance[s] >= amount
  /\ key # NoKey => <<s, key>> \notin settled
  /\ Move(s, r, amount)
  /\ settled' = IF key = NoKey THEN settled ELSE settled \cup {<<s, key>>}
  /\ UNCHANGED registered

Next ==
  \/ \E a \in Accounts : Grant(a)
  \/ \E s, r \in Accounts, m \in Amounts, k \in Keys \cup {NoKey} : Transfer(s, r, m, k)

Spec == Init /\ [][Next]_<<balance, registered, settled>>

=============================================================================
