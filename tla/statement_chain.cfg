SPECIFICATION Spec
CONSTANTS
  Workers = {p1, p2}
  p1 = p1
  p2 = p2
  Nobody = Nobody
  Accounts = {1, 2}
  Seeded <- SeededTwo
  SignupGrant = 3
  Amounts = {1}
  Keys = {}
  NoKey = NoKey
  NumericMax = 9
  MaxStarts = 2
  Suspendable = {}
SYMMETRY WorkerSymmetry
INVARIANTS
  StatementIsChain
