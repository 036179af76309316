SPECIFICATION Spec
CONSTANTS
  Workers = {p1, p2}
  p1 = p1
  p2 = p2
  k1 = k1
  Nobody = Nobody
  Accounts = {1, 2}
  Seeded <- SeededTwo
  SignupGrant = 3
  Amounts = {2}
  Keys = {k1}
  NoKey = NoKey
  NumericMax = 9
  MaxStarts = 2
  Suspendable = {}
SYMMETRY WorkerSymmetry
PROPERTIES
  RetryReturnsOriginal
