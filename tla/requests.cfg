SPECIFICATION RequestsSpec
CONSTANTS
  Workers = {p1, p2}
  p1 = p1
  p2 = p2
  k1 = k1
  k2 = k2
  k3 = k3
  Nobody = Nobody
  Accounts = {1, 2}
  Seeded <- SeededTwo
  SignupGrant = 3
  Amounts = {2, 3}
  Keys = {k1}
  NoKey = NoKey
  NumericMax = 9
  MaxStarts = 3
  Suspendable = {}
  MaxRequests = 1
  Asked <- AskedOne
  RequestKey <- KeyOne
  Expirable = {}
SYMMETRY WorkerSymmetry
INVARIANTS
  FreshView
  Solvent
  Chained
  DoubleEntry
  OncePerKey
  AnswersTheRequest
  PaidOnce
PROPERTIES
  DecidedOnce
  ImplementsAtomicLedger
