SPECIFICATION Spec
CONSTANTS
  Workers = {p1, p2}
  p1 = p1
  p2 = p2
  k1 = k1
  Nobody = Nobody
  Accounts = {1, 2, 3, 4}
  Seeded <- SeededOne
  SignupGrant = 3
  Amounts = {1, 3, 7}
  Keys = {k1}
  NoKey = NoKey
  NumericMax = 9
  MaxStarts = 3
  Suspendable = {2}
SYMMETRY WorkerSymmetry
INVARIANTS
  TypeOK
  ReconcileGreen
  MintFunded
  AuditMatchesLedger
  OnlyGrantsFail
  LockDiscipline
  WaitsUpward
  OneGrantPerUser
