SPECIFICATION PrincipalsSpec
CONSTANTS
  Workers = {p1}
  AuthWorkers = {q1}
  p1 = p1
  q1 = q1
  k1 = k1
  Nobody = Nobody
  Accounts = {1, 2}
  Seeded <- SeededTwo
  SignupGrant = 3
  Amounts = {2}
  Keys = {}
  NoKey = NoKey
  NumericMax = 9
  MaxStarts = 1
  Suspendable = {}
  MaxSessions = 2
  Owner <- OwnerOne
CHECK_DEADLOCK FALSE
PROPERTIES
  DeadSessionsMoveNothing
