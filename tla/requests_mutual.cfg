SPECIFICATION RequestsFairSpec
CONSTANTS
  Workers = {p1, p2}
  p1 = p1
  p2 = p2
  k1 = k1
  k2 = k2
  k3 = k3
  Nobody = Nobody
  Accounts = {1, 2}
  Seeded <- SeededTwo
  SignupGrant = 3
  Amounts = {3}
  Keys = {k1, k2, k3}
  NoKey = NoKey
  NumericMax = 6
  MaxStarts = 2
  Suspendable = {2}
  MaxRequests = 3
  Asked <- AskedTwo
  RequestKey <- KeyThree
  Expirable = {1}
INVARIANTS
  RequestsTypeOK
  RequestsWaitUpward
PROPERTIES
  EveryRequestAnswered
