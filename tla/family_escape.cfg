SPECIFICATION Spec
CONSTANTS
  Workers = {p1, p2}
  p1 = p1
  p2 = p2
  Nobody = Nobody
  MaxSessions = 5
  Expirable = {}
  Suspendable = {}
SYMMETRY WorkerSymmetry
INVARIANTS
  FamilyRevoked
