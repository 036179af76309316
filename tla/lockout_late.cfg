SPECIFICATION Spec
CONSTANTS
  Workers = {p1, p2}
  p1 = p1
  p2 = p2
  p3 = p3
  MaxFailedLogins = 5
SYMMETRY WorkerSymmetry
INVARIANTS
  FailuresLock
