SPECIFICATION FairSpec
CONSTANTS
  Workers = {p1, p2}
  p1 = p1
  p2 = p2
  Nobody = Nobody
  MaxSessions = 5
  Expirable = {2}
  Suspendable = {{1, 2}}
INVARIANTS
  TypeOK
  AtMostOneLive
PROPERTIES
  DeadStaysDead
  ImplementsFamilies
  EveryHandlerEnds
