SPECIFICATION Spec
CONSTANTS
  Times = {1, 2, 3}
  Seeded <- SeededTies
  MaxRows = 6
  Limits = {0, 1, 2}
  MAX_PAGE = 2
INVARIANTS
  TypeOK
  NothingSkipped
  NothingTwice
  NewestFirst
