CONSTANTS
  Messages <- MCMessages
  Filters <- MCFilters
  InitialKeys = {"Natural"}
  HalfPage = 2
  Marks = {}
  MaxLen = 3
  MaxFiles = 1
SPECIFICATION Spec
INVARIANTS
  NothingMissed
CHECK_DEADLOCK FALSE
