CONSTANTS
  Messages <- MCHeartbeats
  Filters <- MCNone
  InitialKeys = {"Natural"}
  HalfPage = 2
  Marks = {0}
  MaxLen = 2
  MaxFiles = 2
SPECIFICATION Spec
INVARIANTS
  FilterNeverPanics
CHECK_DEADLOCK FALSE
