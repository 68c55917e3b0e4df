CONSTANTS
  HotPairs <- MCHotPairs
  Cells <- MCCells
  MaxLen = 5
SPECIFICATION Spec
INVARIANTS
  NothingLost
  SameAsSingleBuild
  SecondaryIsExact
CHECK_DEADLOCK FALSE
