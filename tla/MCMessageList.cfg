CONSTANTS
  Messages <- MCMessages
  Filters <- MCFilters
  InitialKeys = {"Natural"}
  HalfPage = 2
  Marks = {}
  MaxLen = 2
  MaxFiles = 1
SPECIFICATION FairSpec
INVARIANTS
  VisibleIsExact
  DetailIsOfCursor
  SortedSinceKey
PROPERTIES
  GrowthKeepsPlace
  EveryMessageIsIndexed
CHECK_DEADLOCK FALSE
