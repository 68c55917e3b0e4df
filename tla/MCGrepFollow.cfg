CONSTANTS
  FilterLength = 0
  Cells <- MCCells
  MaxLen = 4
  MaxCells = 5
  MaxFiles = 2
  OthersChange = TRUE
SPECIFICATION QuietSpec
INVARIANTS
  NothingLostSinceBase
PROPERTIES
  ImplementsTail
  CatchesUp

\* grep exits when the file is gone as it is opened.
CHECK_DEADLOCK FALSE
