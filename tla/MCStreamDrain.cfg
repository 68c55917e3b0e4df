SPECIFICATION FairSpec
INVARIANTS
  ChunksDoNotMatter
  OnlyDroppedIsLost
PROPERTIES
  SourceEnds
CONSTANTS
  Cells <- MCCells
  MaxLen = 6
  ReadChunk = 4
  MaxBuffer = 6
\* push_source returns.
CHECK_DEADLOCK FALSE
