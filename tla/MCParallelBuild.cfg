CONSTANTS
  HotPairs <- MCHotPairs
  Bufs <- MCBufs
  ThreadCounts <- MCThreadCounts
  MinBufSize = 2
  MinChunkSize = 2
SPECIFICATION Spec
INVARIANTS
  ScheduleIndependent
  SameAsSequential
  SecondaryIsExact
CHECK_DEADLOCK FALSE
