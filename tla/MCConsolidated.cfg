SPECIFICATION Spec
CONSTANTS
  o1 = o1
  e1 = e1
  e2 = e2
  v1 = v1
  v2 = v2
  none = none
  Ids <- MCIds
  OrderIds <- MCOrderIds
  ExecIds <- MCExecIds
  Values <- MCValues
  None = none
  Messages <- MCMessages
  MaxMessages = 5
INVARIANTS
  FamiliesAreLinked
  RowsAreTotals
  ResendCountedOnce
  RowsChooseWithin
  TableIsDeterministic

\* The log ends after MaxMessages messages.
CHECK_DEADLOCK FALSE
