CONSTANTS
  a = a
  b = b
  None = None
  Log <- MCLog
  Meaning <- MCMeaning
  Words <- MCWords
  Lines <- MCLines
  Digits <- MCDigits
  NotUtf8 <- MCNotUtf8
  Unquoted <- MCUnquoted
SPECIFICATION AppSpec
INVARIANTS
  ParentIsDrilled
  OrdinalsAreIndexed
  PreviewIsKept

\* The application may quit.
CHECK_DEADLOCK FALSE
