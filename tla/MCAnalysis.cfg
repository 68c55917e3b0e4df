CONSTANTS
  None = None
  MaxSeq = 4
  MaxDetail = 8
  TagOf <- MCTagOf
  TextOf <- MCTextOf
  Regex <- MCRegex
  NumberOf <- MCNumberOf
  Barewords <- MCBarewords
  Logs <- MCLogs
  FilterLogs <- MCFilterLogs
  Asked <- MCAsked
  Exprs <- MCExprs
  BadTexts <- MCBadTexts
  TimeOf <- MCTimeOf
  FracDigits = 2
  Digits <- MCDigits
  Units <- MCUnits
  TimedLogs <- MCTimedLogs
  Buckets <- MCBuckets
  Widths <- MCWidths
  Files <- MCFiles
  Windows <- MCWindows
  CharsOf <- MCCharsOf
  FieldName <- MCFieldName
  EnumLabel <- MCEnumLabel
  TypeLabel <- MCTypeLabel
  ExportLogs <- MCExportLogs
SPECIFICATION Spec
INVARIANTS
  AppendEqualsBuild
  GapsAreMissing
  TimelineIsClosure
  FilterSelects
  TimelineIsDrawn
  HistogramIsExact
  TimesRoundTrip
  KeyIsChronological
  LayoutIsFound
  ExportIsRead
PROPERTIES
  TimelineEnds

\* A log is read and asked about in a finite number of steps.
CHECK_DEADLOCK FALSE
