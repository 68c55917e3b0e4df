CONSTANTS
  Log <- MCLog
  Filters <- MCFilters
  Orders <- MCOrders
  Families = {2}
  Sizes <- MCSizes
  MaxOffset = 2
SPECIFICATION Spec
INVARIANTS
  CursorIsDrawn
  FieldIsThere
  DetailFollows
CHECK_DEADLOCK FALSE
