CONSTANTS
  Ids <- MCIds
  BatchSize = 2
  None = None
SPECIFICATION Spec
INVARIANT
  DiffExact
CHECK_DEADLOCK FALSE
