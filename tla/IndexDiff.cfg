CONSTANTS
  Ids <- MCIds
  BatchSize = 2
  None = None
SPECIFICATION Spec
INVARIANTS
  TypeOK
  DiffReindexComplete
  OrphansExact
  LosesAtMostOne
PROPERTY
  DiffEnds
CHECK_DEADLOCK FALSE
