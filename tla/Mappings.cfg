CONSTANTS
  q1 = q1
  q2 = q2
  w1 = w1
  w2 = w2
  Query = {q1, q2}
  Worker = {w1, w2}
  None = None
  MaxRequests = 3
  MaxFailures = 1
SPECIFICATION Spec
INVARIANTS
  TypeOK
  FlushedIsEmpty
PROPERTIES
  LoadReplaces
  PendingResolves
CHECK_DEADLOCK FALSE
