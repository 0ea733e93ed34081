CONSTANTS
  q1 = q1
  q2 = q2
  w1 = w1
  w2 = w2
  Query = {q1}
  Worker = {w1, w2}
  None = None
  MaxRequests = 2
  MaxFailures = 0
SPECIFICATION Spec
INVARIANT DeletedIsEmpty
CHECK_DEADLOCK FALSE
