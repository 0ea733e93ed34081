CONSTANTS
  e1 = e1
  e2 = e2
  e3 = e3
  r1 = r1
  r2 = r2
  Entity <- Entities
  Local <- TwoOwn
  Process = {r1, r2}
  MaxProfiles = 2
  MaxRequests = 4
  None = None
SPECIFICATION Spec
INVARIANT
  OneProfile
