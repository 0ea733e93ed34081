CONSTANTS
  e1 = e1
  e2 = e2
  e3 = e3
  r1 = r1
  r2 = r2
  Entity <- Entities
  Local <- OneOwn
  Process = {r1, r2}
  MaxProfiles = 3
  MaxRequests = 4
  None = None
SPECIFICATION Spec
SYMMETRY Symmetry
INVARIANT
  TypeOK
PROPERTIES
  AddingMerges
  MergesKeepTogether
  NegativesKept
