CONSTANTS
  company = company
  ownership = ownership
  r1 = r1
  r2 = r2
  Entity <- Entities
  References <- RefersTo
  Request = {r1, r2}
  MaxEdits = 2
  MaxDisturbed = 1
  None = None
SPECIFICATION Spec
SYMMETRY Alike
INVARIANTS
  TypeOK
  StoresAgree
CHECK_DEADLOCK FALSE
