CONSTANTS
  u1 = u1
  g1 = g1
  c1 = c1
  p1 = p1
  p2 = p2
  User = {u1}
  Group = {g1}
  Guest = Guest
  SystemUser = SystemUser
  Anonymous = Anonymous
  Collection = {c1}
  Casefile = {c1}
  Process = {p1, p2}
  MaxCommits = 2
  None = None
SPECIFICATION Spec
SYMMETRY ProcessSymmetry
INVARIANTS
  TypeOK
  RightsWellFormed
  CacheCoherent
