CONSTANTS
  r1 = r1
  r2 = r2
  a1 = a1
  a2 = a2
  Nobody = Nobody
  Request = {r1, r2}
  Admin = {a1, a2}
  Kinds <- AllKinds
  Asks <- MCAsks
  DefaultQuota <- MCDefault
  MaxRestarts = 1
SPECIFICATION Spec
SYMMETRY Symmetry
INVARIANTS
  WithinQuota
  PendingCovers
  
  
  
  UpdatesKept
