CONSTANTS
  Empty = ""
  Label <- MCLabel
  Lower <- MCLower
  Users = {u1}
  Hosts <- MCHosts
  Requests = {r1, r2}
  TTL = 1
  MaxLag = 0
  Window = 1
  MaxTime = 2
  MaxRetries = 0
  DeletesExpired = TRUE
SPECIFICATION Spec
INVARIANTS
  PassedOverAbsent
PROPERTIES
  Implements
SYMMETRY MCSymmetry
CHECK_DEADLOCK FALSE
