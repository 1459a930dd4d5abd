CONSTANTS
  Empty = ""
  Label <- MCLabel
  Lower <- MCLower
  Users = {u1}
  Hosts <- MCShortHosts
  Requests = {r1, r2}
  TTL = 1
  MaxLag = 1
  Window = 2
  MaxTime = 3
  MaxRetries = 1
  DeletesExpired = FALSE
SPECIFICATION Spec
INVARIANTS
  CacheNewsRecent
PROPERTIES
  GrantFresh
  Implements
  Decided
CHECK_DEADLOCK FALSE
