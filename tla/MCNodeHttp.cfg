CONSTANTS
  RequireProxyAuth = TRUE
  MaxChunks = 3
SPECIFICATION Spec
INVARIANTS
  TypeOK
  CompleteMeansAll
PROPERTIES
  Implements
  Settled
CHECK_DEADLOCK FALSE
