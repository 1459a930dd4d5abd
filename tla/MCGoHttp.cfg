CONSTANTS
  RequireProxyAuth = TRUE
  MaxChunks = 3
SPECIFICATION Spec
PROPERTIES
  Implements
  Returns
CHECK_DEADLOCK FALSE
