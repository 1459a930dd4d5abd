CONSTANTS
  RequireProxyAuth = TRUE
  MaxUp = 2
  MaxDown = 2
SPECIFICATION Spec
PROPERTY RetryHeard
CHECK_DEADLOCK FALSE
