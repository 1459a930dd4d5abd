CONSTANTS
  RequireProxyAuth = TRUE
  MaxUp = 2
  MaxDown = 2
SPECIFICATION Spec
PROPERTY UnreachableIs502
CHECK_DEADLOCK FALSE
