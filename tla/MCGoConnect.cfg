CONSTANTS
  RequireProxyAuth = TRUE
  MaxUp = 2
  MaxDown = 2
SPECIFICATION Spec
INVARIANTS
  CloseMeansAll
PROPERTIES
  Implements
  AnsweredOrClosed
  TornDown
CHECK_DEADLOCK FALSE
