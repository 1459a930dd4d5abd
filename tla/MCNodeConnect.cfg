CONSTANTS
  RequireProxyAuth = TRUE
  MaxUp = 2
  MaxDown = 2
SPECIFICATION Spec
INVARIANTS
  TypeOK
  EndMeansAll
PROPERTIES
  Implements
  UpstreamReleased
  AnsweredOrClosed
CHECK_DEADLOCK FALSE
