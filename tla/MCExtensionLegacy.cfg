CONSTANTS
  PortIn <- MCPortIn
  Inputs <- MCTwoPorts
  Logins <- MCTwoLogins
  LegacyHost <- MCLegacyHost
  LegacyPort = 9999
  LegacyId = "u0"
  EventRefreshes = {"e1"}
  MaxSaves = 2
  MaxStops = 0
SPECIFICATION Spec
INVARIANT SavedStays
CHECK_DEADLOCK FALSE
