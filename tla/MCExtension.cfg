CONSTANTS
  PortIn <- MCPortIn
  Inputs <- MCInputs
  Logins <- MCLogins
  LegacyHost <- MCLegacyHost
  LegacyPort = 9999
  LegacyId = "u0"
  EventRefreshes = {"e1"}
  MaxSaves = 2
  MaxStops = 1
SPECIFICATION Spec
INVARIANTS
  TypeOK
  QuietMeansApplied
  
  SavedStaysWithoutLegacy
  AdminPortNotStored
PROPERTY Converges
CHECK_DEADLOCK FALSE
