SPECIFICATION FairSpec
CONSTANTS
  Loop = {l1, l2}
  Call = {api1, api2}
  MaxRequestRetries = 1
  Faults = {"error", "restart", "reauth", "disconnect", "initFails"}
  MaxInterventions = 5
INVARIANT TypeOK
INVARIANT FieldsAreCurrent
INVARIANT OneInitialization
PROPERTY IdleIsRestarted
CHECK_DEADLOCK FALSE
