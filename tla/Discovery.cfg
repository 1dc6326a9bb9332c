SPECIFICATION FairSpec
CONSTANTS
  Listens = 2
  Clients = 2
  Batch = {b1}
  Faults = {"abort", "insertFails", "crash", "mute", "expire"}
  MaxInterventions = 1
CHECK_DEADLOCK FALSE
INVARIANT HandOversAreSound
INVARIANT DiscoveriesAreSound
PROPERTY HeardReachesAll
