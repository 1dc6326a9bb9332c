SPECIFICATION Spec
CONSTANTS
  MaxPlays = 2
  Listen = {"l1", "l2"}
  Repeats <- OneRepeat
  RefreshEnabled = TRUE
  MaxRequestRetries = 0
  DeadLetterRetries = 0
  ForcedRetries = 1
  RetryCap = 3
  Faults = {}
  MaxInterventions = 0
INVARIANT NothingLost
