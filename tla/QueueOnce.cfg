SPECIFICATION Spec
CONSTANTS
  MaxPlays = 2
  Listen = {"l1", "l2"}
  Repeats <- OneRepeat
  RefreshEnabled = TRUE
  MaxRequestRetries = 1
  DeadLetterRetries = 0
  ForcedRetries = 1
  RetryCap = 3
  Faults = {"reject", "showstop", "history", "abort", "monitor", "unready", "forceRun"}
  MaxInterventions = 2
INVARIANT NoResubmission
INVARIANT CountersAgree
PROPERTY KeepsPromise
