SPECIFICATION FairSpec
CONSTANTS
  MaxPlays = 2
  Listen = {"l1", "l2"}
  Repeats <- NoRepeats
  RefreshEnabled = TRUE
  MaxRequestRetries = 1
  DeadLetterRetries = 1
  ForcedRetries = 1
  RetryCap = 3
  Faults = {"reject", "history", "crash"}
  MaxInterventions = 1
CONSTRAINT CountIsNotFarBelow
INVARIANT RetriesBounded
PROPERTY QueuedIsProcessed
PROPERTY DeadIsRetried
