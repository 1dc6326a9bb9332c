SPECIFICATION FairSpec
CONSTANTS
  Poll = {p1, p2}
  Request = {api1}
  MaxPollRetries = 1
  Faults = {"initFails", "notAuthed", "fetchFails", "unauthorized", "backlogFails", "refused", "request"}
  MaxInterventions = 3
CHECK_DEADLOCK FALSE
INVARIANT PollingIsKnown
PROPERTY KeepsPolling
