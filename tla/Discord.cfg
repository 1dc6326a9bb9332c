SPECIFICATION DiscordSpec
CONSTANTS
  Reconnect = {r1, r2}
  MaxAttempts = 2
  Faults = {"stage", "hook", "connect", "drop", "fatal", "refused", "dead", "reconnect", "invalid", "timeout"}
  MaxFaults = 3
  MaxRequests = 1
CHECK_DEADLOCK FALSE
INVARIANT ReadyIsReal
PROPERTY Recovers
