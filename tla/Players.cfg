SPECIFICATION PlayerSpec
CONSTANTS
  Track = {t1, t2}
  Duration = 3
  AllowedDrift = 1
  EndBuffer = 2
  ClosePosition = 1
  ScrobbleAfter = 2
  StaleInterval = 1
  OrphanedInterval = 2
  FuzzyThreshold = 1
  RecentlyStopped = 1
  MaxTime = 9
  FirstTrack = t1
  SeekTargets = {0, 2}
  MaxGestures = 3
CHECK_DEADLOCK FALSE
INVARIANT ListenedIsReal
INVARIANT SessionsAreKept
INVARIANT PlayersAreSound
PROPERTY RemovedIsDead
