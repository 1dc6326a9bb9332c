SPECIFICATION LifeSpec
CONSTANTS
  Loop = {l1, l2}
  Call = {api1}
  MaxRequestRetries = 1
  Faults = {"restart", "initFails"}
  MaxInterventions = 4
  Track = {"p1", "p2", "p3"}
  ListenOf <- MCListenOf
  IdOf <- MCIdOf
  BatchSize = 2
  Recent = 1
  MaxRecords = 2
  MaxEvents = 1
  Scrobbles = 2
  Plays = 2
  Dates = {0, 2}
  Kinds = {"listenbrainz", "lastfm", "koito", "maloja"}
  GroupDuration = 1
  Consolidate = 2
  Padding = 2
  StaleAfter = 1
  PreloadFor = 1
  ErrorFor = 1
  QueryLimit = 1
  PageSize = 1
  DayLength = 2
  MaxCompares = 2
  MaxTime = 3
INVARIANT RunningIsStoppable
INVARIANT RecordsAreSound
INVARIANT NothingKnownIsMissed
PROPERTY RangesAreHandled
PROPERTY ImportsAreComplete
CHECK_DEADLOCK FALSE
