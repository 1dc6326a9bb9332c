SPECIFICATION Spec
CONSTANTS
  Track = {1, 2, 3, 4, 5}
  Untimed = {5}
  Start <- MCStart
  Limit = 4
  Kept = 3
  MaxPast = 2
  MaxEvents = 4
  Hook = {"h1", "h2"}
  Name = {"a", "b"}
  Config <- MCConfig
  MaxRuns = 3
  Owner = {"c1", "c2"}
  Policies <- MCPolicies
  Lifetime = 6
CHECK_DEADLOCK FALSE
INVARIANT TypeOK
INVARIANT TransformsAreSound
INVARIANT RetentionIsSound
PROPERTY ReportsAreListens
PROPERTY NewTracksAreFound
PROPERTY RepeatsAreFound
