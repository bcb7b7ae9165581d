SPECIFICATION Spec
CONSTANTS
  MaxQARounds = 1
  Rounds = 2
  UatOn = TRUE
  MaxSessions = 4
  MaxText = 2
  MaxRuns = 3
  MaxMishaps = 0
CHECK_DEADLOCK FALSE
INVARIANT SnapshotWasSeen
