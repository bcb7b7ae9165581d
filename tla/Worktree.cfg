SPECIFICATION FairSpec
CONSTANTS
  Issues = {i1, i2}
  Nobody = Nobody
  MaxAttempts = 2
  MaxBase = 2
  MaxWork = 1
  MaxRuns = 3
  MaxMishaps = 2
CHECK_DEADLOCK FALSE
INVARIANT WorksInCheckout
PROPERTY StoreSpec
INVARIANT FastForward
INVARIANT LeftoversCleared
INVARIANT PushIsMerged
PROPERTY WorktreeRunEnds
