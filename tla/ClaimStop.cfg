SPECIFICATION Spec
CONSTANTS
  Issues = {i1, i2}
  Nobody = Nobody
  MaxAttempts = 2
  MaxBase = 1
  MaxWork = 1
  MaxRuns = 3
  MaxMishaps = 1
CHECK_DEADLOCK FALSE
INVARIANT StopIsNotDestructive
