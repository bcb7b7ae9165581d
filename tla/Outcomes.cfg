SPECIFICATION Spec
CONSTANTS
  Issues = {1}
  Runs = {r1, r2}
  NoRun = NoRun
  TicketsPerCycle = 2
  MergeOn = TRUE
  Acts = {"stop", "continue", "requeue", "merge"}
  MaxFaults = 1
  MaxClicks = 2
  MaxStops = 1
SYMMETRY Symmetry
INVARIANT StopWins
INVARIANT NoStrandedWip
PROPERTY MarkerFollowsLabel
INVARIANT OneRunPerIssue
PROPERTY MergeRestores
