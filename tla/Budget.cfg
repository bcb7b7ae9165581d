SPECIFICATION Spec
CONSTANTS
  Issues = {1, 2}
  Runs = {r1, r2}
  NoRun = NoRun
  TicketsPerCycle = 1
  MergeOn = TRUE
  Acts = {"merge"}
  MaxFaults = 0
  MaxClicks = 2
  MaxStops = 1
PROPERTY PoolSpec
