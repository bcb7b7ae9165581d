SPECIFICATION Spec
CONSTANTS
  Issues = {1}
  Runs = {r1, r2}
  NoRun = NoRun
  TicketsPerCycle = 1
  MergeOn = FALSE
  Acts = {"stop"}
  MaxFaults = 0
  MaxClicks = 2
  MaxStops = 0
INVARIANT StopFlagOwned
