SPECIFICATION FairSpec
CONSTANTS
  Issues = {1, 2}
  Runs = {r1}
  NoRun = NoRun
  TicketsPerCycle = 1
  MergeOn = FALSE
  Acts = {"requeue"}
  MaxFaults = 1
  MaxClicks = 1
  MaxStops = 1
PROPERTY EligibleIsTaken
PROPERTY OrphansRecovered
PROPERTY ShutdownExits
PROPERTY SweepSparesLive
