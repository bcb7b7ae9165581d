SPECIFICATION FairSpec
CONSTANTS
  Procs = {p1, p2, p3}
  Stale = Stale
  Absent = Absent
CHECK_DEADLOCK FALSE
INVARIANT SoleOwner
INVARIANT SomebodyWins
PROPERTY TakenOver
