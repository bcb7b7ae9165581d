SPECIFICATION FairSpec
CONSTANTS
  Requests = {q1, q2}
  MaxRuns = 1
  MaxTrouble = 1
CHECK_DEADLOCK FALSE
INVARIANT OutcomeShown
INVARIANT AnnouncedWhenDone
PROPERTY ListingAdvances
PROPERTY TitleSettles
PROPERTY LinkFound
