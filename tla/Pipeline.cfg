SPECIFICATION FairSpec
CONSTANTS
  MaxQARounds = 2
  Rounds = 2
  UatOn = TRUE
  MaxSessions = 5
  MaxText = 2
  MaxRuns = 3
  MaxMishaps = 1
CHECK_DEADLOCK FALSE
INVARIANT OneChecklist
INVARIANT UatInsidePipeline
PROPERTY NoStageAgain
PROPERTY CompleteStaysClosed
PROPERTY ReviewProgress
PROPERTY RunEnds
