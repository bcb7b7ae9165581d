SPECIFICATION Spec
CONSTANTS
  Sessions = {s1, s2}
  Renders = {d1, d2}
  Shown = 1
  MaxCalls = 2
  MaxStream = 1
  MaxRuns = 2
  MaxFaults = 1
CHECK_DEADLOCK FALSE
SYMMETRY Symmetry
INVARIANT StepIsOneCall
INVARIANT StepsInOrder
INVARIANT EndedIsShown
PROPERTY ReadsAreFresh
