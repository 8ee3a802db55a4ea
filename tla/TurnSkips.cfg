CONSTANTS
  c1 = c1
  c2 = c2
  none = none
  y1 = y1
  Charts = {c1}
  TimeContexts = {none}
  Aspects = {"CAREER"}
  MaxWorkers = 2
  MaxTurns = 1
  MaxFailures = 1
SPECIFICATION Spec
INVARIANTS
  SkippedAfterFailure
CHECK_DEADLOCK FALSE
