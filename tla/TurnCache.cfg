CONSTANTS
  c1 = c1
  c2 = c2
  none = none
  y1 = y1
  Charts = {c1, c2}
  TimeContexts = {none, y1}
  Aspects = {"CAREER"}
  MaxWorkers = 2
  MaxTurns = 2
  MaxFailures = 2
SYMMETRY Symmetry
SPECIFICATION Spec
INVARIANTS
  TurnsAreWhole
  QuotesThisTurn
PROPERTIES
  RepeatIsFree
CHECK_DEADLOCK FALSE
