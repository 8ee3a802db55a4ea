CONSTANTS
  Inputs <- Throws
  Births <- AllBirths
  Ages <- SixtyYears
  Reported <- SomeBirths
  Charts <- AllPillars
  Consulted <- SomePillars
  Mates <- AllMates
  Queried = {3, 17, 38, 52}
SPECIFICATION ChartsSpec
INVARIANTS
  HexagramsFollowThePalaces
  StarsStandByTheRules
  StarsFollowTheCycle
\* A chart is made and read.
CHECK_DEADLOCK FALSE
