\* A host that makes one call at a time and goes on; a stop, a death.
CONSTANTS
  build = build  look = look  test = test  judge = judge  pair = pair
  Strategy <- ShortStrategy
  GroupOf <- UngroupedSteps
  Workers <- Builders
  Finishers = {judge}
  None = None
  Cli = {c1}
  Mode = "rounds"
  MaxIters = 1
  DiesInWrite = FALSE
  CanStop = TRUE
  MaxFaults = 3
  MaxLog = 40
  MaxCrossed = 0
SPECIFICATION FairSpec
INVARIANTS RowEndsWithItsStream
PROPERTIES RunEnds
\* The run ends.
CHECK_DEADLOCK FALSE
