\* Two next at the same time start an iteration twice.
CONSTANTS
  build = build  look = look  test = test  judge = judge  pair = pair
  Strategy <- ShortStrategy
  GroupOf <- UngroupedSteps
  Workers <- Builders
  Finishers = {judge}
  None = None
  Cli = {c1, c2}
  Mode = "gatekeeper"
  MaxIters = 1
  MaxCrossed = 8
  DiesInWrite = FALSE
  CanStop = FALSE
  MaxFaults = 0
  MaxLog = 8
SPECIFICATION Spec
INVARIANTS IterationStartedOnce
CHECK_DEADLOCK FALSE
