\* A death between the commit and its evidence.
CONSTANTS
  build = build  look = look  test = test  judge = judge  pair = pair
  Strategy <- ShortStrategy
  GroupOf <- UngroupedSteps
  Workers <- Builders
  Finishers = {judge}
  None = None
  Cli = {c1}
  Mode = "gatekeeper"
  MaxIters = 1
  MaxCrossed = 0
  DiesInWrite = FALSE
  CanStop = FALSE
  MaxFaults = 1
  MaxLog = 40
SPECIFICATION Spec
INVARIANTS CommitHasItsEvidence
CHECK_DEADLOCK FALSE
