\* next beside a submission: the late claim gives out a committed step again.
CONSTANTS
  build = build  look = look  test = test  judge = judge  pair = pair
  Strategy <- ShortStrategy
  GroupOf <- UngroupedSteps
  Workers <- Builders
  Finishers = {judge}
  None = None
  Cli = {c1, c2}
  Mode = "gatekeeper"
  MaxIters = 1
  MaxCrossed = 8
  DiesInWrite = FALSE
  CanStop = FALSE
  MaxFaults = 0
  MaxLog = 8
SPECIFICATION Spec
INVARIANTS ClaimedStepIsSubmittable
CHECK_DEADLOCK FALSE
