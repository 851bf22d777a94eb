\* Two calls at a time: submissions without limit, claims beside them on short streams.
CONSTANTS
  build = build  look = look  test = test  judge = judge  pair = pair
  Strategy <- GroupStrategy
  GroupOf <- GroupedSteps
  Workers <- Builders
  Finishers = {judge}
  None = None
  Cli = {c1, c2}
  Mode = "gatekeeper"
  MaxIters = 2
  DiesInWrite = TRUE
  CanStop = FALSE
  MaxFaults = 1
  MaxLog = 40
  MaxCrossed = 3
SPECIFICATION Spec
SYMMETRY Symmetry
INVARIANTS StepCommittedOnce CommitsFollowTheStrategy PassEndsTheRun GroupSeesTheSameInputs
PROPERTIES ResumePointNeverGoesBack
\* The run ends.
CHECK_DEADLOCK FALSE
