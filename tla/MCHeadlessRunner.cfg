\* Two iterations of four steps with four controls, with a limit of one retry or none.
CONSTANTS
  build = build  look = look  test = test  judge = judge
  again = again  stuck = stuck  rescue = rescue  veto = veto
  Strategy <- GroupStrategy
  GroupOf <- GroupedSteps
  Guarded = {build, look, test, again, rescue}
  Judges = {judge}
  Finishers = {judge}
  Controls <- FourControls
  ControlOf <- ControlTable
  MaxIters = 2
  RetryLimits = {0, 1}
  None = None
SPECIFICATION FairSpec
INVARIANTS StrategyInOrder SuccessIsEarned StopIsNotSwallowed
PROPERTIES HeadlessRunEnds
\* The run ends.
CHECK_DEADLOCK FALSE
