CONSTANTS
  DoneWhen = {"check"}
  Advisory = {"surface"}
  GatekeeperMode = TRUE
  EvidenceIds = {"e1", "e2", "e3", "g"}
  Items <- FinishItems
  MaxItems = 4
SPECIFICATION Spec
INVARIANTS
  TypeOK
  StatusByHistory
  CoveredRefsAreCurrent
  RejectionBlocksCoverage
  PassableCoverageIsSupported
CHECK_DEADLOCK FALSE
