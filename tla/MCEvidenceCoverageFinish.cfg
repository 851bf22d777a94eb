CONSTANTS
  DoneWhen = {"check"}
  Advisory = {"surface"}
  GatekeeperMode = TRUE
  EvidenceIds = {"e1", "e2", "e3", "g"}
  Items <- FinishItems
  MaxItems = 2
SPECIFICATION Spec
INVARIANT
  FinishNeedsVerdict
CHECK_DEADLOCK FALSE
