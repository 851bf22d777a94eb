CONSTANTS
  DoneWhen = {"check"}
  Advisory = {"surface"}
  GatekeeperMode = FALSE
  EvidenceIds = {"e1", "e2", "e3", "g"}
  Items <- RoundsItems
  MaxItems = 4
  MaxUnrecorded = 1
SPECIFICATION VerdictSpec
INVARIANT
  EvidenceRefusedForItsRefs
CHECK_DEADLOCK FALSE
