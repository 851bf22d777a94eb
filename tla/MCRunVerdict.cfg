CONSTANTS
  DoneWhen = {"check"}
  Advisory = {"surface"}
  GatekeeperMode = TRUE
  EvidenceIds = {"e1", "e2", "e3", "g"}
  Items <- VerdictItems
  MaxItems = 4
  MaxUnrecorded = 1
SPECIFICATION VerdictSpec
INVARIANTS
  StatusByHistory
  RejectionBlocksCoverage
  PassableCoverageIsSupported
  PassIsEarned
  RefusalIsExplained
CHECK_DEADLOCK FALSE
