\* Three starts, one per family of events.
CONSTANTS
  Steps = {"s1", "s2"}
  Iterations = {0}
  EvidenceIds = {"e1", "e2"}
  Evidence <- EvidenceOffers
  Coverages <- CoverageOffers
  Starts <- FamilyStarts
SPECIFICATION Spec
INVARIANTS StepAnsweredOnce AdvanceTracesToSubmission GapOfTheVerdictInForce
  PassRestsOnEvidence BlockedCoverageIsNeverPassedOver ClosureRestsOnEvidence
\* The bounded log is full in the end.
CHECK_DEADLOCK FALSE
