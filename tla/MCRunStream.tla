---------------------------- MODULE MCRunStream -----------------------------
(* An instance of RunStream with a start for each family of events.        *)
EXTENDS RunStream

Created == PlainEvent("RunCreated", 0)

\* A run that has accepted one evidence item and stands at weak coverage.
WeakCoverage ==
  <<Created,
    EvidenceEvent("EvidenceAccepted", 0, "e1", {}, FALSE, TRUE),
    CoverageEvent(2, "weak", {"weak"})>>

Started == <<Created, PlainEvent("RunStarted", 1)>>

StepTypes == {"RunStarted", "RunStopped", "IterationStarted", "StepSubmitted", "StepSubmissionRejected",
              "StepAccepted", "StepCommitted", "StrategyAdvanced"}

ReportTypes == {"RunClosed", "EvidenceAccepted", "EvidenceLinkedToTarget",
                "CoverageRecomputed", "VerdictIssued"}

ClosureTypes == {"RunClosed", "VerdictRequested", "VerdictIssued", "VerdictAllowedClosure",
                 "VerdictBlockedClosure", "NextGapSelected", "ResidualRiskAccepted"}

Payload(id, refs, measured, target) ==
  [id |-> id, refs |-> refs, measured |-> measured, target |-> target]

\* One item that names a target, one that only cites another item, one that cites
\* itself as a measured item, and one that names neither.
EvidenceOffers == {Payload("e1", {}, FALSE, TRUE), Payload("e2", {"e1"}, FALSE, FALSE),
                   Payload("e2", {"e2"}, TRUE, FALSE), Payload("e2", {}, FALSE, FALSE)}

CoverageOffers == {[status |-> s, gaps |-> {}] : s \in {"blocked", "partial", "weak"}}

Verdict(s, refs, gaps, risk) == [status |-> s, refs |-> refs, gaps |-> gaps, risk |-> risk]

\* Step and lifecycle events of a run that has started; evidence, coverage, verdict and
\* closing events of a new one; verdict, closure, gap and risk events of one with weak coverage.
FamilyStarts ==
  {[log |-> Started, types |-> StepTypes, verdicts |-> {}, length |-> 8],
   [log |-> WeakCoverage, types |-> ClosureTypes, length |-> 8, verdicts |->
      {Verdict("blocked", {}, {"missing", "blocked"}, "none"),
       Verdict("continue_required", {}, {"weak"}, "none"),
       Verdict("passed", {}, {}, "managed"),
       Verdict("passed", {}, {"weak"}, "none"),
       Verdict("passed_with_residual_risk", {}, {}, "managed"),
       Verdict("passed_with_residual_risk", {}, {}, "unmanaged")}],
   [log |-> <<Created>>, types |-> ReportTypes, length |-> 6, verdicts |->
      {Verdict("not_evaluated", {}, {}, "none"), Verdict("passed", {"e1"}, {}, "none"),
       Verdict("blocked", {}, {}, "none")}]}
=============================================================================
