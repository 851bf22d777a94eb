----------------------------- MODULE EventStore -----------------------------
(***************************************************************************)
(* One run's domain event stream and the append invariants that the store  *)
(* enforces inside the appending SQLite transaction                        *)
(* (db_domain_event_records.py, events/invariants/*.py).                   *)
(*                                                                         *)
(* A stream is a sequence; an event's id is its position in it (ids are    *)
(* fresh and sequence = max + 1 is computed under BEGIN IMMEDIATE).  An    *)
(* event is one flat record; a field that its type does not carry holds    *)
(* the neutral value.  Payload texts, counts and shapes are abstracted:    *)
(*   refs    the evidence ids a "verifies" list or a verdict's             *)
(*           evidence_refs name                                            *)
(*   target  the "verifies" list (or link) names a coverage target         *)
(*   gaps    the statuses of the entries of top_gaps / next_gap            *)
(*   risk    whether the residual_risk bucket is empty, managed or not     *)
(* The other target counts follow from status and gaps: the store accepts  *)
(* a nonzero blocked count exactly with status "blocked".                  *)
(***************************************************************************)
EXTENDS Naturals, Sequences

CONSTANTS Steps,        \* step ids of the strategy
          Iterations,   \* iteration numbers
          EvidenceIds   \* evidence ids

NoStep == "no_step"
NoEvidence == "no_evidence"
NoStatus == "no_status"

ASSUME NamesAssumption == /\ NoStep \notin Steps
                          /\ NoEvidence \notin EvidenceIds
                          /\ Iterations \subseteq Nat

RunEventTypes == {"RunCreated", "RunStarted", "RunPausedForActor", "RunResumed",
                  "RunStopped", "RunFailed", "RunClosed"}

TerminalEventTypes == {"RunClosed", "RunStopped", "RunFailed"}

StepEventTypes == {"StepPlanned", "StepClaimed", "StepInstructionIssued",
                   "StepSubmitted", "StepSubmissionRejected", "StepAccepted",
                   "StepCommitted", "StrategyAdvanced"}

IterationEventTypes == {"IterationStarted", "IterationCompleted"}

EvidenceEventTypes == {"EvidenceSubmitted", "EvidenceAccepted",
                       "EvidenceLinkedToTarget", "CoverageRecomputed"}

VerdictEventTypes == {"VerdictRequested", "VerdictIssued", "VerdictAllowedClosure",
                      "VerdictBlockedClosure", "ResidualRiskAccepted", "NextGapSelected"}

EventTypes == RunEventTypes \cup StepEventTypes \cup IterationEventTypes
                \cup EvidenceEventTypes \cup VerdictEventTypes

CoverageStatuses == {"partial", "covered", "weak", "blocked"}
PassableCoverage == {"covered", "weak"}

VerdictStatuses == {"not_evaluated", "continue_required", "blocked", "passed",
                    "passed_with_residual_risk"}
PassingVerdicts == {"passed", "passed_with_residual_risk"}

GapStatuses == {"missing", "weak", "blocked"}
RiskStates == {"none", "managed", "unmanaged"}

Event == [type : EventTypes, cause : Nat,
          step : Steps \cup {NoStep}, iter : Nat,
          status : CoverageStatuses \cup VerdictStatuses \cup {NoStatus},
          id : EvidenceIds \cup {NoEvidence}, refs : SUBSET EvidenceIds,
          measured : BOOLEAN, target : BOOLEAN,
          gaps : SUBSET GapStatuses, risk : RiskStates]

-----------------------------------------------------------------------------
(* Constructors of the append requests.                                    *)

PlainEvent(type, cause) ==
  [type |-> type, cause |-> cause, step |-> NoStep, iter |-> 0, status |-> NoStatus,
   id |-> NoEvidence, refs |-> {}, measured |-> FALSE, target |-> FALSE,
   gaps |-> {}, risk |-> "none"]

StepEvent(type, cause, step, iter) ==
  [PlainEvent(type, cause) EXCEPT !.step = step, !.iter = iter]

IterationEvent(type, cause, iter) == [PlainEvent(type, cause) EXCEPT !.iter = iter]

EvidenceEvent(type, cause, id, refs, measured, target) ==
  [PlainEvent(type, cause) EXCEPT !.id = id, !.refs = refs,
                                  !.measured = measured, !.target = target]

CoverageEvent(cause, status, gaps) ==
  [PlainEvent("CoverageRecomputed", cause) EXCEPT !.status = status, !.gaps = gaps]

VerdictEvent(type, cause, status, refs, gaps, risk) ==
  [PlainEvent(type, cause) EXCEPT !.status = status, !.refs = refs,
                                  !.gaps = gaps, !.risk = risk]

-----------------------------------------------------------------------------
(* Queries on a stream.                                                    *)

\* k is the latest event of this type (latest_event_row).
IsLatest(log, type, k) ==
  /\ k \in DOMAIN log
  /\ log[k].type = type
  /\ \A j \in DOMAIN log : j > k => log[j].type # type

Has(log, type) == \E k \in DOMAIN log : log[k].type = type

\* Some event of one of these types was already caused by event k.
Answered(log, k, types) ==
  \E j \in DOMAIN log : log[j].type \in types /\ log[j].cause = k

AcceptedEvidence(log) ==
  {log[k].id : k \in {j \in DOMAIN log : log[j].type = "EvidenceAccepted"}}

Terminated(log) == \E k \in DOMAIN log : log[k].type \in TerminalEventTypes

-----------------------------------------------------------------------------
(* The append invariants, one operator per require_* family.               *)

\* Fault: the id is not looked up.
CausationUnchecked(log, e) == TRUE

CausationExists(log, e) == e.cause = 0 \/ e.cause \in DOMAIN log

\* Fault: a stopped run is not counted as terminal.
LifecycleAllowedAfterStop(log, e) ==
  e.type \in RunEventTypes =>
    ~\E k \in DOMAIN log : log[k].type \in TerminalEventTypes \ {"RunStopped"}

LifecycleAllowed(log, e) == e.type \in RunEventTypes => ~Terminated(log)

\* Fault: any passing verdict will do, not only the latest.
ClosedByAnyPassingVerdict(log, e) ==
  (e.type = "RunClosed" /\ e.cause # 0) =>
    /\ e.cause \in DOMAIN log /\ log[e.cause].type = "VerdictIssued"
    /\ log[e.cause].status \in PassingVerdicts

\* A RunClosed without causation is the legacy_compat closure.
ClosedByLatestPassingVerdict(log, e) ==
  (e.type = "RunClosed" /\ e.cause # 0) =>
    /\ IsLatest(log, "VerdictIssued", e.cause)
    /\ log[e.cause].status \in PassingVerdicts

StepSource == [t \in {"StepAccepted", "StepSubmissionRejected", "StepCommitted",
                      "StrategyAdvanced"} |->
                 CASE t = "StepCommitted" -> "StepAccepted"
                   [] t = "StrategyAdvanced" -> "StepCommitted"
                   [] OTHER -> "StepSubmitted"]

StepCausedByLatestSource(log, e) ==
  e.type \in DOMAIN StepSource =>
    /\ IsLatest(log, StepSource[e.type], e.cause)
    /\ e.step = log[e.cause].step
    /\ e.iter = log[e.cause].iter

\* Fault: a rejection does not look for an earlier acceptance.
DecisionOpenForAccept(log, e) ==
  e.type = "StepAccepted" =>
    ~Answered(log, e.cause, {"StepAccepted", "StepSubmissionRejected"})

DecisionOpen(log, e) ==
  e.type \in {"StepAccepted", "StepSubmissionRejected"} =>
    ~Answered(log, e.cause, {"StepAccepted", "StepSubmissionRejected"})

\* Fault: only commits are counted, a second strategy advance slips through.
CommitOpenForCommit(log, e) ==
  e.type = "StepCommitted" => ~Answered(log, e.cause, {e.type})

CommitOpen(log, e) ==
  e.type \in {"StepCommitted", "StrategyAdvanced"} => ~Answered(log, e.cause, {e.type})

EvidenceRefsAccepted(log, e) ==
  e.type = "EvidenceAccepted" =>
    e.refs \subseteq AcceptedEvidence(log) \cup (IF e.measured THEN {e.id} ELSE {})

LinkCausedByLatestEvidence(log, e) ==
  e.type = "EvidenceLinkedToTarget" => IsLatest(log, "EvidenceAccepted", e.cause)

CoverageGapsMatchStatus(log, e) ==
  e.type = "CoverageRecomputed" =>
    /\ e.status \in CoverageStatuses
    /\ e.status = "covered" => e.gaps = {}
    /\ "blocked" \in e.gaps => e.status = "blocked"

\* Fault: any event may cause a passable coverage.
PassableCoverageCausedByAnything(log, e) ==
  (e.type = "CoverageRecomputed" /\ e.status \in PassableCoverage) => e.cause # 0

PassableCoverageCausedByEvidence(log, e) ==
  (e.type = "CoverageRecomputed" /\ e.status \in PassableCoverage) =>
    \/ /\ IsLatest(log, "EvidenceAccepted", e.cause)
       /\ log[e.cause].target \/ log[e.cause].refs # {}
    \/ /\ Has(log, "EvidenceAccepted")
       /\ IsLatest(log, "EvidenceLinkedToTarget", e.cause)

VerdictCausedByLatestCoverage(log, e) ==
  (e.type \in {"VerdictRequested", "VerdictIssued"} /\ Has(log, "CoverageRecomputed")) =>
    \/ IsLatest(log, "CoverageRecomputed", e.cause)
    \/ /\ e.type = "VerdictIssued"
       /\ IsLatest(log, "VerdictRequested", e.cause)
       /\ IsLatest(log, "CoverageRecomputed", log[e.cause].cause)

ClosureMatchesLatestVerdict(log, e) ==
  e.type \in {"VerdictAllowedClosure", "VerdictBlockedClosure"} =>
    /\ IsLatest(log, "VerdictIssued", e.cause)
    /\ (e.type = "VerdictAllowedClosure") <=> (log[e.cause].status \in PassingVerdicts)

\* Fault: the verdict behind the closure may be superseded.
FollowsAnyClosureOnce(log, e, closure) ==
  /\ IsLatest(log, closure, e.cause)
  /\ ~Answered(log, e.cause, {e.type})

\* The event follows the latest closure of that kind, once, while the verdict it
\* closed is still the latest one.
FollowsClosureOnce(log, e, closure) ==
  /\ IsLatest(log, closure, e.cause)
  /\ ~Answered(log, e.cause, {e.type})
  /\ IsLatest(log, "VerdictIssued", log[e.cause].cause)

NextGapFromLatestVerdict(log, e) ==
  e.type = "NextGapSelected" =>
    /\ FollowsClosureOnce(log, e, "VerdictBlockedClosure")
    /\ e.gaps # {}
    /\ e.gaps \subseteq log[log[e.cause].cause].gaps

\* Fault: the verdict's status is not checked.
RiskFromAnyLatestVerdict(log, e) ==
  e.type = "ResidualRiskAccepted" =>
    /\ FollowsClosureOnce(log, e, "VerdictAllowedClosure")
    /\ e.risk = "managed"
    /\ log[log[e.cause].cause].risk = "managed"

RiskFromLatestVerdict(log, e) ==
  e.type = "ResidualRiskAccepted" =>
    /\ FollowsClosureOnce(log, e, "VerdictAllowedClosure")
    /\ e.risk = "managed"
    /\ log[log[e.cause].cause].status = "passed_with_residual_risk"
    /\ log[log[e.cause].cause].risk = "managed"

VerdictRefsAccepted(log, e) ==
  e.type = "VerdictIssued" => e.refs \subseteq AcceptedEvidence(log)

VerdictGapsMatchStatus(log, e) ==
  e.type = "VerdictIssued" =>
    /\ e.status \in VerdictStatuses
    /\ "blocked" \in e.gaps => e.status = "blocked"
    /\ e.status \in PassingVerdicts => e.gaps = {}

\* Fault: only passing verdicts are held back by a blocked coverage.
BlockedCoverageBlocksPass(log, e) ==
  (e.type = "VerdictIssued" /\ e.status \in PassingVerdicts) =>
    \A k \in DOMAIN log :
      IsLatest(log, "CoverageRecomputed", k) => log[k].status # "blocked"

BlockedCoverageBlocksVerdict(log, e) ==
  (e.type = "VerdictIssued" /\ e.status # "blocked") =>
    \A k \in DOMAIN log :
      IsLatest(log, "CoverageRecomputed", k) => log[k].status # "blocked"

PassingVerdictNeedsPassableCoverage(log, e) ==
  (e.type = "VerdictIssued" /\ e.status \in PassingVerdicts) =>
    \E k \in DOMAIN log :
      IsLatest(log, "CoverageRecomputed", k) /\ log[k].status \in PassableCoverage

ResidualRiskIsManaged(log, e) ==
  (e.type = "VerdictIssued" /\ e.status = "passed_with_residual_risk") => e.risk = "managed"

\* The append of e to the stream is accepted: no require_* raises.
Accepts(log, e) ==
  /\ CausationExists(log, e)
  /\ LifecycleAllowed(log, e)
  /\ ClosedByLatestPassingVerdict(log, e)
  /\ StepCausedByLatestSource(log, e)
  /\ DecisionOpen(log, e)
  /\ CommitOpen(log, e)
  /\ EvidenceRefsAccepted(log, e)
  /\ LinkCausedByLatestEvidence(log, e)
  /\ CoverageGapsMatchStatus(log, e)
  /\ PassableCoverageCausedByEvidence(log, e)
  /\ VerdictCausedByLatestCoverage(log, e)
  /\ ClosureMatchesLatestVerdict(log, e)
  /\ NextGapFromLatestVerdict(log, e)
  /\ RiskFromLatestVerdict(log, e)
  /\ VerdictRefsAccepted(log, e)
  /\ VerdictGapsMatchStatus(log, e)
  /\ BlockedCoverageBlocksVerdict(log, e)
  /\ PassingVerdictNeedsPassableCoverage(log, e)
  /\ ResidualRiskIsManaged(log, e)

-----------------------------------------------------------------------------
(* Streams built by accepted appends.                                      *)

WellFormed(s) == \A k \in DOMAIN s : Accepts(SubSeq(s, 1, k - 1), s[k])

\* t is s after one transaction: its events were appended one by one, each accepted on
\* top of those before it; a refused append rolls the whole transaction back.
AcceptedExtension(s, t) ==
  /\ Len(s) <= Len(t)
  /\ SubSeq(t, 1, Len(s)) = s
  /\ \A k \in Len(s) + 1 .. Len(t) : Accepts(SubSeq(t, 1, k - 1), t[k])
=============================================================================
