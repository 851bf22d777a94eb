----------------------------- MODULE RunStream ------------------------------
(***************************************************************************)
(* What a run's event stream promises whoever appends to it: the workers,  *)
(* CLI processes and web requests of Loopora are one arbitrary client that *)
(* offers any well-shaped event with any causation id, and the store       *)
(* appends the event exactly when EventStore!Accepts lets it.              *)
(*                                                                         *)
(* A transaction of the engine adds several events in one step, each one   *)
(* accepted on top of those before it (EventStore!AcceptedExtension): the  *)
(* promises below follow from that alone, which is what RunStreamProofs    *)
(* shows, so they hold for the engine's own steps as well.                 *)
(***************************************************************************)
EXTENDS EventStore, FiniteSets

CONSTANTS Starts,     \* the streams the instance starts from and what the clients offer to
                      \* each: event types, verdict payloads; bound: its length
          Evidence,   \* the evidence payloads they offer
          Coverages   \* the coverage payloads they offer

VerdictPayloads == [status : VerdictStatuses, refs : SUBSET EvidenceIds,
                    gaps : SUBSET GapStatuses, risk : RiskStates]

ASSUME OfferAssumption ==
  /\ \A s \in Starts :
       s.types \subseteq EventTypes /\ s.verdicts \subseteq VerdictPayloads /\ s.length \in Nat
  /\ Evidence \subseteq [id : EvidenceIds, refs : SUBSET EvidenceIds,
                         measured : BOOLEAN, target : BOOLEAN]
  /\ Coverages \subseteq [status : CoverageStatuses, gaps : SUBSET GapStatuses]

ASSUME InitLogAssumption == \A s \in Starts : s.log \in Seq(Event) /\ WellFormed(s.log)

VARIABLE log

Init == log \in {s.log : s \in Starts}

\* The stream goes on from s.
From(s) == Len(s.log) <= Len(log) /\ SubSeq(log, 1, Len(s.log)) = s.log

Offered == {s \in Starts : /\ From(s) /\ Len(log) < s.length
                           /\ \A t \in Starts : From(t) => Len(t.log) <= Len(s.log)}

\* One append: BEGIN IMMEDIATE, the invariants, the insert, COMMIT.
AppendEvent(e) ==
  /\ Accepts(log, e)
  /\ log' = Append(log, e)

\* The types whose append invariants read the causation id.
CausallyBound == DOMAIN StepSource \cup VerdictEventTypes
                   \cup {"RunClosed", "EvidenceLinkedToTarget", "CoverageRecomputed"}

\* Causation ids a client may hold: any event of the stream, no event, or an id the
\* store does not know.  For the other types the last event stands for all.
Causes(t) == IF t \in CausallyBound THEN 0 .. Len(log) + 1
             ELSE {Len(log), Len(log) + 1}

AppendLifecycle(s) == 
  \E t \in s.types \cap RunEventTypes : \E c \in Causes(t) : AppendEvent(PlainEvent(t, c))

AppendStep(s) ==
  \E t \in s.types \cap StepEventTypes, step \in Steps, i \in Iterations : \E c \in Causes(t) :
    AppendEvent(StepEvent(t, c, step, i))

AppendIteration(s) ==
  \E t \in s.types \cap IterationEventTypes, i \in Iterations : \E c \in Causes(t) :
    AppendEvent(IterationEvent(t, c, i))

AppendEvidence(s) ==
  \E t \in s.types \cap (EvidenceEventTypes \ {"CoverageRecomputed"}), p \in Evidence :
  \E c \in Causes(t) :
    AppendEvent(EvidenceEvent(t, c, p.id, p.refs, p.measured, p.target))

AppendCoverage(s) ==
  \E t \in s.types \cap {"CoverageRecomputed"}, p \in Coverages : \E c \in Causes(t) :
    AppendEvent(CoverageEvent(c, p.status, p.gaps))

RequestVerdict(s) ==
  \E t \in s.types \cap {"VerdictRequested"} : \E c \in Causes(t) :
    AppendEvent(PlainEvent(t, c))

IssueVerdict(s) ==
  \E t \in s.types \cap {"VerdictIssued"}, p \in s.verdicts : \E c \in Causes(t) :
    AppendEvent(VerdictEvent(t, c, p.status, p.refs, p.gaps, p.risk))

AppendClosure(s) ==
  \E t \in s.types \cap {"VerdictAllowedClosure", "VerdictBlockedClosure"} : \E c \in Causes(t) :
    AppendEvent(PlainEvent(t, c))

SelectNextGap(s) ==
  \E t \in s.types \cap {"NextGapSelected"}, g \in GapStatuses : \E c \in Causes(t) :
    AppendEvent(VerdictEvent(t, c, NoStatus, {}, {g}, "none"))

AcceptRisk(s) ==
  \E t \in s.types \cap {"ResidualRiskAccepted"}, r \in RiskStates : \E c \in Causes(t) :
    AppendEvent(VerdictEvent(t, c, NoStatus, {}, {}, r))

Next ==
  \E s \in Offered :
    \/ AppendLifecycle(s) \/ AppendStep(s) \/ AppendIteration(s)
    \/ AppendEvidence(s) \/ AppendCoverage(s)
    \/ RequestVerdict(s) \/ IssueVerdict(s)
    \/ AppendClosure(s) \/ SelectNextGap(s) \/ AcceptRisk(s)

Spec == Init /\ [][Next]_log

-----------------------------------------------------------------------------
(* Safety.                                                                 *)

\* Every event is a well-formed record, and its causation id names an earlier
\* event of the stream (_require_causation_event_exists_for_connection).
TypeOK ==
  /\ log \in Seq(Event)
  /\ \A k \in DOMAIN log : log[k].cause < k

\* A run's lifecycle ends once: after RunClosed, RunStopped or RunFailed no
\* lifecycle event is ever appended, whichever client raced to append it.
TerminalIsFinal ==
  \A j, k \in DOMAIN log :
    (j < k /\ log[j].type \in TerminalEventTypes) => log[k].type \notin RunEventTypes

\* A submission gets at most one decision, an acceptance at most one commit, and
\* a commit advances the strategy at most once.
StepAnsweredOnce ==
  \A j, k \in DOMAIN log :
    (j # k /\ log[j].cause = log[k].cause /\ log[j].cause # 0) =>
      /\ ~(/\ log[j].type \in {"StepAccepted", "StepSubmissionRejected"}
           /\ log[k].type \in {"StepAccepted", "StepSubmissionRejected"})
      /\ ~(log[j].type = "StepCommitted" /\ log[k].type = "StepCommitted")
      /\ ~(log[j].type = "StrategyAdvanced" /\ log[k].type = "StrategyAdvanced")

\* Every strategy advance is the end of a chain submission - acceptance - commit of
\* one step in one iteration, and that submission was never rejected.
AdvanceTracesToSubmission ==
  \A k \in DOMAIN log : log[k].type = "StrategyAdvanced" =>
    \E c, a, s \in DOMAIN log :
      /\ s < a /\ a < c /\ c < k
      /\ log[c].type = "StepCommitted" /\ log[k].cause = c
      /\ log[a].type = "StepAccepted" /\ log[c].cause = a
      /\ log[s].type = "StepSubmitted" /\ log[a].cause = s
      /\ log[s].step = log[k].step /\ log[s].iter = log[k].iter
      /\ ~\E r \in DOMAIN log : log[r].type = "StepSubmissionRejected" /\ log[r].cause = s

\* A passing verdict rests on accepted evidence: the last coverage before it is
\* covered or weak and itself follows an accepted evidence item.
PassRestsOnEvidence ==
  \A v \in DOMAIN log :
    (log[v].type = "VerdictIssued" /\ log[v].status \in PassingVerdicts) =>
      \E c, e \in DOMAIN log :
        /\ e < c /\ c < v
        /\ log[c].type = "CoverageRecomputed" /\ log[c].status \in PassableCoverage
        /\ \A j \in c + 1 .. v - 1 : log[j].type # "CoverageRecomputed"
        /\ log[e].type = "EvidenceAccepted"

\* A verdict that was issued while the last coverage was blocked says blocked.
BlockedCoverageIsNeverPassedOver ==
  \A c, v \in DOMAIN log :
    (/\ c < v
     /\ log[c].type = "CoverageRecomputed" /\ log[c].status = "blocked"
     /\ log[v].type = "VerdictIssued" /\ log[v].status # "blocked") =>
      \E j \in c + 1 .. v - 1 : log[j].type = "CoverageRecomputed"

\* A run closed on a verdict was closed on the newest one of that moment, and the
\* chain below it reaches accepted evidence.
ClosureRestsOnEvidence ==
  \A k \in DOMAIN log :
    (log[k].type = "RunClosed" /\ log[k].cause # 0) =>
      /\ log[log[k].cause].type = "VerdictIssued"
      /\ log[log[k].cause].status \in PassingVerdicts
      /\ \A j \in log[k].cause + 1 .. k - 1 : log[j].type # "VerdictIssued"
      /\ \E e \in 1 .. log[k].cause : log[e].type = "EvidenceAccepted"

\* One verdict yields at most one next gap per closure, and the gap is one that
\* verdict named: a gap is never selected for a verdict already superseded.
GapOfTheVerdictInForce ==
  \A k \in DOMAIN log : log[k].type = "NextGapSelected" =>
    LET closure == log[k].cause  verdict == log[closure].cause IN
      /\ log[verdict].type = "VerdictIssued" /\ log[verdict].status \notin PassingVerdicts
      /\ log[k].gaps \subseteq log[verdict].gaps
      /\ \A j \in verdict + 1 .. k - 1 : log[j].type # "VerdictIssued"
      /\ \A j \in closure + 1 .. k - 1 :
           ~(log[j].type = "NextGapSelected" /\ log[j].cause = closure)

\* A residual risk is accepted only for the newest verdict, and only when that
\* verdict passed with a risk someone manages.
RiskOfTheVerdictInForce ==
  \A k \in DOMAIN log : log[k].type = "ResidualRiskAccepted" =>
    LET closure == log[k].cause  verdict == log[closure].cause IN
      /\ log[verdict].status = "passed_with_residual_risk"
      /\ log[verdict].risk = "managed"
      /\ \A j \in verdict + 1 .. k - 1 : log[j].type # "VerdictIssued"
=============================================================================
