-------------------------- MODULE RunStreamProofs ---------------------------
(***************************************************************************)
(* The promises of the event stream for every set of steps, iterations and *)
(* evidence, every starting stream the store accepted, and every client.   *)
(*                                                                         *)
(* The argument has one invariant: the stream is WellFormed, that is, each *)
(* event was accepted on top of its prefix.  Appending an accepted event   *)
(* keeps it, and each promise follows from it by reading the guard of the  *)
(* later event in the prefix that holds the earlier one.                   *)
(***************************************************************************)
EXTENDS RunStream, TLAPS

\* The prefixes of a stream read the same events as the stream itself.
LEMMA PrefixFacts ==
  ASSUME NEW S, NEW s \in Seq(S), NEW k \in 1 .. Len(s)
  PROVE  /\ SubSeq(s, 1, k - 1) \in Seq(S)
         /\ DOMAIN SubSeq(s, 1, k - 1) = 1 .. k - 1
         /\ \A j \in 1 .. k - 1 : SubSeq(s, 1, k - 1)[j] = s[j]
OBVIOUS

\* A prefix of the longer stream is a prefix of the shorter one.
LEMMA AppendPrefix ==
  ASSUME NEW S, NEW s \in Seq(S), NEW e \in S
  PROVE  /\ SubSeq(Append(s, e), 1, Len(s)) = s
         /\ \A k \in 1 .. Len(s) : SubSeq(Append(s, e), 1, k - 1) = SubSeq(s, 1, k - 1)
OBVIOUS

\* An accepted append keeps a stream well formed.
LEMMA AppendKeepsWellFormed ==
  ASSUME NEW s \in Seq(Event), NEW e \in Event, WellFormed(s), Accepts(s, e)
  PROVE  WellFormed(Append(s, e))
<1> DEFINE t == Append(s, e)
<1>1. SUFFICES ASSUME NEW k \in DOMAIN t PROVE Accepts(SubSeq(t, 1, k - 1), t[k])
  BY DEF WellFormed
<1>2. CASE k \in 1 .. Len(s)
  <2>1. SubSeq(t, 1, k - 1) = SubSeq(s, 1, k - 1) /\ t[k] = s[k] /\ k \in DOMAIN s
    BY <1>2
  <2>2. QED
    BY <2>1 DEF WellFormed
<1>3. CASE k = Len(s) + 1
  <2>1. SubSeq(t, 1, k - 1) = s /\ t[k] = e
    BY <1>3
  <2>2. QED
    BY <2>1
<1>4. QED
  <2>1. k \in 1 .. Len(s) + 1
    OBVIOUS
  <2>2. QED
    BY <1>2, <1>3, <2>1

-----------------------------------------------------------------------------
(* Every step appends one accepted, well-formed event.                     *)

\* The constructors build events.
LEMMA Constructors ==
  ASSUME NEW t \in EventTypes, NEW c \in Nat
  PROVE  /\ PlainEvent(t, c) \in Event
         /\ \A s \in Steps, i \in Iterations : StepEvent(t, c, s, i) \in Event
         /\ \A i \in Iterations : IterationEvent(t, c, i) \in Event
         /\ \A p \in Evidence :
              EvidenceEvent(t, c, p.id, p.refs, p.measured, p.target) \in Event
         /\ \A p \in Coverages : CoverageEvent(c, p.status, p.gaps) \in Event
         /\ \A p \in VerdictPayloads :
              VerdictEvent(t, c, p.status, p.refs, p.gaps, p.risk) \in Event
         /\ \A g \in GapStatuses :
              VerdictEvent(t, c, NoStatus, {}, {g}, "none") \in Event
         /\ \A r \in RiskStates : VerdictEvent(t, c, NoStatus, {}, {}, r) \in Event
<1>1. PlainEvent(t, c) \in Event
  BY DEF PlainEvent, Event, RiskStates
<1>2. "CoverageRecomputed" \in EventTypes
  BY DEF EventTypes, EvidenceEventTypes
<1>3. PlainEvent("CoverageRecomputed", c) \in Event
  BY <1>2 DEF PlainEvent, Event, RiskStates
<1>4. \A s \in Steps, i \in Iterations : StepEvent(t, c, s, i) \in Event
  BY <1>1, NamesAssumption DEF StepEvent, Event
<1>5. \A i \in Iterations : IterationEvent(t, c, i) \in Event
  BY <1>1, NamesAssumption DEF IterationEvent, Event
<1>6. \A p \in Evidence : EvidenceEvent(t, c, p.id, p.refs, p.measured, p.target) \in Event
  BY <1>1, OfferAssumption DEF EvidenceEvent, Event
<1>7. \A p \in Coverages : CoverageEvent(c, p.status, p.gaps) \in Event
  BY <1>3, OfferAssumption DEF CoverageEvent, Event
<1>8. \A p \in VerdictPayloads : VerdictEvent(t, c, p.status, p.refs, p.gaps, p.risk) \in Event
  BY <1>1 DEF VerdictPayloads, VerdictEvent, Event
<1>9. \A g \in GapStatuses : VerdictEvent(t, c, NoStatus, {}, {g}, "none") \in Event
  BY <1>1 DEF VerdictEvent, Event, RiskStates
<1>10. \A r \in RiskStates : VerdictEvent(t, c, NoStatus, {}, {}, r) \in Event
  BY <1>1 DEF VerdictEvent, Event
<1>11. QED
  BY <1>1, <1>4, <1>5, <1>6, <1>7, <1>8, <1>9, <1>10

\* Whatever action fires, it appends one accepted event.
LEMMA NextAppends ==
  ASSUME log \in Seq(Event), Next
  PROVE  \E e \in Event : Accepts(log, e) /\ log' = Append(log, e)
<1> USE DEF AppendEvent
<1>0. PICK s \in Offered :
        \/ AppendLifecycle(s) \/ AppendStep(s) \/ AppendIteration(s)
        \/ AppendEvidence(s) \/ AppendCoverage(s)
        \/ RequestVerdict(s) \/ IssueVerdict(s)
        \/ AppendClosure(s) \/ SelectNextGap(s) \/ AcceptRisk(s)
  BY DEF Next
<1>1. s.types \subseteq EventTypes /\ s.verdicts \subseteq VerdictPayloads
  BY <1>0, OfferAssumption DEF Offered
<1>2. \A t : \A c \in Causes(t) : c \in Nat
  BY DEF Causes
<1>3. CASE AppendLifecycle(s)
  BY <1>1, <1>2, <1>3, Constructors DEF AppendLifecycle
<1>4. CASE AppendStep(s)
  BY <1>1, <1>2, <1>4, Constructors DEF AppendStep
<1>5. CASE AppendIteration(s)
  BY <1>1, <1>2, <1>5, Constructors DEF AppendIteration
<1>6. CASE AppendEvidence(s)
  BY <1>1, <1>2, <1>6, Constructors DEF AppendEvidence
<1>7. CASE AppendCoverage(s)
  BY <1>1, <1>2, <1>7, Constructors DEF AppendCoverage
<1>8. CASE RequestVerdict(s)
  BY <1>1, <1>2, <1>8, Constructors DEF RequestVerdict
<1>9. CASE IssueVerdict(s)
  BY <1>1, <1>2, <1>9, Constructors DEF IssueVerdict
<1>10. CASE AppendClosure(s)
  BY <1>1, <1>2, <1>10, Constructors DEF AppendClosure
<1>11. CASE SelectNextGap(s)
  BY <1>1, <1>2, <1>11, Constructors DEF SelectNextGap
<1>12. CASE AcceptRisk(s)
  BY <1>1, <1>2, <1>12, Constructors DEF AcceptRisk
<1>13. QED
  BY <1>0, <1>3, <1>4, <1>5, <1>6, <1>7, <1>8, <1>9, <1>10, <1>11, <1>12

\* The stream is always a sequence of events, each accepted on top of its prefix.
StreamInv == log \in Seq(Event) /\ WellFormed(log)

THEOREM StreamWellFormed == Spec => []StreamInv
<1>1. Init => StreamInv
  BY InitLogAssumption DEF Init, StreamInv
<1>2. StreamInv /\ [Next]_log => StreamInv'
  <2>1. SUFFICES ASSUME StreamInv, Next PROVE StreamInv'
    BY DEF StreamInv
  <2>2. PICK e \in Event : Accepts(log, e) /\ log' = Append(log, e)
    BY <2>1, NextAppends DEF StreamInv
  <2>3. log' \in Seq(Event)
    BY <2>1, <2>2 DEF StreamInv
  <2>4. WellFormed(log)'
    BY <2>1, <2>2, AppendKeepsWellFormed DEF StreamInv
  <2>5. QED
    BY <2>3, <2>4 DEF StreamInv
<1>3. QED
  BY <1>1, <1>2, PTL DEF Spec

-----------------------------------------------------------------------------
(* Reading the guards back: event k met its guard on the prefix before it, *)
(* and that prefix agrees with the whole stream.                           *)

\* The prefix that event k was accepted on.
Before(k) == SubSeq(log, 1, k - 1)

LEMMA AcceptedOnPrefix ==
  ASSUME StreamInv, NEW k \in DOMAIN log
  PROVE  /\ Accepts(Before(k), log[k])
         /\ DOMAIN Before(k) = 1 .. k - 1
         /\ \A j \in 1 .. k - 1 : Before(k)[j] = log[j] /\ j \in DOMAIN log
         /\ log[k] \in Event
         /\ k \in Nat \ {0}
<1>1. log \in Seq(Event) /\ k \in 1 .. Len(log)
  BY DEF StreamInv
<1>2. QED
  BY <1>1, PrefixFacts DEF StreamInv, WellFormed, Before

LEMMA EarlierOnPrefix ==
  ASSUME StreamInv, NEW j \in DOMAIN log, NEW k \in DOMAIN log, j < k
  PROVE  j \in 1 .. k - 1 /\ j \in DOMAIN Before(k) /\ Before(k)[j] = log[j]
<1>1. j \in Nat \ {0} /\ k \in Nat \ {0}
  BY AcceptedOnPrefix
<1>2. j \in 1 .. k - 1
  BY <1>1
<1>3. QED
  BY <1>2, AcceptedOnPrefix

LEMMA LatestOnPrefix ==
  ASSUME StreamInv, NEW k \in DOMAIN log, NEW t, NEW c, IsLatest(Before(k), t, c)
  PROVE  /\ c \in 1 .. k - 1
         /\ log[c].type = t
         /\ \A j \in c + 1 .. k - 1 : log[j].type # t
<1>1. c \in 1 .. k - 1 /\ Before(k)[c].type = t
  BY AcceptedOnPrefix DEF IsLatest
<1>2. ASSUME NEW j \in c + 1 .. k - 1 PROVE log[j].type # t
  <2>1. j \in 1 .. k - 1 /\ j > c
    BY <1>1, AcceptedOnPrefix
  <2>2. j \in DOMAIN Before(k) /\ Before(k)[j] = log[j]
    BY <2>1, AcceptedOnPrefix
  <2>3. QED
    BY <2>1, <2>2 DEF IsLatest
<1>3. QED
  BY <1>1, <1>2, AcceptedOnPrefix

\* Events are well typed, and causes come before their effects.
LEMMA TypeFromInv == StreamInv => TypeOK
<1>1. SUFFICES ASSUME StreamInv PROVE \A k \in DOMAIN log : log[k].cause < k
  BY DEF StreamInv, TypeOK
<1>2. TAKE k \in DOMAIN log
<1>3. CausationExists(Before(k), log[k]) /\ log[k].cause \in Nat
  BY <1>1, AcceptedOnPrefix DEF Accepts, Event
<1>4. QED
  BY <1>1, <1>3, AcceptedOnPrefix DEF CausationExists

LEMMA FinalFromInv == StreamInv => TerminalIsFinal
<1>1. SUFFICES ASSUME StreamInv, NEW j \in DOMAIN log, NEW k \in DOMAIN log, j < k,
                      log[j].type \in TerminalEventTypes, log[k].type \in RunEventTypes
               PROVE  FALSE
  BY DEF TerminalIsFinal
<1>2. j \in DOMAIN Before(k) /\ Before(k)[j] = log[j]
  BY <1>1, EarlierOnPrefix
<1>3. ~Terminated(Before(k))
  BY <1>1, AcceptedOnPrefix DEF Accepts, LifecycleAllowed
<1>4. QED
  BY <1>1, <1>2, <1>3 DEF Terminated

\* The later of two answers to one event saw the earlier one.
LEMMA EarlierAnswerSeen ==
  ASSUME StreamInv, NEW j \in DOMAIN log, NEW k \in DOMAIN log, j < k,
         log[j].cause = log[k].cause, NEW T, log[j].type \in T
  PROVE  Answered(Before(k), log[k].cause, T)
<1>1. j \in DOMAIN Before(k) /\ Before(k)[j] = log[j]
  BY EarlierOnPrefix
<1>2. QED
  BY <1>1 DEF Answered

LEMMA OnceFromInv == StreamInv => StepAnsweredOnce
<1> DEFINE Decisions == {"StepAccepted", "StepSubmissionRejected"}
<1>1. SUFFICES ASSUME StreamInv, NEW j \in DOMAIN log, NEW k \in DOMAIN log, j < k,
                      log[j].cause = log[k].cause
               PROVE  /\ ~(log[j].type \in Decisions /\ log[k].type \in Decisions)
                      /\ ~(log[j].type = "StepCommitted" /\ log[k].type = "StepCommitted")
                      /\ ~(log[j].type = "StrategyAdvanced" /\ log[k].type = "StrategyAdvanced")
  <2>1. SUFFICES ASSUME StreamInv, NEW j \in DOMAIN log, NEW k \in DOMAIN log, j # k,
                        log[j].cause = log[k].cause
                 PROVE  /\ ~(log[j].type \in Decisions /\ log[k].type \in Decisions)
                        /\ ~(log[j].type = "StepCommitted" /\ log[k].type = "StepCommitted")
                        /\ ~(log[j].type = "StrategyAdvanced" /\ log[k].type = "StrategyAdvanced")
    BY DEF StepAnsweredOnce
  <2>2. j \in Nat /\ k \in Nat
    BY <2>1, AcceptedOnPrefix
  <2>3. j < k \/ k < j
    BY <2>1, <2>2
  <2>4. QED
    BY <1>1, <2>1, <2>3
<1>2. DecisionOpen(Before(k), log[k]) /\ CommitOpen(Before(k), log[k])
  BY <1>1, AcceptedOnPrefix DEF Accepts
<1>3. ~(log[j].type \in Decisions /\ log[k].type \in Decisions)
  BY <1>1, <1>2, EarlierAnswerSeen DEF DecisionOpen
<1>4. ASSUME NEW t \in {"StepCommitted", "StrategyAdvanced"}
      PROVE  ~(log[j].type = t /\ log[k].type = t)
  <2>1. log[j].type = t => Answered(Before(k), log[k].cause, {t})
    BY <1>1, EarlierAnswerSeen
  <2>2. QED
    BY <1>2, <2>1 DEF CommitOpen
<1>5. QED
  BY <1>3, <1>4

\* One link of the chain from a step result to its source.
LEMMA SourceOfStep ==
  ASSUME StreamInv, NEW k \in DOMAIN log, NEW t, NEW source,
         log[k].type = t, t \in DOMAIN StepSource, StepSource[t] = source
  PROVE  LET c == log[k].cause IN
           /\ c \in DOMAIN log /\ c < k /\ c # 0
           /\ log[c].type = source
           /\ log[c].step = log[k].step /\ log[c].iter = log[k].iter
<1>1. StepCausedByLatestSource(Before(k), log[k])
  BY AcceptedOnPrefix DEF Accepts
<1>2. IsLatest(Before(k), source, log[k].cause)
  BY <1>1 DEF StepCausedByLatestSource
<1>3. log[k].cause \in 1 .. k - 1 /\ log[log[k].cause].type = source
  BY <1>2, LatestOnPrefix
<1>4. Before(k)[log[k].cause] = log[log[k].cause] /\ log[k].cause \in DOMAIN log /\ k \in Nat
  BY <1>3, AcceptedOnPrefix
<1>5. QED
  BY <1>1, <1>3, <1>4 DEF StepCausedByLatestSource

LEMMA StepSources ==
  /\ \A t \in {"StepAccepted", "StepSubmissionRejected"} :
        t \in DOMAIN StepSource /\ StepSource[t] = "StepSubmitted"
  /\ "StepCommitted" \in DOMAIN StepSource /\ StepSource["StepCommitted"] = "StepAccepted"
  /\ "StrategyAdvanced" \in DOMAIN StepSource
  /\ StepSource["StrategyAdvanced"] = "StepCommitted"
BY DEF StepSource

LEMMA AdvanceFromInv == StreamInv => AdvanceTracesToSubmission
<1>1. SUFFICES ASSUME StreamInv, NEW k \in DOMAIN log, log[k].type = "StrategyAdvanced"
               PROVE  \E c, a, s \in DOMAIN log :
                        /\ s < a /\ a < c /\ c < k
                        /\ log[c].type = "StepCommitted" /\ log[k].cause = c
                        /\ log[a].type = "StepAccepted" /\ log[c].cause = a
                        /\ log[s].type = "StepSubmitted" /\ log[a].cause = s
                        /\ log[s].step = log[k].step /\ log[s].iter = log[k].iter
                        /\ ~\E r \in DOMAIN log :
                             log[r].type = "StepSubmissionRejected" /\ log[r].cause = s
  BY DEF AdvanceTracesToSubmission
<1> DEFINE c == log[k].cause
           a == log[c].cause
           s == log[a].cause
<1>2. /\ c \in DOMAIN log /\ c < k /\ log[c].type = "StepCommitted"
      /\ log[c].step = log[k].step /\ log[c].iter = log[k].iter
  BY <1>1, SourceOfStep, StepSources
<1>3. /\ a \in DOMAIN log /\ a < c /\ log[a].type = "StepAccepted"
      /\ log[a].step = log[c].step /\ log[a].iter = log[c].iter
  BY <1>1, <1>2, SourceOfStep, StepSources
<1>4. /\ s \in DOMAIN log /\ s < a /\ s # 0 /\ log[s].type = "StepSubmitted"
      /\ log[s].step = log[a].step /\ log[s].iter = log[a].iter
  BY <1>1, <1>3, SourceOfStep, StepSources
<1>5. ASSUME NEW r \in DOMAIN log, log[r].type = "StepSubmissionRejected", log[r].cause = s
      PROVE  FALSE
  <2>1. r # a
    BY <1>3, <1>5
  <2>2. QED
    BY <1>1, <1>3, <1>4, <1>5, <2>1, OnceFromInv DEF StepAnsweredOnce
<1>6. QED
  BY <1>2, <1>3, <1>4, <1>5

\* A verdict that passes on the prefix before it found evidence there.
LEMMA PassFromInv == StreamInv => PassRestsOnEvidence
<1>1. SUFFICES ASSUME StreamInv, NEW v \in DOMAIN log, log[v].type = "VerdictIssued",
                      log[v].status \in PassingVerdicts
               PROVE  \E c, e \in DOMAIN log :
                        /\ e < c /\ c < v
                        /\ log[c].type = "CoverageRecomputed"
                        /\ log[c].status \in PassableCoverage
                        /\ \A j \in c + 1 .. v - 1 : log[j].type # "CoverageRecomputed"
                        /\ log[e].type = "EvidenceAccepted"
  BY DEF PassRestsOnEvidence
<1>2. PICK c \in DOMAIN Before(v) : /\ IsLatest(Before(v), "CoverageRecomputed", c)
                                   /\ Before(v)[c].status \in PassableCoverage
  BY <1>1, AcceptedOnPrefix DEF Accepts, PassingVerdictNeedsPassableCoverage
<1>3. /\ c \in 1 .. v - 1 /\ log[c].type = "CoverageRecomputed"
      /\ \A j \in c + 1 .. v - 1 : log[j].type # "CoverageRecomputed"
  BY <1>1, <1>2, LatestOnPrefix
<1>4. c \in DOMAIN log /\ c < v /\ log[c].status \in PassableCoverage
  BY <1>1, <1>2, <1>3, AcceptedOnPrefix
<1>5. PassableCoverageCausedByEvidence(Before(c), log[c])
  BY <1>1, <1>4, AcceptedOnPrefix DEF Accepts
<1>6. \E e \in DOMAIN Before(c) : Before(c)[e].type = "EvidenceAccepted"
  BY <1>3, <1>4, <1>5 DEF PassableCoverageCausedByEvidence, IsLatest, Has
<1>7. PICK e \in DOMAIN Before(c) : Before(c)[e].type = "EvidenceAccepted"
  BY <1>6
<1>8. e \in DOMAIN log /\ e < c /\ log[e].type = "EvidenceAccepted"
  BY <1>1, <1>4, <1>7, AcceptedOnPrefix
<1>9. QED
  BY <1>3, <1>4, <1>8

LEMMA BlockedFromInv == StreamInv => BlockedCoverageIsNeverPassedOver
<1>1. SUFFICES ASSUME StreamInv, NEW c \in DOMAIN log, NEW v \in DOMAIN log, c < v,
                      log[c].type = "CoverageRecomputed", log[c].status = "blocked",
                      log[v].type = "VerdictIssued", log[v].status # "blocked",
                      \A j \in c + 1 .. v - 1 : log[j].type # "CoverageRecomputed"
               PROVE  FALSE
  BY DEF BlockedCoverageIsNeverPassedOver
<1>2. BlockedCoverageBlocksVerdict(Before(v), log[v])
  BY <1>1, AcceptedOnPrefix DEF Accepts
<1>3. c \in DOMAIN Before(v) /\ Before(v)[c] = log[c]
  BY <1>1, EarlierOnPrefix
<1>4. ASSUME NEW j \in DOMAIN Before(v), j > c
      PROVE  Before(v)[j].type # "CoverageRecomputed"
  <2>1. j \in c + 1 .. v - 1 /\ Before(v)[j] = log[j]
    BY <1>1, <1>4, AcceptedOnPrefix
  <2>2. QED
    BY <1>1, <2>1
<1>5. IsLatest(Before(v), "CoverageRecomputed", c)
  BY <1>1, <1>3, <1>4 DEF IsLatest
<1>6. QED
  BY <1>1, <1>2, <1>3, <1>5 DEF BlockedCoverageBlocksVerdict

LEMMA ClosureFromInv == StreamInv => ClosureRestsOnEvidence
<1>1. SUFFICES ASSUME StreamInv, NEW k \in DOMAIN log, log[k].type = "RunClosed",
                      log[k].cause # 0
               PROVE  /\ log[log[k].cause].type = "VerdictIssued"
                      /\ log[log[k].cause].status \in PassingVerdicts
                      /\ \A j \in log[k].cause + 1 .. k - 1 : log[j].type # "VerdictIssued"
                      /\ \E e \in 1 .. log[k].cause : log[e].type = "EvidenceAccepted"
  BY DEF ClosureRestsOnEvidence
<1> DEFINE v == log[k].cause
<1>2. /\ IsLatest(Before(k), "VerdictIssued", v)
      /\ Before(k)[v].status \in PassingVerdicts
  BY <1>1, AcceptedOnPrefix DEF Accepts, ClosedByLatestPassingVerdict
<1>3. /\ v \in 1 .. k - 1 /\ log[v].type = "VerdictIssued"
      /\ \A j \in v + 1 .. k - 1 : log[j].type # "VerdictIssued"
  BY <1>1, <1>2, LatestOnPrefix
<1>4. v \in DOMAIN log /\ log[v].status \in PassingVerdicts
  BY <1>1, <1>2, <1>3, AcceptedOnPrefix
<1>5. PICK c, e \in DOMAIN log : e < c /\ c < v /\ log[e].type = "EvidenceAccepted"
  BY <1>1, <1>3, <1>4, PassFromInv DEF PassRestsOnEvidence
<1>6. e \in 1 .. v
  BY <1>1, <1>4, <1>5, AcceptedOnPrefix
<1>7. QED
  BY <1>3, <1>4, <1>5, <1>6

\* An event that follows a closure follows the closure of the verdict in force.
LEMMA FollowedClosure ==
  ASSUME StreamInv, NEW k \in DOMAIN log, NEW closure,
         FollowsClosureOnce(Before(k), log[k], closure)
  PROVE  LET c == log[k].cause  v == log[c].cause IN
           /\ c \in 1 .. k - 1 /\ c \in DOMAIN log /\ log[c].type = closure
           /\ v \in 1 .. k - 1 /\ v \in DOMAIN log /\ log[v].type = "VerdictIssued"
           /\ \A j \in v + 1 .. k - 1 : log[j].type # "VerdictIssued"
           /\ Before(k)[c] = log[c] /\ Before(k)[v] = log[v]
<1> DEFINE c == log[k].cause
           v == log[c].cause
<1>1. c \in 1 .. k - 1 /\ log[c].type = closure
  BY LatestOnPrefix DEF FollowsClosureOnce
<1>2. c \in DOMAIN log /\ Before(k)[c] = log[c]
  BY <1>1, AcceptedOnPrefix
<1>3. IsLatest(Before(k), "VerdictIssued", v)
  BY <1>2 DEF FollowsClosureOnce
<1>4. /\ v \in 1 .. k - 1 /\ log[v].type = "VerdictIssued"
      /\ \A j \in v + 1 .. k - 1 : log[j].type # "VerdictIssued"
  BY <1>3, LatestOnPrefix
<1>5. v \in DOMAIN log /\ Before(k)[v] = log[v]
  BY <1>4, AcceptedOnPrefix
<1>6. QED
  BY <1>1, <1>2, <1>4, <1>5

\* A blocked closure closed a verdict that does not pass.
LEMMA BlockedClosureVerdict ==
  ASSUME StreamInv, NEW c \in DOMAIN log, log[c].type = "VerdictBlockedClosure"
  PROVE  log[log[c].cause].status \notin PassingVerdicts
<1>1. /\ IsLatest(Before(c), "VerdictIssued", log[c].cause)
      /\ Before(c)[log[c].cause].status \notin PassingVerdicts
  BY AcceptedOnPrefix DEF Accepts, ClosureMatchesLatestVerdict
<1>2. Before(c)[log[c].cause] = log[log[c].cause]
  BY <1>1, LatestOnPrefix, AcceptedOnPrefix
<1>3. QED
  BY <1>1, <1>2

LEMMA GapFromInv == StreamInv => GapOfTheVerdictInForce
<1>1. SUFFICES ASSUME StreamInv, NEW k \in DOMAIN log, log[k].type = "NextGapSelected"
               PROVE  LET closure == log[k].cause  verdict == log[closure].cause IN
                        /\ log[verdict].type = "VerdictIssued"
                        /\ log[verdict].status \notin PassingVerdicts
                        /\ log[k].gaps \subseteq log[verdict].gaps
                        /\ \A j \in verdict + 1 .. k - 1 : log[j].type # "VerdictIssued"
                        /\ \A j \in closure + 1 .. k - 1 :
                             ~(log[j].type = "NextGapSelected" /\ log[j].cause = closure)
  BY DEF GapOfTheVerdictInForce
<1> DEFINE c == log[k].cause
           v == log[c].cause
<1>2. /\ FollowsClosureOnce(Before(k), log[k], "VerdictBlockedClosure")
      /\ log[k].gaps \subseteq Before(k)[Before(k)[c].cause].gaps
  BY <1>1, AcceptedOnPrefix DEF Accepts, NextGapFromLatestVerdict
<1>3. /\ c \in 1 .. k - 1 /\ c \in DOMAIN log /\ log[c].type = "VerdictBlockedClosure"
      /\ log[v].type = "VerdictIssued"
      /\ \A j \in v + 1 .. k - 1 : log[j].type # "VerdictIssued"
      /\ Before(k)[c] = log[c] /\ Before(k)[v] = log[v]
  BY <1>1, <1>2, FollowedClosure
<1>4. log[v].status \notin PassingVerdicts
  BY <1>1, <1>3, BlockedClosureVerdict
<1>5. ASSUME NEW j \in c + 1 .. k - 1, log[j].type = "NextGapSelected", log[j].cause = c
      PROVE  FALSE
  <2>1. j \in DOMAIN log /\ j < k
    BY <1>1, <1>3, <1>5, AcceptedOnPrefix
  <2>2. Answered(Before(k), c, {"NextGapSelected"})
    BY <1>1, <1>5, <2>1, EarlierAnswerSeen
  <2>3. QED
    BY <1>1, <1>2, <2>2 DEF FollowsClosureOnce
<1>6. QED
  BY <1>2, <1>3, <1>4, <1>5

LEMMA RiskFromInv == StreamInv => RiskOfTheVerdictInForce
<1>1. SUFFICES ASSUME StreamInv, NEW k \in DOMAIN log, log[k].type = "ResidualRiskAccepted"
               PROVE  LET closure == log[k].cause  verdict == log[closure].cause IN
                        /\ log[verdict].status = "passed_with_residual_risk"
                        /\ log[verdict].risk = "managed"
                        /\ \A j \in verdict + 1 .. k - 1 : log[j].type # "VerdictIssued"
  BY DEF RiskOfTheVerdictInForce
<1> DEFINE c == log[k].cause
           v == log[c].cause
<1>2. /\ FollowsClosureOnce(Before(k), log[k], "VerdictAllowedClosure")
      /\ Before(k)[Before(k)[c].cause].status = "passed_with_residual_risk"
      /\ Before(k)[Before(k)[c].cause].risk = "managed"
  BY <1>1, AcceptedOnPrefix DEF Accepts, RiskFromLatestVerdict
<1>3. /\ \A j \in v + 1 .. k - 1 : log[j].type # "VerdictIssued"
      /\ Before(k)[c] = log[c] /\ Before(k)[v] = log[v]
  BY <1>1, <1>2, FollowedClosure
<1>4. QED
  BY <1>2, <1>3

-----------------------------------------------------------------------------
(* The promises, for every client.                                         *)

\* Every event is well typed and is caused by an earlier one.
THEOREM TypeCorrect == Spec => []TypeOK
BY StreamWellFormed, TypeFromInv, PTL

\* A run ends once: nothing about its lifecycle follows a terminal event.
THEOREM LifecycleEndsOnce == Spec => []TerminalIsFinal
BY StreamWellFormed, FinalFromInv, PTL

\* A submission is decided once, an acceptance committed once, a commit advances the
\* strategy once.
THEOREM StepResultsOnce == Spec => []StepAnsweredOnce
BY StreamWellFormed, OnceFromInv, PTL

\* Each strategy advance traces back to an unrejected submission of the same step.
THEOREM AdvancesTraceBack == Spec => []AdvanceTracesToSubmission
BY StreamWellFormed, AdvanceFromInv, PTL

\* A passing verdict rests on passable coverage, and that on accepted evidence.
THEOREM NoUnsupportedPass == Spec => []PassRestsOnEvidence
BY StreamWellFormed, PassFromInv, PTL

\* No verdict but a blocked one is issued over a blocked coverage.
THEOREM BlockedCoverageBlocks == Spec => []BlockedCoverageIsNeverPassedOver
BY StreamWellFormed, BlockedFromInv, PTL

\* A run closed on a verdict was closed on the newest one, and evidence was accepted before it.
THEOREM ClosuresAreSupported == Spec => []ClosureRestsOnEvidence
BY StreamWellFormed, ClosureFromInv, PTL

\* A next gap or an accepted risk always belongs to the verdict in force.
THEOREM FollowUpsOfTheVerdictInForce ==
  Spec => [](GapOfTheVerdictInForce /\ RiskOfTheVerdictInForce)
BY StreamWellFormed, GapFromInv, RiskFromInv, PTL
=============================================================================
