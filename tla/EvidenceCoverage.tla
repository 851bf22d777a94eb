-------------------------- MODULE EvidenceCoverage --------------------------
(***************************************************************************)
(* How the evidence ledger of a run becomes the coverage of its targets    *)
(* (evidence_coverage.py, evidence_coverage_targets.py).                   *)
(*                                                                         *)
(* build_evidence_coverage_projection folds the ledger from its first item *)
(* on.  The ledger only grows, so one Collect is one pass of that loop,    *)
(* and every state holds what a rebuild of its ledger returns.  An item    *)
(* keeps what the fold tells apart:                                        *)
(*   gatekeeper  its archetype is "gatekeeper"                             *)
(*   result      "passed", a non-supporting result ("blocked") or another  *)
(*   measured    measured_evidence                                         *)
(*   claims      concrete_evidence_claim_count is positive                 *)
(*   proof       any other reason to support a claim: an existing proof    *)
(*               artifact, a workflow control, a review that verified      *)
(*   refs        the evidence its "verifies" or related ids name           *)
(*   reports     what it says of each target, by coverage_results or, for  *)
(*               targets those leave out, by "verifies"                    *)
(*   risk        its residual risk                                         *)
(* The existence of an artifact is looked up once per rebuild and taken    *)
(* to be stable here, and an item reports once on a target.  An id may     *)
(* occur twice in a ledger: a step whose submission failed half-way is     *)
(* written again.                                                          *)
(***************************************************************************)
EXTENDS Naturals, Sequences

CONSTANTS DoneWhen,        \* required targets of the spec's checks
          Advisory,        \* success surfaces, fake done risks, evidence preferences
          GatekeeperMode,  \* completion_mode = "gatekeeper"
          EvidenceIds,     \* evidence ids
          Items,           \* the items the steps of the run may write
          MaxItems         \* bound: items of a ledger

Finish == "gatekeeper_finish"

\* build_coverage_targets: the finish target exists in gatekeeper mode only.
Targets == DoneWhen \cup Advisory \cup (IF GatekeeperMode THEN {Finish} ELSE {})
Required == Targets \ Advisory

Statuses == {"missing", "weak", "covered", "blocked"}
Reports == {"positive", "weak", "missing", "negative", "other", "none"}
Risks == {"none", "managed", "unmanaged"}

Item == [id : EvidenceIds, gatekeeper : BOOLEAN,
         result : {"passed", "blocked", "other"},
         measured : BOOLEAN, claims : BOOLEAN, proof : BOOLEAN,
         refs : SUBSET EvidenceIds,
         reports : [Targets -> [status : Reports, refs : SUBSET EvidenceIds]],
         risk : Risks]

ASSUME CoverageAssumption == /\ GatekeeperMode \in BOOLEAN
                             /\ Finish \notin DoneWhen \cup Advisory
                             /\ DoneWhen \cap Advisory = {}
                             /\ Items \subseteq Item
                             /\ MaxItems \in Nat

VARIABLES ledger,           \* evidence/ledger.jsonl
          rows,             \* target_state
          latestGatekeeper  \* latest_gatekeeper: the last verdict, or {}

vars == <<ledger, rows, latestGatekeeper>>

-----------------------------------------------------------------------------
(* What an item is worth.                                                  *)

Supports(item) ==
  ~item.gatekeeper /\ item.result # "blocked" /\ (item.measured \/ item.proof)

SelfMeasured(item) == item.result = "passed" /\ item.measured /\ item.claims

\* evidence_items_by_id: the last item of the ledger with that id.
IsCurrent(l, k) == k \in DOMAIN l /\ \A j \in DOMAIN l : j > k => l[j].id # l[k].id

KnownIds(l) == {l[k].id : k \in DOMAIN l}

\* The ids that stand for supporting evidence once l has been read.
SupportingIds(l) == {l[k].id : k \in {j \in DOMAIN l : IsCurrent(l, j) /\ Supports(l[j])}}

\* Fault: a ref that a report cites is taken for support unread.
TargetSupportUnread(l, t) ==
  LET item == l[Len(l)]
  IN  (IF Supports(item) \/ SelfMeasured(item) THEN {item.id} ELSE {})
        \cup item.reports[t].refs

\* _target_supporting_refs, for the last item of l.
TargetSupport(l, t) ==
  LET item == l[Len(l)]
  IN  (IF Supports(item) \/ SelfMeasured(item) THEN {item.id} ELSE {})
        \cup (item.reports[t].refs \cap SupportingIds(l))

-----------------------------------------------------------------------------
(* The fold.                                                               *)

\* Fault: a report's own word becomes the status.
StatusAsReported(status, report, support) == IF report = "positive" THEN "covered" ELSE report

\* Fault: a weak report takes a blocked target back.
StatusAfterWeakening(status, report, support) ==
  IF report = "negative" THEN "blocked"
  ELSE IF report = "positive" /\ support # {} THEN "covered"
  ELSE IF report \in {"positive", "weak"} /\ status # "covered" THEN "weak"
  ELSE status

\* _apply_target_status.  A "missing" report changes nothing: a row that is neither
\* blocked, covered nor weak is missing already.
StatusAfter(status, report, support) ==
  IF report = "negative" THEN "blocked"
  ELSE IF report = "positive" /\ support # {} THEN "covered"
  ELSE IF report \in {"positive", "weak"} /\ status \notin {"blocked", "covered"} THEN "weak"
  ELSE status

\* _target_row_evidence_refs.
CitedRefs(id, report, support) ==
  IF report = "negative" THEN {id} \cup support
  ELSE IF support # {} THEN support ELSE {id}

\* Fault: a recovered target keeps the refs of the time it was blocked.
KeptRefsAll(row, report, support) == row.refs

\* A target that becomes covered forgets the refs it had.
KeptRefs(row, report, support) ==
  IF report = "positive" /\ support # {} /\ row.status # "covered" THEN {} ELSE row.refs

\* apply_target_evidence, for the last item of l.
RowAfter(row, l, t) ==
  LET item == l[Len(l)]
      report == item.reports[t].status
      support == TargetSupport(l, t)
  IN  IF report = "none" THEN row
      ELSE [status |-> StatusAfter(row.status, report, support),
            refs |-> KeptRefs(row, report, support) \cup CitedRefs(item.id, report, support)]

NoGatekeeper == [result |-> "none", id |-> "none", risk |-> "none", self |-> FALSE,
                 supporting |-> {}, others |-> {}]

\* latest_gatekeeper_projection, for the last item of l.
GatekeeperProjection(l) ==
  LET item == l[Len(l)]
  IN  [result |-> item.result, id |-> item.id, risk |-> item.risk,
       self |-> item.id \in item.refs /\ SelfMeasured(item),
       supporting |-> item.refs \cap SupportingIds(l),
       others |-> ((item.refs \cap KnownIds(l)) \ SupportingIds(l)) \ {item.id}]

Collect(item) ==
  /\ Len(ledger) < MaxItems
  /\ ledger' = Append(ledger, item)
  /\ rows' = [t \in Targets |-> RowAfter(rows[t], ledger', t)]
  /\ latestGatekeeper' = IF item.gatekeeper THEN GatekeeperProjection(ledger')
                                            ELSE latestGatekeeper

Init == /\ ledger = <<>>
        /\ rows = [t \in Targets |-> [status |-> "missing", refs |-> {}]]
        /\ latestGatekeeper = NoGatekeeper

Next == \E item \in Items : Collect(item)

Spec == Init /\ [][Next]_vars

-----------------------------------------------------------------------------
(* The projection of a folded ledger.                                      *)

\* Fault: a verdict leaves a target alone that evidence has covered already.
FinishedRowUnlessCovered(row, g) ==
  IF row.status = "covered" THEN row
  ELSE IF g.result = "blocked" THEN [status |-> "blocked", refs |-> {g.id}] ELSE row

\* apply_gatekeeper_target: the latest verdict g decides the finish target, except that
\* a pass which cites nothing leaves it as the fold found it.
FinishedRow(row, g) ==
  IF g.result = "passed" /\ g.supporting # {}
  THEN [status |-> "covered", refs |-> g.supporting \cup {g.id}]
  ELSE IF g.result = "passed" /\ g.self
  THEN [status |-> "covered", refs |-> {g.id}]
  ELSE IF g.result = "passed" /\ g.others # {}
  THEN [status |-> "blocked", refs |-> g.others \cup {g.id}]
  ELSE IF g.result = "blocked"
  THEN [status |-> "blocked", refs |-> {g.id}]
  ELSE row

\* The target rows of the coverage projection.
CoverageOf(rs, g) == [t \in Targets |-> IF t = Finish THEN FinishedRow(rs[t], g) ELSE rs[t]]

Coverage == CoverageOf(rows, latestGatekeeper)

\* _overall_coverage_status; "pending" while the ledger is empty.
OverallStatus(l, cov) ==
  IF l = <<>> THEN "pending"
  ELSE IF \E t \in Targets : cov[t].status = "blocked" THEN "blocked"
  ELSE IF \E t \in Required : cov[t].status # "covered" THEN "partial"
  ELSE IF \E t \in Advisory : cov[t].status # "covered" THEN "weak"
  ELSE "covered"

-----------------------------------------------------------------------------
(* Properties.                                                             *)

Row == [status : Statuses, refs : SUBSET EvidenceIds]

Gatekeeper == [result : {"passed", "blocked", "other"}, id : EvidenceIds, risk : Risks,
               self : BOOLEAN, supporting : SUBSET EvidenceIds, others : SUBSET EvidenceIds]

\* The state of the fold has its types, and a rebuild never reads more items than written.
TypeOK == /\ ledger \in Seq(Items)
          /\ Len(ledger) <= MaxItems
          /\ rows \in [Targets -> Row]
          /\ latestGatekeeper \in Gatekeeper \cup {NoGatekeeper}

Prefix(k) == SubSeq(ledger, 1, k)

\* What item k said of t when it was read.
Negates(k, t) == ledger[k].reports[t].status = "negative"
Covers(k, t) == ledger[k].reports[t].status = "positive" /\ TargetSupport(Prefix(k), t) # {}
Hints(k, t) == ledger[k].reports[t].status \in {"positive", "weak"}

CoveredBy(k, t) == /\ k \in DOMAIN ledger
                   /\ Covers(k, t)
                   /\ \A j \in DOMAIN ledger : j > k => ~Negates(j, t)

BlockedBy(k, t) == /\ k \in DOMAIN ledger
                   /\ Negates(k, t)
                   /\ \A j \in DOMAIN ledger : j > k => ~Covers(j, t)

\* The status of a target is decided by the last item that was decisive about it: a
\* supported positive report covers, a negative one blocks, whatever weak, missing or
\* unsupported reports surround it; only without either do weak reports count.
StatusByHistory ==
  \A t \in Targets :
    /\ rows[t].status = "covered" <=> \E k \in DOMAIN ledger : CoveredBy(k, t)
    /\ rows[t].status = "blocked" <=> \E k \in DOMAIN ledger : BlockedBy(k, t)
    /\ rows[t].status = "weak" => \E k \in DOMAIN ledger : Hints(k, t)
    /\ rows[t].status = "missing" => \A k \in DOMAIN ledger : ~Hints(k, t) /\ ~Negates(k, t)

\* The items from k on and the support they brought for t.
RefsSince(k, t) ==
  UNION {TargetSupport(Prefix(j), t) \cup {ledger[j].id} : j \in {i \in DOMAIN ledger : i >= k}}

\* The refs of t stand on item k, which covered it.
RefsStandOn(k, t) == /\ CoveredBy(k, t)
                     /\ TargetSupport(Prefix(k), t) \subseteq rows[t].refs
                     /\ rows[t].refs \subseteq RefsSince(k, t)

\* The refs of a covered target name the support of the item that covered it, and
\* nothing that was reported before the target was last blocked.
CoveredRefsAreCurrent ==
  \A t \in Targets :
    rows[t].status = "covered" => \E k \in DOMAIN ledger : RefsStandOn(k, t)

\* While the GateKeeper's latest verdict is a rejection the coverage is blocked, whatever
\* the steps reported before or after it, of the finish target too.
RejectionBlocksCoverage ==
  (GatekeeperMode /\ latestGatekeeper.result = "blocked") =>
    OverallStatus(ledger, Coverage) = "blocked"

\* A coverage that a run could be passed on rests, for every check of the spec, on an
\* item that is not the GateKeeper's unsupported word: something in the ledger supports it.
PassableCoverageIsSupported ==
  OverallStatus(ledger, Coverage) \in {"covered", "weak"} =>
    \A t \in DoneWhen :
      \E k \in DOMAIN ledger :
        ledger[k].id \in Coverage[t].refs /\ (Supports(ledger[k]) \/ SelfMeasured(ledger[k]))

\* The finish target speaks of a GateKeeper verdict: it is covered only when there is one.
FinishNeedsVerdict ==
  (GatekeeperMode /\ Coverage[Finish].status = "covered") =>
    latestGatekeeper.result = "passed"
=============================================================================
