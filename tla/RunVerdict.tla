----------------------------- MODULE RunVerdict -----------------------------
(***************************************************************************)
(* From the results of the steps to the verdict that closes the run        *)
(* (runner_gatekeeper_output_validation.py, service_runner_step_commit.py, *)
(* service_run_finalization.py, task_verdicts.py, engine/verdict_*.py).    *)
(*                                                                         *)
(* A step's item goes to the ledger and the coverage is recomputed         *)
(* (Write), the evidence and its coverage are appended to the event stream *)
(* in one transaction (Record), and a GateKeeper's output becomes the      *)
(* row's last verdict (Note).  A crash, a control whose failure is         *)
(* swallowed or a refused transaction ends such a submission early; the    *)
(* next step begins with another Write.  Whatever ends the run asks two    *)
(* engines for a verdict: the public one reads the raw verdict and the     *)
(* coverage, the kernel's the contract, the coverage and the risks; the    *)
(* event takes the status and the buckets of the first and the gaps of the *)
(* second, and EventStore accepts it or does not (Close).                  *)
(*                                                                         *)
(* Statuses are the kernel's: canonical_task_verdict_status maps "failed"  *)
(* to blocked and "insufficient_evidence" to continue_required.  A         *)
(* coverage.json that lags the ledger is the coverage before its Write.    *)
(***************************************************************************)
EXTENDS EvidenceCoverage, FiniteSets

CONSTANT MaxUnrecorded   \* bound: items of the ledger that were never recorded

ASSUME UnrecordedAssumption == MaxUnrecorded \in Nat

\* The status of a GateKeeper's handoff is "passed" or "blocked" (_gatekeeper_handoff).
ASSUME VerdictsDecide == \A item \in Items : item.gatekeeper => item.result # "other"

VARIABLES policy,       \* the spec's residual risk: "managed", "disallow" or a bare "none"
          stage,        \* how far the last item's submission came
          log,          \* the evidence, coverage and verdict events of the stream
          lastVerdict,  \* last_verdict_json of the row
          closed        \* the verdict that ended the run, once there is one

verdictVars == <<vars, policy, stage, log, lastVerdict, closed>>

Store == INSTANCE EventStore WITH Steps <- {}, Iterations <- {}

Policies == {"managed", "disallow", "none"}
Stages == {"written", "refused", "recorded", "noted"}

Raw == [given : BOOLEAN, passed : BOOLEAN, blockers : BOOLEAN, risk : Risks]
NoRaw == [given |-> FALSE, passed |-> FALSE, blockers |-> FALSE, risk |-> "none"]

\* The verdict of a role that failed for good and of the workspace guard.
Aborted == [given |-> TRUE, passed |-> FALSE, blockers |-> TRUE, risk |-> "none"]

LastItem == ledger[Len(ledger)]

-----------------------------------------------------------------------------
(* A submission.                                                           *)

\* apply_gatekeeper_evidence_gate, with the ledger at hand.
GateLetsPass(item) ==
  LET upstream == item.refs \ {item.id}
      rejected == {ledger[k].id : k \in {j \in DOMAIN ledger : /\ IsCurrent(ledger, j)
                                                               /\ ledger[j].result = "blocked"}}
  IN  /\ upstream \subseteq KnownIds(ledger)
      /\ \/ upstream \cap SupportingIds(ledger) # {}
         \/ upstream \cap rejected = {} /\ item.id \in item.refs /\ item.claims /\ item.measured
         \/ item.refs = {item.id} /\ item.measured

\* What coerce_gatekeeper_output lets through as a pass.
PassAdmitted(item) ==
  (item.gatekeeper /\ item.result = "passed") =>
    /\ GateLetsPass(item)
    /\ \A t \in Targets : item.reports[t].refs \subseteq KnownIds(ledger)
    /\ policy = "disallow" => item.risk # "managed"

\* The items whose evidence was accepted.
Recordings == {k \in DOMAIN log : log[k].type = "EvidenceAccepted"}

\* write_runner_step_result_artifacts: ledger, coverage.json.
Write(item) ==
  /\ ~closed.over
  /\ Len(ledger) - Cardinality(Recordings) <= MaxUnrecorded
  /\ PassAdmitted(item)
  /\ Collect(item)
  /\ stage' = "written"
  /\ UNCHANGED <<policy, log, lastVerdict, closed>>

\* The item names its targets in coverage_results; an Inspector may name checks in
\* check_results, and a GateKeeper failed ones in failed_check_ids.
Linkings(item) ==
  LET reported == {t \in Targets : item.reports[t].status # "none"}
  IN  IF reported = {} THEN {FALSE}
      ELSE IF reported \subseteq DoneWhen
              /\ (item.gatekeeper => \A t \in reported : item.reports[t].status = "negative")
      THEN BOOLEAN ELSE {TRUE}

\* append_step_evidence_events; n is the length of the stream.
EvidenceEvents(item, linked, n) ==
  LET refs == IF ~item.gatekeeper THEN {}
              ELSE IF item.measured THEN item.refs ELSE item.refs \ {item.id}
      evidence(type, cause) == Store!EvidenceEvent(type, cause, item.id, refs, item.measured, linked)
      coverage(cause) == Store!CoverageEvent(cause, OverallStatus(ledger, Coverage),
                                             {Coverage[t].status : t \in Targets} \ {"covered"})
  IN  <<evidence("EvidenceSubmitted", 0), evidence("EvidenceAccepted", n + 1)>>
        \o (IF linked THEN <<evidence("EvidenceLinkedToTarget", n + 2), coverage(n + 3)>>
                      ELSE <<coverage(n + 2)>>)

\* record_step_evidence: the whole transaction or nothing.
Record ==
  /\ ~closed.over
  /\ stage = "written"
  /\ \E linked \in Linkings(LastItem) :
       LET after == log \o EvidenceEvents(LastItem, linked, Len(log))
       IN  IF Store!AcceptedExtension(log, after)
           THEN log' = after /\ stage' = "recorded"
           ELSE stage' = "refused" /\ UNCHANGED log
  /\ UNCHANGED <<vars, policy, lastVerdict, closed>>

\* The outputs whose item this is.  coerce_gatekeeper_output turns a pass with an
\* unmanaged risk into a rejection, but leaves one with blocking issues; the item's
\* risk joins the risks with the blocking issues.
Outputs(item) ==
  {raw \in Raw : /\ raw.given
                 /\ raw.passed = (item.result = "passed")
                 /\ raw.passed => raw.risk # "unmanaged" /\ (policy = "disallow" => raw.risk = "none")
                 /\ IF raw.blockers THEN item.risk # "none" ELSE raw.risk = item.risk}

\* _record_gatekeeper_iteration_result; a control's verdict is not noted.
Note ==
  /\ ~closed.over
  /\ stage = "recorded"
  /\ LastItem.gatekeeper
  /\ lastVerdict' \in Outputs(LastItem)
  /\ stage' = "noted"
  /\ UNCHANGED <<vars, policy, log, closed>>

-----------------------------------------------------------------------------
(* The two engines.                                                        *)

SomeBlocked == \E t \in Targets : Coverage[t].status = "blocked"
RequiredOpen == \E t \in Required : Coverage[t].status # "covered"

\* Fault: only the raw verdict's risks are looked at.
StatusIgnoringGatekeeperRisk(raw, reason) ==
  IF ~raw.given THEN IF reason = "rounds_completed" THEN "continue_required" ELSE "not_evaluated"
  ELSE IF raw.blockers \/ SomeBlocked THEN "blocked"
  ELSE IF ~raw.passed \/ RequiredOpen \/ Required = {} \/ raw.risk = "unmanaged" THEN "continue_required"
  ELSE IF raw.risk = "managed" THEN "passed_with_residual_risk" ELSE "passed"

\* build_task_verdict, status_from_gatekeeper.
PublicStatus(raw, reason) ==
  LET risks == {raw.risk, latestGatekeeper.risk} \ {"none"}
  IN  IF ~raw.given THEN IF reason = "rounds_completed" THEN "continue_required" ELSE "not_evaluated"
      ELSE IF raw.blockers \/ SomeBlocked THEN "blocked"
      ELSE IF ~raw.passed \/ RequiredOpen \/ Required = {} \/ "unmanaged" \in risks
              \/ (policy = "disallow" /\ risks # {})
      THEN "continue_required"
      ELSE IF "managed" \in risks THEN "passed_with_residual_risk" ELSE "passed"

\* The risks a verdict shows besides its own: the latest GateKeeper's once it passed, or else
\* every one the ledger reports.
ShownRisks(raw) ==
  ({raw.risk} \cup IF latestGatekeeper.result = "passed" THEN {latestGatekeeper.risk}
                   ELSE {ledger[k].risk : k \in DOMAIN ledger}) \ {"none"}

\* VerdictEngine.judge would let the run close.
KernelPasses(raw) ==
  /\ ~SomeBlocked /\ ~RequiredOpen
  /\ ShownRisks(raw) # {} => policy = "managed"
  /\ "unmanaged" \notin ShownRisks(raw)

\* Fault: an open target is a gap whatever the judgement was.
GapsOfEveryTarget(raw) == {Coverage[t].status : t \in Targets} \ {"covered"}

Gaps(raw) == IF KernelPasses(raw) THEN {} ELSE {Coverage[t].status : t \in Targets} \ {"covered"}

\* event_verdict_for_finalization; a crashed run has no kernel part.
EventVerdict(raw, reason, cause) ==
  Store!VerdictEvent("VerdictIssued", cause, PublicStatus(raw, reason),
                     UNION {Coverage[t].refs : t \in Targets},
                     IF reason = "crashed" THEN {} ELSE Gaps(raw),
                     IF policy # "disallow" /\ "managed" \in ShownRisks(raw) THEN "managed" ELSE "none")

-----------------------------------------------------------------------------
(* The end of the run.                                                     *)

\* GateKeeper pass, exhaustion, stop, recovery: the row's verdict; failed role, workspace
\* guard: Aborted; a crash: the verdict of the row as it was when the run began.
Reasons == {"other", "aborted", "crashed"} \cup (IF GatekeeperMode THEN {} ELSE {"rounds_completed"})

RawFor(reason) == CASE reason = "aborted" -> Aborted
                    [] reason = "crashed" -> NoRaw
                    [] OTHER -> lastVerdict

LatestCoverageEvent ==
  IF Store!Has(log, "CoverageRecomputed")
  THEN CHOOSE k \in DOMAIN log : Store!IsLatest(log, "CoverageRecomputed", k) ELSE 0

\* issue_verdict, from _finalize_terminal_run or _finalize_crashed_run.  The closure, gap
\* and risk events that follow repeat the verdict's fields and are accepted with it.
Close(reason) ==
  LET n == Len(log)
      issued == EventVerdict(RawFor(reason), reason, n + 1)
      after == log \o <<[issued EXCEPT !.type = "VerdictRequested", !.cause = LatestCoverageEvent],
                        issued>>
  IN  /\ ~closed.over
      /\ closed' = [over |-> TRUE, raw |-> RawFor(reason), verdict |-> issued,
                    accepted |-> Store!AcceptedExtension(log, after)]
      /\ log' = IF closed'.accepted THEN after ELSE log
      /\ UNCHANGED <<vars, policy, stage, lastVerdict>>

Open == [over |-> FALSE, raw |-> NoRaw, accepted |-> FALSE,
         verdict |-> Store!PlainEvent("VerdictIssued", 0)]

VerdictInit == /\ Init
               /\ policy \in Policies
               /\ stage = "noted"
               /\ log = <<>>
               /\ lastVerdict = NoRaw
               /\ closed = Open

VerdictNext == \/ \E item \in Items : Write(item)
               \/ Record
               \/ Note
               \/ \E reason \in Reasons : Close(reason)

VerdictSpec == VerdictInit /\ [][VerdictNext]_verdictVars

-----------------------------------------------------------------------------
(* Properties.                                                             *)

\* The fold, the submission and the verdict have their types.
VerdictTypeOK ==
  /\ TypeOK
  /\ policy \in Policies
  /\ stage \in Stages
  /\ log \in Seq(Store!Event)
  /\ lastVerdict \in Raw
  /\ closed.over \in BOOLEAN /\ closed.accepted \in BOOLEAN
  /\ closed.raw \in Raw /\ closed.verdict \in Store!Event

Passes == closed.accepted /\ closed.verdict.status \in Store!PassingVerdicts

\* Some item supports the check, and the stream accepted it as evidence.
ProvedInStream(t) ==
  \E k \in DOMAIN ledger : /\ ledger[k].id \in Coverage[t].refs \cap Store!AcceptedEvidence(log)
                           /\ Supports(ledger[k]) \/ SelfMeasured(ledger[k])

\* A run closes as passed only on a GateKeeper's uncontradicted pass, with accepted
\* evidence for every check, no later rejection, and no risk the contract or the missing
\* management path forbids, wherever the submission of its last step was cut off.
PassIsEarned ==
  Passes =>
    /\ closed.raw.passed /\ ~closed.raw.blockers
    /\ GatekeeperMode => latestGatekeeper.result = "passed"
    /\ \A t \in DoneWhen : ProvedInStream(t)
    /\ \A risk \in {closed.raw.risk, latestGatekeeper.risk} :
         /\ risk # "unmanaged"
         /\ policy = "disallow" => risk = "none"
         /\ closed.verdict.status = "passed" => risk = "none"

\* The stream does not know of all the evidence the verdict was reached on.
Unrecorded ==
  \/ \E k \in DOMAIN ledger : ledger[k].id \notin Store!AcceptedEvidence(log)
  \/ \E k \in DOMAIN log : /\ Store!IsLatest(log, "CoverageRecomputed", k)
                            /\ log[k].status # OverallStatus(ledger, Coverage)

\* The two engines read "none" as a policy differently.
PolicyIsReadTwice == policy = "none" /\ ShownRisks(closed.raw) # {}

\* The store refuses the verdict of an ended run for one of three reasons: evidence that was
\* written and not recorded, a blocked target nobody judged, or the bare policy "none".
\* Otherwise the two engines, who do not know of each other, agree on what it accepts.
RefusalIsExplained ==
  (closed.over /\ ~closed.accepted) =>
    \/ Unrecorded
    \/ SomeBlocked /\ ~closed.raw.given
    \/ PolicyIsReadTwice

\* Evidence is refused only for citing evidence that the stream does not know.
EvidenceRefusedForItsRefs ==
  stage = "refused" => ~(LastItem.refs \subseteq Store!AcceptedEvidence(log))
=============================================================================
