--------------------------- MODULE HeadlessRunner ---------------------------
(***************************************************************************)
(* The worker of a headless run between its claim of a slot and its        *)
(* outcome: iterations over the strategy, the steps of a parallel group in *)
(* threads of their own, retries of a role, run controls, commits.  The    *)
(* threads, and whoever asks for a stop, share the run's row and stream.   *)
(* Waiting for the slot, finalization and recovery are in RunService.      *)
(*                                                                         *)
(* A batch of step events appended in one transaction is one event here,   *)
(* StepCommitted with the evidence transaction that follows it.  Between   *)
(* the submission guard and its append only a sibling's claim can come,    *)
(* which the append does not read.  The files of a step are left out.      *)
(***************************************************************************)
EXTENDS RunReplay

CONSTANTS Guarded,     \* steps and controls of Builders and Inspectors
          Judges,      \* steps of GateKeepers
          Finishers,   \* those whose pass may finish the run
          Controls,    \* the ids of the controls, in their order
          ControlOf,   \* signal, blocking or not, and max_fires_per_run of a control
          MaxIters,    \* max_iters of the run
          RetryLimits, \* values of max_role_retries; 0 is no limit
          None

ControlIds == {Controls[k] : k \in DOMAIN Controls}
Jobs == StepIds \cup ControlIds

Signals == {"gatekeeper_rejected", "no_evidence_progress", "step_failed", "role_timeout"}

\* A group has Inspectors only (or custom roles), a control no Builder.
ASSUME RunnerAssumption ==
  /\ Controls \in Seq(ControlIds) /\ Cardinality(ControlIds) = Len(Controls)
  /\ ControlOf \in [ControlIds -> [signal : Signals, blocking : BOOLEAN, fires : 1 .. 20]]
  /\ ControlIds \cap StepIds = {} /\ {None, NoStep} \cap Jobs = {}
  /\ Finishers \subseteq Judges /\ Judges \subseteq StepIds /\ Guarded \subseteq Jobs \ Judges
  /\ \A s \in Judges : GroupOf[s] = NoGroup
  /\ MaxIters \in Nat \ {0} /\ RetryLimits \subseteq Nat

VARIABLES row,     \* loop_runs: status, stop_requested, child_pid (the role it belongs to),
                   \* completion_mode, max_role_retries
          log,     \* the run's stream, and its replay
          main,    \* the worker's own thread
          job,     \* the execution of each step and control, in its thread
          fired,   \* control_fire_counts
          judged,  \* current_gatekeeper_result of the iteration
          stalled  \* whether the stagnation state shows a mode

vars == <<row, log, main, job, fired, judged, stalled>>

Init ==
  /\ \E mode \in {"gatekeeper", "rounds"}, limit \in RetryLimits :
       row = [status |-> "running", stop |-> FALSE, child |-> None,
              mode |-> mode, retries |-> limit]
  /\ log = [events |-> <<>>, snapshot |-> EmptySnapshot]
  /\ main = [pc |-> "top", iter |-> 0, index |-> 1, group |-> <<>>, at |-> 1,
             queue |-> {}, calling |-> None, cause |-> "none"]
  /\ job = [j \in Jobs |-> [pc |-> "idle", tries |-> 0]]
  /\ fired = [c \in ControlIds |-> 0]
  /\ judged = "none"
  /\ stalled = FALSE

Outcome == [close |-> "succeeded", rounds |-> "succeeded", exhausted |-> "failed",
            role |-> "failed", unsafe |-> "failed", crash |-> "failed", stop |-> "stopped"]

Event(type, step, passed) == [type |-> type, step |-> step, iter |-> main.iter, passed |-> passed]
IterationEvent(type) == Event(type, NoStep, FALSE)

Logged(l, e) == [events |-> Append(l.events, e), snapshot |-> Apply(l.snapshot, e)]

Alive(j) == job[j].pc \in {"claim", "try", "exec"}
Rest(j, pc) == job' = [job EXCEPT ![j] = [pc |-> pc, tries |-> IF pc = "try" THEN @.tries ELSE 0]]

Leave(cause) == main' = [main EXCEPT !.pc = "leaving", !.cause = cause]

-----------------------------------------------------------------------------
(* A role, in the thread of its step: claim, attempts, its child process.  *)

Claim(j) ==
  /\ job[j].pc = "claim"
  /\ log' = Logged(log, Event("StepInstructionIssued", j, FALSE))
  /\ Rest(j, "try")
  /\ UNCHANGED <<row, main, fired, judged, stalled>>

\* Fault: a stop is looked for before the first attempt only.
StopSeenFirst(j) == row.stop /\ job[j].tries = 0

StopSeen(j) == row.stop

\* _ensure_not_stopped comes before every attempt; without a limit the attempts are not counted.
Attempt(j) ==
  /\ job[j].pc = "try"
  /\ IF StopSeen(j) THEN Rest(j, "halted") /\ UNCHANGED row
     ELSE /\ job' = [job EXCEPT ![j].pc = "exec",
                               ![j].tries = IF row.retries = 0 THEN 1 ELSE @ + 1]
          /\ row' = [row EXCEPT !.child = j]
  /\ UNCHANGED <<log, main, fired, judged, stalled>>

NoAttemptLeft(j) == row.retries # 0 /\ job[j].tries > row.retries

\* The role answers, or answers what cannot be normalized; or it fails, times out or is
\* killed by send_stop_signal; or its executor sees the stop.
ChildEnds(j) ==
  /\ job[j].pc = "exec"
  /\ \/ Rest(j, "ok") \/ Rest(j, "broke")
     \/ Rest(j, IF NoAttemptLeft(j) THEN "failed" ELSE "try")
     \/ row.stop /\ Rest(j, "halted")
  /\ row' = [row EXCEPT !.child = None]
  /\ UNCHANGED <<log, main, fired, judged, stalled>>

JobStep(j) == Claim(j) \/ Attempt(j) \/ ChildEnds(j)

-----------------------------------------------------------------------------
(* The worker's thread: iterations and steps.                              *)

BeginIteration ==
  /\ main.pc = "top" /\ main.iter < MaxIters
  /\ IF row.stop THEN Leave("stop") /\ UNCHANGED <<log, judged>>
     ELSE /\ log' = Logged(log, IterationEvent("IterationStarted"))
          /\ main' = [main EXCEPT !.pc = "plan", !.index = 1]
          /\ judged' = "none"
  /\ UNCHANGED <<row, job, fired, stalled>>

Exhaust ==
  /\ main.pc = "top" /\ main.iter = MaxIters
  /\ Leave(IF row.mode = "rounds" THEN "rounds" ELSE "exhausted")
  /\ UNCHANGED <<row, log, job, fired, judged, stalled>>

NextIndex == IF main.index > Len(Strategy) THEN main.index
             ELSE Cursor(log.events, log.snapshot, main.iter, main.index)

\* The step at k alone, or its parallel group from k on.
GroupFrom(k) ==
  IF GroupOf[Strategy[k]] = NoGroup THEN <<Strategy[k]>>
  ELSE LET last == CHOOSE m \in k .. Len(Strategy) :
                     /\ \A i \in k .. m : GroupOf[Strategy[i]] = GroupOf[Strategy[k]]
                     /\ m < Len(Strategy) => GroupOf[Strategy[m + 1]] # GroupOf[Strategy[k]]
       IN SubSeq(Strategy, k, last)

Dispatch ==
  /\ main.pc = "plan" /\ NextIndex <= Len(Strategy)
  /\ LET group == GroupFrom(NextIndex)
         members == {group[i] : i \in DOMAIN group}
     IN /\ main' = [main EXCEPT !.pc = "waiting", !.group = group, !.at = 1,
                                !.index = NextIndex + Len(group)]
        /\ job' = [j \in Jobs |-> IF j \in members THEN [pc |-> "claim", tries |-> 0] ELSE job[j]]
  /\ UNCHANGED <<row, log, fired, judged, stalled>>

Matching(signal) == {c \in ControlIds : ControlOf[c].signal = signal}

\* strategy_iteration_control_triggers: the iteration's steps are done.
EndSteps ==
  /\ main.pc = "plan" /\ NextIndex > Len(Strategy)
  /\ main' = [main EXCEPT !.pc = "signals", !.cause = "none",
       !.queue = (IF judged = "rejected" THEN Matching("gatekeeper_rejected") ELSE {})
                 \cup (IF stalled THEN Matching("no_evidence_progress") ELSE {})]
  /\ UNCHANGED <<row, log, job, fired, judged, stalled>>

\* The results are awaited in the order of the steps; a failed role fires its controls
\* while the threads of its siblings go on.
AwaitStep ==
  /\ main.pc = "waiting"
  /\ LET j == main.group[main.at] IN
     \/ /\ job[j].pc = "ok"
        /\ main' = IF main.at < Len(main.group) THEN [main EXCEPT !.at = @ + 1]
                   ELSE [main EXCEPT !.pc = "committing", !.at = 1]
     \/ /\ job[j].pc = "failed"
        /\ \E signal \in {"step_failed", "role_timeout"} :
             main' = [main EXCEPT !.pc = "signals", !.queue = Matching(signal), !.cause = "role"]
     \/ job[j].pc = "halted" /\ Leave("stop")
     \/ job[j].pc = "broke" /\ Leave("crash")
  /\ UNCHANGED <<row, log, job, fired, judged, stalled>>

-----------------------------------------------------------------------------
(* submit_runner_step_result.                                              *)

CanSubmit(j) == Submittable(log.events, log.snapshot, main.iter, j)

NextStep == main' = IF main.at < Len(main.group) THEN [main EXCEPT !.at = @ + 1]
                    ELSE [main EXCEPT !.pc = "plan"]

\* The submission guard refuses the result, or its files cannot be written.
SubmitFails ==
  /\ main.pc = "committing"
  /\ Rest(main.group[main.at], "broke")
  /\ Leave("crash")
  /\ UNCHANGED <<row, log, fired, judged, stalled>>

\* The step is committed, but its evidence cannot be recorded, or original files are
\* found missing in the workspace.
CommitFails ==
  LET j == main.group[main.at] IN
  /\ main.pc = "committing" /\ CanSubmit(j)
  /\ log' = Logged(log, Event("StepCommitted", j, FALSE))
  /\ \/ Rest(j, "broke") /\ Leave("crash")
     \/ j \in Guarded /\ Rest(j, "unsafe") /\ Leave("unsafe")
  /\ UNCHANGED <<row, fired, judged, stalled>>

Commit ==
  LET j == main.group[main.at] IN
  /\ main.pc = "committing" /\ j \notin Judges /\ CanSubmit(j)
  /\ log' = Logged(log, Event("StepCommitted", j, FALSE))
  /\ NextStep
  /\ UNCHANGED <<row, job, fired, judged, stalled>>

\* A GateKeeper's result moves the stagnation state; its pass may finish the run.
CommitJudgement ==
  LET j == main.group[main.at] IN
  /\ main.pc = "committing" /\ j \in Judges /\ CanSubmit(j)
  /\ \E passed \in BOOLEAN :
       LET commit == Logged(log, Event("StepCommitted", j, passed)) IN
       /\ judged' = IF passed THEN "passed" ELSE "rejected"
       /\ IF passed /\ j \in Finishers /\ row.mode = "gatekeeper"
          THEN log' = Logged(commit, IterationEvent("IterationCompleted")) /\ Leave("close")
          ELSE log' = commit /\ NextStep
  /\ stalled' \in BOOLEAN
  /\ UNCHANGED <<row, job, fired>>

-----------------------------------------------------------------------------
(* _run_strategy_controls_for_signal.                                      *)

Blocking(c) == ControlOf[c].blocking
Calling == main.calling
NextControl == main' = [main EXCEPT !.pc = "signals", !.calling = None]

\* The controls of a signal come in their order, those of a rejection before those of a
\* stagnation.
ComesBefore(c, d) ==
  IF ControlOf[c].signal = ControlOf[d].signal
  THEN \E k, m \in DOMAIN Controls : k < m /\ Controls[k] = c /\ Controls[m] = d
  ELSE ControlOf[c].signal = "gatekeeper_rejected"

IsNext(c) == c \in main.queue /\ \A d \in main.queue : ~ComesBefore(d, c)

\* max_fires_per_run is used up, the run is younger than the control's after, or the
\* control's role is not there.
SkipControl ==
  /\ main.pc = "signals"
  /\ \E c \in ControlIds : IsNext(c) /\ main' = [main EXCEPT !.queue = @ \ {c}]
  /\ UNCHANGED <<row, log, job, fired, judged, stalled>>

FireControl ==
  /\ main.pc = "signals"
  /\ \E c \in ControlIds :
       /\ IsNext(c) /\ fired[c] < ControlOf[c].fires
       /\ fired' = [fired EXCEPT ![c] = @ + 1]
       /\ job' = [job EXCEPT ![c] = [pc |-> "claim", tries |-> 0]]
       /\ main' = [main EXCEPT !.pc = "control", !.calling = c, !.queue = @ \ {c}]
  /\ UNCHANGED <<row, log, judged, stalled>>

\* Fault: the error of a blocking control is swallowed like that of an advisory one.
ControlRaisesNever(cause) == NextControl

\* `except Exception`: a blocking control's error takes the place of the step's.
ControlRaises(cause) == IF Blocking(Calling) THEN Leave(cause) ELSE NextControl

\* Fault: the stop is an Exception like any other.
ControlHaltsAsError == ControlRaises("stop")

\* ExecutionStopped is no Exception, so no control's handler catches it.
ControlHalts == Leave("stop")

AwaitControl ==
  /\ main.pc = "control"
  /\ \/ job[Calling].pc = "failed" /\ ControlRaises("role")
     \/ job[Calling].pc = "broke" /\ ControlRaises("crash")
     \/ job[Calling].pc = "halted" /\ ControlHalts
  /\ UNCHANGED <<row, log, job, fired, judged, stalled>>

\* A control is committed like a step, but its result never finishes the run.
CommitControl ==
  /\ main.pc = "control" /\ job[Calling].pc = "ok" /\ CanSubmit(Calling)
  /\ log' = Logged(log, Event("StepCommitted", Calling, FALSE))
  /\ \/ NextControl /\ UNCHANGED job
     \/ Rest(Calling, "broke") /\ ControlRaises("crash")
     \/ Calling \in Guarded /\ Rest(Calling, "unsafe") /\ ControlRaises("unsafe")
  /\ UNCHANGED <<row, fired, judged, stalled>>

\* A sibling that claimed its step meanwhile makes the guard refuse the control's.
SubmitControlFails ==
  /\ main.pc = "control" /\ job[Calling].pc = "ok"
  /\ Rest(Calling, "broke")
  /\ ControlRaises("crash")
  /\ UNCHANGED <<row, log, fired, judged, stalled>>

\* The controls are through: the step's error goes on, or the iteration is checkpointed.
EndSignals ==
  /\ main.pc = "signals" /\ main.queue = {}
  /\ IF main.cause # "none" THEN Leave(main.cause) /\ UNCHANGED log
     ELSE /\ log' = Logged(log, IterationEvent("IterationCompleted"))
          /\ main' = [main EXCEPT !.pc = "top", !.iter = @ + 1]
  /\ UNCHANGED <<row, job, fired, judged, stalled>>

-----------------------------------------------------------------------------

\* Leaving the `with` block of the pool waits for every thread.
ThreadsJoined == \A j \in Jobs : ~Alive(j)

End ==
  /\ main.pc = "leaving" /\ ThreadsJoined
  /\ row' = [row EXCEPT !.status = Outcome[main.cause]]
  /\ main' = [main EXCEPT !.pc = "ended"]
  /\ UNCHANGED <<log, job, fired, judged, stalled>>

\* Causes that are finalized in an `except` clause of the runner.
Handled == {"stop", "role", "unsafe"}

\* The store refuses the verdict (RunService, VerdictAccepted) or a verdict file cannot be
\* written, before the row is updated: a crash, or in an `except` clause the worker's end.
\* The crash handler updates the row first and lets nothing out.
FinalizationFails ==
  /\ main.pc = "leaving" /\ ThreadsJoined /\ main.cause # "crash"
  /\ main' = IF main.cause \in Handled THEN [main EXCEPT !.pc = "ended"]
             ELSE [main EXCEPT !.cause = "crash"]
  /\ UNCHANGED <<row, log, job, fired, judged, stalled>>

RequestStop ==
  /\ row.status = "running" /\ ~row.stop
  /\ row' = [row EXCEPT !.stop = TRUE]
  /\ UNCHANGED <<log, main, job, fired, judged, stalled>>

MainStep ==
  \/ BeginIteration \/ Exhaust \/ Dispatch \/ EndSteps \/ AwaitStep
  \/ SubmitFails \/ CommitFails \/ Commit \/ CommitJudgement
  \/ SkipControl \/ FireControl \/ AwaitControl \/ CommitControl \/ SubmitControlFails
  \/ EndSignals \/ End \/ FinalizationFails

WorkerStep == MainStep \/ \E j \in Jobs : JobStep(j)

Next == WorkerStep \/ RequestStop

Spec == Init /\ [][Next]_vars

\* While the worker lives, one of its threads goes on, whichever; a role ends, if only by
\* its idle timeout.
FairSpec == Spec /\ WF_vars(WorkerStep)

-----------------------------------------------------------------------------
(* Properties *)

Over == row.status # "running"

MainPcs == {"top", "plan", "waiting", "committing", "signals", "control", "leaving", "ended"}
JobPcs == {"idle", "claim", "try", "exec", "ok", "failed", "broke", "halted", "unsafe"}
Events == [type : {"IterationStarted", "IterationCompleted", "StepInstructionIssued",
                   "StepCommitted"},
           step : Jobs \cup {NoStep}, iter : Nat, passed : BOOLEAN]
Replayed == [lifecycle : {"created", "awaiting_actor"}, step : Jobs \cup {NoStep},
             iter : Nat, pending : BOOLEAN]
Places == [pc : MainPcs, iter : 0 .. MaxIters, index : 1 .. Len(Strategy) + 1,
           group : Seq(StepIds), at : Nat \ {0}, queue : SUBSET ControlIds,
           calling : ControlIds \cup {None}, cause : DOMAIN Outcome \cup {"none"}]

Types ==
  /\ row \in [status : {"running", "succeeded", "failed", "stopped"}, stop : BOOLEAN,
              child : Jobs \cup {None}, mode : {"gatekeeper", "rounds"}, retries : RetryLimits]
  /\ log \in [events : Seq(Events), snapshot : Replayed]
  /\ main \in Places
  /\ job \in [Jobs -> [pc : JobPcs, tries : Nat]]
  /\ fired \in [ControlIds -> Nat]
  /\ judged \in {"none", "passed", "rejected"} /\ stalled \in BOOLEAN

TypeOK == Types /\ log.snapshot = Snapshot(log.events)

PassOfFinisher(e) == e.type = "StepCommitted" /\ e.step \in Finishers /\ e.passed

\* The commits of step s in iteration i among the first n events.
CommittedIn(n, i, s) ==
  \E k \in 1 .. n : /\ log.events[k].type = "StepCommitted"
                    /\ log.events[k].iter = i /\ log.events[k].step = s

\* Every step is committed once in every iteration, in the order of the strategy (what is
\* committed before it is exactly what comes before it), and no iteration is closed over a
\* step that is not committed (but by the pass that finishes the run): whatever is retried,
\* and whatever controls claim, commit or leave claimed in between.
StrategyInOrder ==
  \A k \in DOMAIN log.events :
    LET e == log.events[k] IN
    /\ (e.type = "StepCommitted" /\ e.step \in StepIds) =>
         \A i \in 0 .. MaxIters - 1, s \in StepIds :
           CommittedIn(k - 1, i, s) <=>
             (i < e.iter \/ (i = e.iter /\ IndexOf(s) < IndexOf(e.step)))
    /\ e.type = "IterationCompleted" =>
         \/ \A s \in StepIds : Committed(log.events, e.iter, s)
         \/ row.mode = "gatekeeper" /\ k > 1 /\ PassOfFinisher(log.events[k - 1])

\* A run succeeds over no step or blocking control that failed, broke or left the workspace
\* unsafe; with a GateKeeper's pass as the last thing committed, or after every round.
SuccessIsEarned ==
  row.status = "succeeded" =>
    /\ \A j \in Jobs : (j \in StepIds \/ Blocking(j)) => job[j].pc \in {"idle", "ok"}
    /\ IF row.mode = "gatekeeper"
       THEN \E k \in DOMAIN log.events : k = Len(log.events) - 1 /\ PassOfFinisher(log.events[k])
       ELSE \A i \in 0 .. MaxIters - 1, s \in StepIds : Committed(log.events, i, s)

\* A run over which a role has seen a stop is stopped: neither a retry nor a control's
\* handler swallows it.  Only the failure of an earlier step of the group comes first.
StopIsNotSwallowed ==
  Over => \A j \in Jobs : job[j].pc = "halted" =>
    \/ row.status = "stopped"
    \/ /\ j \in StepIds /\ GroupOf[j] # NoGroup
       /\ \E s \in StepIds : /\ GroupOf[s] = GroupOf[j] /\ IndexOf(s) < IndexOf(j)
                             /\ job[s].pc \in {"failed", "broke"}

\* The run ends when its retries are limited, and in any case once a stop was requested,
\* although without a limit a role may fail for ever.  Only a stop, a failed role or a broken
\* workspace, all finalized in an `except` clause, may leave the row running, if that fails.
HeadlessRunEnds ==
  (row.stop \/ row.retries # 0) ~> (Over \/ (main.pc = "ended" /\ main.cause \in Handled))
=============================================================================
