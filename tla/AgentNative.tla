---------------------------- MODULE AgentNative -----------------------------
(***************************************************************************)
(* The agent-native plane: a host Agent runs the steps of a run itself and *)
(* talks to Loopora through CLI processes, `prepare` (/loopora-run),       *)
(* `next` and `submit`, that share the run row, the event stream and       *)
(* agent_native/state.json.  A CLI process is a sequence of transactions,  *)
(* file reads and file writes; another process may run between any two of  *)
(* them.  Only submit takes submit.lock (a flock, gone with its process),  *)
(* which covers the `next` nested in it.                                   *)
(*                                                                         *)
(* A batch of step events appended in one transaction is one event here:   *)
(* StepInstructionIssued stands for the claim batch, StepCommitted for the *)
(* submit batch, EvidenceAccepted for the evidence batch.  The files of a  *)
(* step, controls and the verdict of a finalization are left out.          *)
(***************************************************************************)
EXTENDS RunReplay

CONSTANTS Cli,          \* slots for CLI processes
          None,
          Workers,      \* steps of builders and inspectors
          Finishers,    \* GateKeeper steps that may finish the run
          Mode,         \* completion_mode: "gatekeeper" or "rounds"
          MaxIters,     \* max_iters of the run
          DiesInWrite,  \* whether a process may die while it writes state.json
          CanStop,      \* whether the user may stop the run
          MaxFaults, MaxLog,   \* bounds: deaths and refusals, events
          MaxCrossed    \* bound: no call begins on a longer stream once calls have crossed

ASSUME NativeAssumption ==
  /\ None \notin Cli
  /\ Workers \cap Finishers = {} /\ Workers \cup Finishers \subseteq StepIds
  /\ Mode \in {"gatekeeper", "rounds"}
  /\ MaxIters \in Nat \ {0} /\ {MaxFaults, MaxLog, MaxCrossed} \subseteq Nat
  /\ {DiesInWrite, CanStop} \subseteq BOOLEAN

\* validate_parallel_group_contiguity: nothing stands between two steps of a group.
ASSUME GroupsAssumption ==
  \A j, k, l \in DOMAIN Strategy :
    (j <= k /\ k <= l /\ GroupOf[Strategy[j]] = GroupOf[Strategy[l]]
       /\ GroupOf[Strategy[j]] # NoGroup) => GroupOf[Strategy[k]] = GroupOf[Strategy[j]]

VARIABLES log,      \* the run's stream
          row,      \* the status of its row
          file,     \* state.json
          lock,     \* the holder of submit.lock
          handed,   \* the step views the host has been given
          cli,      \* the CLI processes
          past      \* deaths and refusals so far; whether one cut a write short; whether a
                    \* prepare or a next has run beside another call; whether a committed
                    \* pass was dropped before it ended the run; whether the verdict of an
                    \* exhaustion was refused

vars == <<log, row, file, lock, handed, cli, past>>

Store == INSTANCE EventStore WITH Steps <- StepIds, Iterations <- 0 .. MaxIters - 1,
                                  EvidenceIds <- {}

-----------------------------------------------------------------------------
(* state.json.  inputs are the outputs of this iteration a step is given.  *)

View == [step : StepIds \cup {NoStep}, iter : 0 .. MaxIters, inputs : SUBSET StepIds]
NoView == [step |-> NoStep, iter |-> 0, inputs |-> {}]

\* index is 1 + step_index; snapshot is the parallel_group_snapshot.
DefaultState ==
  [iter |-> 0, index |-> 1, active |-> NoView, results |-> {},
   snapshot |-> [group |-> NoGroup, iter |-> 0, inputs |-> {}], done |-> FALSE]

\* An empty file reads like no file; what it held before is kept for the properties.
Read(f) == IF f.kind = "state" THEN f.st ELSE DefaultState

GroupMates(step) == {s \in StepIds : GroupOf[s] = GroupOf[step]}

LastOfGroup(step) ==
  \/ GroupOf[step] = NoGroup
  \/ IndexOf(step) = Len(Strategy)
  \/ GroupOf[Strategy[IndexOf(step) + 1]] # GroupOf[step]

\* Fault: the group's inputs are taken anew at every claim.
SnapshotAnew(st, step) ==
  IF GroupOf[step] = NoGroup THEN DefaultState.snapshot
  ELSE [group |-> GroupOf[step], iter |-> st.iter, inputs |-> st.results]

\* agent_native_claim_input_snapshot
SnapshotFor(st, step) ==
  IF GroupOf[step] = NoGroup THEN DefaultState.snapshot
  ELSE IF st.snapshot.group = GroupOf[step] /\ st.snapshot.iter = st.iter THEN st.snapshot
  ELSE [group |-> GroupOf[step], iter |-> st.iter, inputs |-> st.results \ GroupMates(step)]

ClaimedState(st, step) ==
  LET snapshot == SnapshotFor(st, step)
  IN [st EXCEPT !.snapshot = snapshot,
                !.active = [step |-> step, iter |-> st.iter,
                            inputs |-> IF GroupOf[step] = NoGroup THEN st.results
                                       ELSE snapshot.inputs]]

\* Fault: the step index moves two ahead.
SubmittedStatePast(st, step) ==
  [st EXCEPT !.results = @ \cup {step}, !.active = NoView, !.index = IndexOf(step) + 2,
             !.snapshot = IF LastOfGroup(step) THEN DefaultState.snapshot ELSE @]

SubmittedState(st, step) ==
  [st EXCEPT !.results = @ \cup {step}, !.active = NoView, !.index = IndexOf(step) + 1,
             !.snapshot = IF LastOfGroup(step) THEN DefaultState.snapshot ELSE @]

\* Fault: the iteration is not counted on.
NextIterationAgain(st) == [DefaultState EXCEPT !.iter = st.iter, !.done = st.done]

NextIterationState(st) ==
  [DefaultState EXCEPT !.iter = st.iter + 1, !.done = st.done]

-----------------------------------------------------------------------------
(* Init, and what the actions are made of.                                 *)

Event(type, step, iter, passed) ==
  [type |-> type, step |-> step, iter |-> iter, passed |-> passed]
RunEvent(type) == Event(type, NoStep, 0, FALSE)

\* call: what the host asked; pc, then: where the process is and where it goes after
\* the action it is at; seen: the length of the stream it read; view, passed: the
\* result it brings.
Idle == [call |-> "none", pc |-> "idle", then |-> "idle", st |-> DefaultState,
         step |-> NoStep, seen |-> 0, view |-> NoView, passed |-> FALSE]

Init ==
  /\ log = <<RunEvent("RunCreated")>>
  /\ row = "queued"
  /\ file = [kind |-> "absent", st |-> DefaultState]
  /\ lock = None
  /\ handed = {}
  /\ cli = [c \in Cli |-> Idle]
  /\ past = [faults |-> 0, cut |-> FALSE, crossed |-> FALSE, dropped |-> FALSE,
             refused |-> FALSE]

RowActive == row \in {"queued", "awaiting_agent"}
RowTerminal == row \in {"succeeded", "failed", "stopped"}

Go(c, pc) == cli' = [cli EXCEPT ![c].pc = pc]
GoWith(c, pc, st) == cli' = [cli EXCEPT ![c].pc = pc, ![c].st = st]
GoThen(c, pc, then) == cli' = [cli EXCEPT ![c].pc = pc, ![c].then = then]
WriteThen(c, st, then) ==
  cli' = [cli EXCEPT ![c].pc = "write", ![c].st = st, ![c].then = then]

\* The process ends, with an answer or an error.
Return(c) ==
  /\ cli' = [cli EXCEPT ![c] = Idle]
  /\ lock' = IF lock = c THEN None ELSE lock

\* The process is between the commit of a pass and the end it brings the run.
Carrying(me) ==
  me.passed /\ \/ me.pc \in {"evidence", "after", "pass"}
               \/ me.pc \in {"complete_find", "complete"} /\ me.then = "pass"

\* The process gets no further: it dies, or the store refuses an event and the error ends it.
Fails(c) == [past EXCEPT !.faults = @ + 1, !.dropped = @ \/ Carrying(cli[c])]
Refused(c) ==
  /\ past.faults < MaxFaults
  /\ past' = Fails(c)
  /\ Return(c)

StatusEvent == [awaiting_agent |-> "RunPausedForActor", succeeded |-> "RunClosed",
                failed |-> "RunFailed", stopped |-> "RunStopped"]

\* Fault: the row is updated although its event is refused.
RowUpdatableAlways(status) == TRUE

\* update_run: the event owed for a new status must be accepted, in the same transaction.
RowUpdatable(status) ==
  row # status => Store!LifecycleAllowed(log, RunEvent(StatusEvent[status]))

UpdateRow(status) ==
  /\ row' = status
  /\ log' = IF row = status THEN log
            ELSE Append(log, RunEvent(StatusEvent[status]))

Logged(type, iter) == \E k \in DOMAIN log : log[k].type = type /\ log[k].iter = iter

Alone(c, call) ==
  \A d \in Cli \ {c} : cli[d].pc = "idle" \/ (call = "submit" /\ cli[d].call = "submit")

MayStart(c, call) ==
  /\ cli[c].pc = "idle"
  /\ RowActive
  /\ past' = [past EXCEPT !.crossed = @ \/ ~Alone(c, call)]
  /\ Len(log) < IF past'.crossed THEN MaxCrossed ELSE MaxLog

-----------------------------------------------------------------------------
(* Writing state.json: open for writing empties the file, the text follows *)
(* in pieces.                                                              *)

BeginWrite(c) ==
  /\ cli[c].pc = "write"
  /\ \E kind \in {"empty", "torn"} : file' = [file EXCEPT !.kind = kind]
  /\ Go(c, "flush")
  /\ UNCHANGED <<log, row, lock, handed, past>>

\* Over a text another process wrote meanwhile, the longer text's tail may remain.
EndWrite(c) ==
  LET me == cli[c]
  IN /\ me.pc = "flush"
     /\ \/ file' = [kind |-> "state", st |-> me.st]
        \/ file.kind = "state" /\ file' = [kind |-> "torn", st |-> me.st]
     /\ IF me.then = "return"
        THEN Return(c) /\ handed' = handed \cup ({me.st.active} \ {NoView})
        ELSE Go(c, me.then) /\ UNCHANGED <<lock, handed>>
     /\ UNCHANGED <<log, row, past>>

-----------------------------------------------------------------------------
(* prepare_agent_native_run                                                *)

CallPrepare(c) ==
  /\ MayStart(c, "prepare")
  /\ cli' = [cli EXCEPT ![c].call = "prepare", ![c].pc = "prepare"]
  /\ UNCHANGED <<log, row, file, lock, handed>>

PrepareLoad(c) ==
  /\ cli[c].pc = "prepare"
  /\ IF file.kind = "torn" THEN Return(c)
     ELSE GoWith(c, "prepare_row", Read(file)) /\ UNCHANGED lock
  /\ UNCHANGED <<log, row, file, handed, past>>

PrepareRow(c) ==
  /\ cli[c].pc = "prepare_row"
  /\ IF RowUpdatable("awaiting_agent")
     THEN UpdateRow("awaiting_agent") /\ WriteThen(c, cli[c].st, "row") /\ UNCHANGED lock
     ELSE Return(c) /\ UNCHANGED <<log, row>>
  /\ UNCHANGED <<file, handed, past>>

-----------------------------------------------------------------------------
(* claim_agent_native_step: asked by the host, or at the end of another    *)
(* call.  Nothing is claimed of a run that has ended.                      *)

CallNext(c) ==
  /\ MayStart(c, "next")
  /\ cli' = [cli EXCEPT ![c].call = "next", ![c].pc = "load"]
  /\ UNCHANGED <<log, row, file, lock, handed>>

ReadRow(c) ==
  /\ cli[c].pc = "row"
  /\ IF RowActive THEN Go(c, "load") /\ UNCHANGED lock ELSE Return(c)
  /\ UNCHANGED <<log, row, file, handed, past>>

\* A new entry_source is written into the state as it was read.
Load(c) ==
  /\ cli[c].pc = "load"
  /\ IF file.kind = "torn" THEN Return(c)
     ELSE /\ \/ GoWith(c, "refresh", Read(file))
             \/ WriteThen(c, Read(file), "refresh")
          /\ UNCHANGED lock
  /\ UNCHANGED <<log, row, file, handed, past>>

\* Fault: a claimed step is never found stale.
StaleNever(active) == FALSE

Stale(active) ==
  LET now == Snapshot(log)
  IN ~(Claimable(now) /\ now.step = active.step /\ now.iter = active.iter)

\* A current claim is answered again, after a write when the coverage changed.
Refresh(c) ==
  LET st == cli[c].st
  IN /\ cli[c].pc = "refresh"
     /\ \/ /\ st.active = NoView
           /\ Go(c, "events")
           /\ UNCHANGED <<lock, handed>>
        \/ /\ st.active # NoView /\ Stale(st.active)
           /\ WriteThen(c, [st EXCEPT !.active = NoView], "events")
           /\ UNCHANGED <<lock, handed>>
        \/ /\ st.active # NoView /\ ~Stale(st.active)
           /\ \/ Return(c) /\ handed' = handed \cup {st.active}
              \/ WriteThen(c, st, "return") /\ UNCHANGED <<lock, handed>>
     /\ UNCHANGED <<log, row, file, past>>

\* runner_step_index_for_run reads the events, then the projection.
ReadEvents(c) ==
  /\ cli[c].pc = "events"
  /\ cli' = [cli EXCEPT ![c].pc = "plan", ![c].seen = Len(log)]
  /\ UNCHANGED <<log, row, file, lock, handed, past>>

Plan(c) ==
  LET me == cli[c]
      next == Cursor(SubSeq(log, 1, me.seen), Snapshot(log), me.st.iter, me.st.index)
  IN /\ me.pc = "plan"
     /\ IF next <= Len(Strategy)
        THEN cli' = [cli EXCEPT ![c].pc = "start_find", ![c].step = Strategy[next]]
        ELSE GoThen(c, "complete_find", "advance")
     /\ UNCHANGED <<log, row, file, lock, handed, past>>

\* start_iteration looks for the event, and appends it in a transaction of its own.
FindStarted(c) ==
  /\ cli[c].pc = "start_find"
  /\ Go(c, IF Logged("IterationStarted", cli[c].st.iter) THEN "pause" ELSE "start")
  /\ UNCHANGED <<log, row, file, lock, handed, past>>

StartIteration(c) ==
  /\ cli[c].pc = "start"
  /\ log' = Append(log, Event("IterationStarted", NoStep, cli[c].st.iter, FALSE))
  /\ Go(c, "pause")
  /\ UNCHANGED <<row, file, lock, handed, past>>

PauseRow(c) ==
  /\ cli[c].pc = "pause"
  /\ IF RowUpdatable("awaiting_agent")
     THEN UpdateRow("awaiting_agent") /\ Go(c, "issue") /\ UNCHANGED lock
     ELSE Return(c) /\ UNCHANGED <<log, row>>
  /\ UNCHANGED <<file, handed, past>>

Issue(c) ==
  LET me == cli[c]
  IN /\ me.pc = "issue"
     /\ log' = Append(log, Event("StepInstructionIssued", me.step, me.st.iter, FALSE))
     /\ WriteThen(c, ClaimedState(me.st, me.step), "return")
     /\ UNCHANGED <<row, file, lock, handed, past>>

-----------------------------------------------------------------------------
(* _agent_native_finish_iteration_or_advance                               *)

FindCompleted(c) ==
  /\ cli[c].pc = "complete_find"
  /\ Go(c, IF Logged("IterationCompleted", cli[c].st.iter) THEN cli[c].then ELSE "complete")
  /\ UNCHANGED <<log, row, file, lock, handed, past>>

CompleteIteration(c) ==
  /\ cli[c].pc = "complete"
  /\ log' = Append(log, Event("IterationCompleted", NoStep, cli[c].st.iter, FALSE))
  /\ Go(c, cli[c].then)
  /\ UNCHANGED <<row, file, lock, handed, past>>

Advance(c) ==
  LET st == cli[c].st
  IN /\ cli[c].pc = "advance"
     /\ IF st.iter + 1 >= MaxIters THEN Go(c, "exhaust")
        ELSE WriteThen(c, NextIterationState(st), "row")
     /\ UNCHANGED <<log, row, file, lock, handed, past>>

\* _finalize_terminal_run: the verdict is issued first, and the store may refuse it; then
\* update_run is never reached, and nothing in this plane catches the error.
Exhaust(c) ==
  LET status == IF Mode = "rounds" THEN "succeeded" ELSE "failed"
  IN /\ cli[c].pc = "exhaust"
     /\ \/ /\ RowUpdatable(status)
           /\ UpdateRow(status)
           /\ WriteThen(c, [cli[c].st EXCEPT !.done = TRUE], "return")
           /\ UNCHANGED <<lock, past>>
        \/ ~RowUpdatable(status) /\ Return(c) /\ UNCHANGED <<log, row, past>>
        \/ /\ past.faults < MaxFaults
           /\ past' = [Fails(c) EXCEPT !.refused = TRUE]
           /\ Return(c)
           /\ UNCHANGED <<log, row>>
     /\ UNCHANGED <<file, handed>>

-----------------------------------------------------------------------------
(* submit_agent_native_step                                                *)

CallSubmit(c, view, passed) ==
  /\ MayStart(c, "submit")
  /\ view \in handed
  /\ passed => view.step \in Finishers
  /\ cli' = [cli EXCEPT ![c].call = "submit", ![c].pc = "lock",
                        ![c].view = view, ![c].passed = passed]
  /\ UNCHANGED <<log, row, file, lock, handed>>

\* Fault: the lock is not waited for.
LockFreeAlways(c) == TRUE

LockFree(c) == lock = None

Lock(c) ==
  /\ cli[c].pc = "lock"
  /\ LockFree(c)
  /\ lock' = c
  /\ Go(c, "submit_load")
  /\ UNCHANGED <<log, row, file, handed, past>>

\* The result must be for the claimed step, of its iteration.
SubmitLoad(c) ==
  LET st == Read(file)  view == cli[c].view
  IN /\ cli[c].pc = "submit_load"
     /\ IF file.kind # "torn" /\ st.active.step = view.step /\ st.active.iter = view.iter
        THEN /\ cli' = [cli EXCEPT ![c].pc = "guard_events", ![c].then = "guard_events",
                                   ![c].st = st, ![c].step = view.step]
             /\ UNCHANGED lock
        ELSE Return(c)
     /\ UNCHANGED <<log, row, file, handed, past>>

\* The guard runs twice: before the step's files are written and before the commit.
GuardEvents(c) ==
  /\ cli[c].pc = "guard_events"
  /\ cli' = [cli EXCEPT ![c].pc = "guard", ![c].seen = Len(log)]
  /\ UNCHANGED <<log, row, file, lock, handed, past>>

Guard(c) ==
  LET me == cli[c]
  IN /\ me.pc = "guard"
     /\ IF Submittable(SubSeq(log, 1, me.seen), Snapshot(log), me.view.iter, me.view.step)
        THEN GoThen(c, me.then, "commit") /\ UNCHANGED lock
        ELSE Return(c)
     /\ UNCHANGED <<log, row, file, handed, past>>

Commit(c) ==
  LET me == cli[c]
  IN /\ me.pc = "commit"
     /\ log' = Append(log, Event("StepCommitted", me.view.step, me.view.iter, me.passed))
     /\ Go(c, "evidence")
     /\ UNCHANGED <<row, file, lock, handed, past>>

\* The store may refuse the evidence batch, and its transaction is rolled back.
RecordEvidence(c) ==
  LET me == cli[c]
  IN /\ me.pc = "evidence"
     /\ \/ /\ log' = Append(log, Event("EvidenceAccepted", me.view.step, me.view.iter, FALSE))
           /\ Go(c, "after")
           /\ UNCHANGED <<lock, past>>
        \/ Refused(c) /\ UNCHANGED log
     /\ UNCHANGED <<row, file, handed>>

\* _enforce_workspace_safety raises, and nothing in this plane catches it.
WorkspaceBreach(c) ==
  /\ cli[c].pc = "after"
  /\ cli[c].step \in Workers
  /\ Return(c)
  /\ UNCHANGED <<log, row, file, handed, past>>

\* Fault: the result of a GateKeeper is not looked at.
FinishesNever(c) == FALSE

Finishes(c) == Mode = "gatekeeper" /\ cli[c].passed

AfterCommit(c) ==
  /\ cli[c].pc = "after"
  /\ IF Finishes(c) THEN GoThen(c, "complete_find", "pass")
     ELSE WriteThen(c, SubmittedState(cli[c].st, cli[c].step), "row")
  /\ UNCHANGED <<log, row, file, lock, handed, past>>

\* _finish_runner_gatekeeper_success; the verdict may be refused here too.
Pass(c) ==
  /\ cli[c].pc = "pass"
  /\ \/ /\ RowUpdatable("succeeded")
        /\ UpdateRow("succeeded")
        /\ WriteThen(c, SubmittedState(cli[c].st, cli[c].step), "passed")
        /\ UNCHANGED <<lock, past>>
     \/ ~RowUpdatable("succeeded") /\ Return(c) /\ UNCHANGED <<log, row, past>>
     \/ Refused(c) /\ UNCHANGED <<log, row>>
  /\ UNCHANGED <<file, handed>>

Passed(c) ==
  /\ cli[c].pc = "passed"
  /\ WriteThen(c, [cli[c].st EXCEPT !.done = TRUE], "return")
  /\ UNCHANGED <<log, row, file, lock, handed, past>>

-----------------------------------------------------------------------------
(* The user's stop, and the death of a process.                            *)

\* Its verdict may be refused as well: then nothing changes.
Stop ==
  /\ CanStop
  /\ RowActive
  /\ RowUpdatable("stopped")
  /\ UpdateRow("stopped")
  /\ UNCHANGED <<file, lock, handed, cli, past>>

Crash(c) ==
  /\ cli[c].pc # "idle"
  /\ cli[c].pc = "flush" => DiesInWrite
  /\ past.faults < MaxFaults
  /\ past' = [Fails(c) EXCEPT !.cut = @ \/ cli[c].pc = "flush"]
  /\ Return(c)
  /\ UNCHANGED <<log, row, file, handed>>

Claim(c) ==
  ReadRow(c) \/ Load(c) \/ Refresh(c) \/ ReadEvents(c) \/ Plan(c) \/ FindStarted(c)
  \/ StartIteration(c) \/ PauseRow(c) \/ Issue(c)

FinishIteration(c) == FindCompleted(c) \/ CompleteIteration(c) \/ Advance(c) \/ Exhaust(c)

Submit(c) ==
  Lock(c) \/ SubmitLoad(c) \/ GuardEvents(c) \/ Guard(c) \/ Commit(c) \/ RecordEvidence(c)
  \/ WorkspaceBreach(c) \/ AfterCommit(c) \/ Pass(c) \/ Passed(c)

\* A process that is running keeps running.
Run(c) ==
  BeginWrite(c) \/ EndWrite(c) \/ PrepareLoad(c) \/ PrepareRow(c)
  \/ Claim(c) \/ FinishIteration(c) \/ Submit(c)

\* The host brings the result of the step it was told to do.
SubmitClaimed(c) ==
  \E view \in handed, passed \in BOOLEAN :
    /\ file.kind = "state" /\ file.st.active = view
    /\ CallSubmit(c, view, passed)

Next ==
  \/ \E c \in Cli : CallPrepare(c) \/ CallNext(c) \/ Run(c) \/ Crash(c)
  \/ \E c \in Cli, view \in handed, passed \in BOOLEAN : CallSubmit(c, view, passed)
  \/ Stop

Spec == Init /\ [][Next]_vars

\* The host asks and answers again and again as long as the run is active.
FairSpec ==
  /\ Spec
  /\ \A c \in Cli : WF_vars(Run(c)) /\ SF_vars(CallNext(c)) /\ SF_vars(SubmitClaimed(c))

-----------------------------------------------------------------------------
(* Properties.                                                             *)

State == [iter : 0 .. MaxIters, index : 1 .. Len(Strategy) + 1, active : View,
          results : SUBSET StepIds,
          snapshot : [group : {GroupOf[s] : s \in StepIds} \cup {NoGroup}, iter : Nat,
                      inputs : SUBSET StepIds],
          done : BOOLEAN]

\* The variables keep their types.
TypeOK ==
  /\ row \in {"queued"} \cup DOMAIN StatusEvent
  /\ file.kind \in {"absent", "empty", "torn", "state"} /\ file.st \in State
  /\ lock \in Cli \cup {None}
  /\ handed \subseteq View
  /\ \A k \in DOMAIN log : log[k].step \in StepIds \cup {NoStep} /\ log[k].iter \in 0 .. MaxIters
  /\ \A c \in Cli : cli[c].st \in State /\ cli[c].seen <= Len(log) /\ cli[c].view \in View

Of(type, step, iter) ==
  {k \in DOMAIN log : log[k].type = type /\ log[k].step = step /\ log[k].iter = iter}

\* A step of an iteration is committed at most once, however often its result is brought,
\* by however many processes, and whatever crash lies between: the submission guard under
\* submit.lock (engine/step_submission_guard.py, agent_native_state.py).
StepCommittedOnce ==
  \A step \in StepIds, iter \in 0 .. MaxIters :
    Cardinality(Of("StepCommitted", step, iter)) <= 1

\* Evidence is accepted once per committed step and never ahead of the commit: the two
\* transactions of submit_runner_step_result.
EvidenceFollowsItsCommit ==
  \A k \in DOMAIN log : log[k].type = "EvidenceAccepted" =>
    /\ \E j \in Of("StepCommitted", log[k].step, log[k].iter) : j < k
    /\ Cardinality(Of("EvidenceAccepted", log[k].step, log[k].iter)) = 1

\* Steps are committed in the order of the strategy, none left out, and an iteration's
\* only after those of the one before: the cursor is recomputed from stream and
\* projection at every claim, whatever became of state.json.  In later iterations only
\* as long as no claim ran beside another call: the instruction of a late claim and the
\* start of the next iteration make a projection that no one meant.
CommitsFollowTheStrategy ==
  \A k \in DOMAIN log : (log[k].type = "StepCommitted" /\ (log[k].iter = 0 \/ ~past.crossed)) =>
    LET Before(step, iter) == \E j \in Of("StepCommitted", step, iter) : j < k
        step == log[k].step  iter == log[k].iter
    IN /\ \A s \in StepIds : IndexOf(s) < IndexOf(step) => Before(s, iter)
       /\ iter > 0 => \A s \in StepIds : Before(s, iter - 1)

\* The steps of a parallel group are given the same inputs, however many claims, refused
\* submissions and crashes lie between them: parallel_group_snapshot.
GroupSeesTheSameInputs ==
  \A v, w \in handed :
    (v.iter = w.iter /\ GroupOf[v.step] = GroupOf[w.step] /\ GroupOf[v.step] # NoGroup
       /\ ~past.crossed /\ ~past.cut) => v.inputs = w.inputs

\* A run has ended in its row exactly when it has in its stream, once and alike, although
\* a stop, a pass and an exhaustion may race (update_run).
RowEndsWithItsStream ==
  LET ends == {k \in DOMAIN log : log[k].type \in DOMAIN EndOf}
  IN IF RowTerminal THEN Cardinality(ends) = 1 /\ \A k \in ends : log[k].type = StatusEvent[row]
     ELSE ends = {}

\* Once the calls have returned, a GateKeeper's committed pass has ended the run, whatever
\* else ran and died beside its submission: as succeeded unless the user stopped it or a
\* claim that ran beside another call exhausted it first.  Only the submission itself can
\* drop its pass, by a death between the commit and the end of the run, by evidence the
\* store refuses or by a verdict it refuses (_finish_runner_gatekeeper_success).
PassEndsTheRun ==
  ((\E k \in DOMAIN log : log[k].passed) /\ Mode = "gatekeeper"
     /\ ~past.dropped /\ \A c \in Cli : cli[c].pc = "idle") =>
    row \in {"succeeded", "stopped"} \cup (IF past.crossed THEN {"failed"} ELSE {})

\* No write of state.json takes the run back to an earlier step or iteration
\* ("evidence/state writes must be single-accept", agent_native_state.py).
ResumePointNeverGoesBack ==
  [][\/ past.crossed \/ past.cut
     \/ file'.st.iter > file.st.iter
     \/ file'.st.iter = file.st.iter /\ file'.st.index >= file.st.index]_file

\* The claimed step can be submitted: next and submit agree on where the run is, so that a
\* refused host is helped by asking again ("rerun agent next --json if the run advanced",
\* service_agent_native_requests.py).
ClaimedStepIsSubmittable ==
  (RowActive /\ file.kind = "state" /\ file.st.active # NoView
     /\ (\A c \in Cli : cli[c].pc = "idle") /\ ~Stale(file.st.active)) =>
    Submittable(log, Snapshot(log), file.st.active.iter, file.st.active.step)

\* An iteration is started once in the stream (start_iteration).
IterationStartedOnce ==
  \A iter \in 0 .. MaxIters : Cardinality(Of("IterationStarted", NoStep, iter)) <= 1

\* Between calls no commit is without its evidence (submit_runner_step_result).
CommitHasItsEvidence ==
  (\A c \in Cli : cli[c].pc = "idle") =>
    \A k \in DOMAIN log : log[k].type = "StepCommitted" =>
      Of("EvidenceAccepted", log[k].step, log[k].iter) # {}

\* Between calls state.json can be read (write_agent_native_state).
StateIsReadable == (\A c \in Cli : cli[c].pc = "idle") => file.kind # "torn"

\* The run ends, whatever the host answers, whatever evidence and passes the store refuses,
\* as long as the host goes on asking and answering; or it comes to an exhaustion whose
\* verdict is refused (a blocked coverage in rounds mode), and then nothing may ever end it
\* but a stop, whose own verdict is not refused.
RunEnds == <>(RowTerminal \/ past.refused)
=============================================================================
