----------------------------- MODULE RunService -----------------------------
(***************************************************************************)
(* The processes that run headless Loops.  A process executes workers (one *)
(* thread per run, or the main thread of a spawned _execute-run process)   *)
(* and its clients (a CLI command, the request threads of the web server)  *)
(* each serve one start, stop or recovery request at a time.  They meet    *)
(* only in the tables of RunRecords; a process also keeps, in memory, the  *)
(* set of runs it is executing (_process_active_runs).                     *)
(*                                                                         *)
(* What the steps of an iteration do is abstracted to what finalization    *)
(* reads of it: whether the run's latest coverage has a blocked target,    *)
(* and whether its row carries a GateKeeper verdict.                       *)
(***************************************************************************)
EXTENDS RunRecords

CONSTANTS Clients,      \* request threads
          HostOf,       \* the process of each client
          MaxIters,     \* max_iters of every run, at least one
          Blocking,     \* whether a role may report a blocked coverage target
          Mortal        \* the processes that may die at any moment

ASSUME ServiceAssumption ==
  /\ HostOf \in [Clients -> Procs]
  /\ MaxIters \in Nat \ {0}
  /\ Blocking \in BOOLEAN
  /\ Mortal \subseteq Procs

VARIABLES proc,       \* operating-system processes
          active,     \* _process_active_runs of each process
          worker,     \* the worker of each run
          api,        \* the request each client is serving
          evidence    \* what finalization reads of a run's coverage and verdict

serviceVars == <<proc, active, worker, api, evidence>>
vars == <<site, row, lock, events, proc, active, worker, api, evidence>>

\* Why a run is being finalized.
WorkerPlans == {"close", "rounds", "exhausted", "abort", "stop"}
ApiPlans == {"stop_queued", "orphan", "stale"}
Plans == WorkerPlans \cup ApiPlans \cup {"none"}

Outcome == [close |-> "succeeded", rounds |-> "succeeded", exhausted |-> "failed",
            abort |-> "failed", stop |-> "stopped",
            stop_queued |-> "stopped", orphan |-> "failed", stale |-> "stopped"]

\* Plans whose finalization brings a GateKeeper verdict of its own.
Judged == {"close", "abort"}

\* Plans carried out in an except clause: a second exception leaves the worker.
InHandler == {"abort", "stop"}

WorkerPcs == {"none", "booting", "marked", "registered", "polling", "claiming", "claimed",
              "working", "stepping", "judging", "recording", "crashing",
              "leaving", "releasing", "ended", "dead"}
ApiPcs == {"idle", "created", "spawned", "stop_read", "stop_sent", "listed",
           "judging", "recording", "releasing"}

\* starting: its service reconciles stale runs; spawned: a worker process, which serves
\* no request.
ProcStates == {"new", "starting", "up", "spawned", "dead"}

Worker == [pc : WorkerPcs, proc : Procs \cup {None}, plan : Plans, iter : 0 .. MaxIters]
Api == [pc : ApiPcs, run : Runs \cup {None}, plan : Plans, pid : Procs \cup {None}]

NoWorker == [pc |-> "none", proc |-> None, plan |-> "none", iter |-> 0]
Idle == [pc |-> "idle", run |-> None, plan |-> "none", pid |-> None]

Init ==
  /\ RecordsInit
  /\ proc = [p \in Procs |-> "new"]
  /\ active = [p \in Procs |-> {}]
  /\ worker = [r \in Runs |-> NoWorker]
  /\ api = [c \in Clients |-> Idle]
  /\ evidence = [r \in Runs |-> "clean"]

Finished == {"none", "ended", "dead"}

ClientsOf(p) == {c \in Clients : HostOf[c] = p}
Serving(p) == \E c \in ClientsOf(p) : api[c].pc # "idle"

\* The worker executes steps in the run's directory.
Executing(r) == worker[r].pc \in {"claimed", "working", "stepping"}

-----------------------------------------------------------------------------
(* Workers *)

Goto(r, pc) == worker' = [worker EXCEPT ![r].pc = pc]
Finalize(r, plan) == worker' = [worker EXCEPT ![r].pc = "judging", ![r].plan = plan]

\* A spawned process has built its service; execute_run marks the run active.
Boot(r) ==
  LET p == worker[r].proc IN
  /\ worker[r].pc = "booting"
  /\ ~Serving(p)
  /\ proc' = [proc EXCEPT ![p] = "spawned"]
  /\ active' = [active EXCEPT ![p] = @ \cup {r}]
  /\ Goto(r, "marked")
  /\ UNCHANGED <<recordVars, api, evidence>>

RegisterWorker(r) ==
  /\ worker[r].pc = "marked"
  /\ SetRunnerPid(r, worker[r].proc)
  /\ Goto(r, "registered")
  /\ UNCHANGED <<proc, active, api, evidence>>

\* _wait_for_slot writes queued whatever the row says.
Enqueue(r) ==
  /\ worker[r].pc = "registered"
  /\ UpdateStatus(r, "queued")
  /\ Goto(r, "polling")
  /\ UNCHANGED <<proc, active, api, evidence>>

\* _ensure_not_stopped, before each attempt to claim and before each iteration.
PollStop(r) ==
  /\ worker[r].pc = "polling"
  /\ IF row[r].stop THEN Finalize(r, "stop") ELSE Goto(r, "claiming")
  /\ UNCHANGED <<recordVars, proc, active, api, evidence>>

Claim(r) ==
  /\ worker[r].pc = "claiming"
  /\ \/ ClaimGranted(r, worker[r].proc) /\ Goto(r, "claimed")
     \/ ClaimRefused(r) /\ Goto(r, IF row[r].status = "running" THEN "claimed" ELSE "polling")
     \/ ClaimSkipsStopped(r) /\ Goto(r, "polling")
  /\ UNCHANGED <<proc, active, api, evidence>>

\* The claim has already written running, so no RunStarted is owed here.
Begin(r) ==
  /\ worker[r].pc = "claimed"
  /\ IF UpdateCommits(r, "running")
     THEN UpdateStatus(r, "running") /\ Goto(r, "working")
     ELSE UNCHANGED recordVars /\ Goto(r, "crashing")
  /\ UNCHANGED <<proc, active, api, evidence>>

\* Fault: one iteration too many.
IterationsLeftOffByOne(r) == worker[r].iter =< MaxIters

IterationsLeft(r) == worker[r].iter < MaxIters

BeginIteration(r) ==
  /\ worker[r].pc = "working"
  /\ IterationsLeft(r)
  /\ IF row[r].stop THEN Finalize(r, "stop")
     ELSE worker' = [worker EXCEPT ![r].pc = "stepping", ![r].iter = @ + 1]
  /\ UNCHANGED <<recordVars, proc, active, api, evidence>>

\* A step may block or unblock the coverage, and the row keeps the last GateKeeper
\* verdict; where no target is ever blocked, that verdict makes no difference here.
EvidenceAfter(e) == IF ~Blocking THEN {"clean"}
                    ELSE IF e = "judged" THEN {"judged"} ELSE {"clean", "blocked", "judged"}

TakeStep(r) ==
  /\ worker[r].pc = "stepping"
  /\ \E e \in EvidenceAfter(evidence[r]) : evidence' = [evidence EXCEPT ![r] = e]
  /\ UNCHANGED <<recordVars, proc, active, worker, api>>

EndIteration(r) ==
  /\ worker[r].pc = "stepping"
  /\ Goto(r, "working")
  /\ UNCHANGED <<recordVars, proc, active, api, evidence>>

\* A GateKeeper pass, a role or workspace failure, or an executor that saw the stop.
LeaveIteration(r) ==
  /\ worker[r].pc = "stepping"
  /\ \E plan \in {"close", "abort"} \cup (IF row[r].stop THEN {"stop"} ELSE {}) : Finalize(r, plan)
  /\ UNCHANGED <<recordVars, proc, active, api, evidence>>

\* _handle_runner_exhaustion: rounds mode succeeds, gatekeeper mode fails.
Exhaust(r) ==
  /\ worker[r].pc = "working"
  /\ ~IterationsLeft(r)
  /\ \E plan \in {"rounds", "exhausted"} : Finalize(r, plan)
  /\ UNCHANGED <<recordVars, proc, active, api, evidence>>

\* Fault: an exception the runner does not expect goes past its crash boundary.
FailUnrecorded(r) ==
  /\ worker[r].pc = "stepping"
  /\ Goto(r, "leaving")
  /\ UNCHANGED <<recordVars, proc, active, api, evidence>>

\* Any other exception of the runner.
Fail(r) ==
  /\ worker[r].pc = "stepping"
  /\ Goto(r, "crashing")
  /\ UNCHANGED <<recordVars, proc, active, api, evidence>>

\* issue_verdict refuses a verdict that is not blocked over a blocked coverage.
VerdictAccepted(r, plan) == plan \in Judged \/ evidence[r] # "blocked"

\* An exception in finalization: caught in the body of the runner, not in its handlers.
Raise(r) == Goto(r, IF worker[r].plan \in InHandler THEN "leaving" ELSE "crashing")

JudgeRun(r) ==
  /\ worker[r].pc = "judging"
  /\ IF VerdictAccepted(r, worker[r].plan) THEN Goto(r, "recording") ELSE Raise(r)
  /\ UNCHANGED <<recordVars, proc, active, api, evidence>>

RecordOutcome(r) ==
  /\ worker[r].pc = "recording"
  /\ LET status == Outcome[worker[r].plan]
     IN IF UpdateCommits(r, status)
        THEN UpdateStatus(r, status) /\ Goto(r, "leaving")
        ELSE UNCHANGED recordVars /\ Raise(r)
  /\ UNCHANGED <<proc, active, api, evidence>>

\* _finalize_crashed_run: the status first, any exception swallowed.
RecordCrash(r) ==
  /\ worker[r].pc = "crashing"
  /\ IF UpdateCommits(r, "failed") THEN UpdateStatus(r, "failed") ELSE UNCHANGED recordVars
  /\ Goto(r, "leaving")
  /\ UNCHANGED <<proc, active, api, evidence>>

MarkInactive(r) ==
  /\ worker[r].pc = "leaving"
  /\ active' = [active EXCEPT ![worker[r].proc] = @ \ {r}]
  /\ Goto(r, "releasing")
  /\ UNCHANGED <<recordVars, proc, api, evidence>>

LeaveSlot(r) ==
  /\ worker[r].pc = "releasing"
  /\ ReleaseRunSlot(r)
  /\ Goto(r, "ended")
  /\ UNCHANGED <<proc, active, api, evidence>>

WorkerStep(r) ==
  \/ Boot(r) \/ RegisterWorker(r) \/ Enqueue(r) \/ PollStop(r) \/ Claim(r) \/ Begin(r)
  \/ BeginIteration(r) \/ TakeStep(r) \/ EndIteration(r) \/ LeaveIteration(r)
  \/ Exhaust(r) \/ Fail(r)
  \/ JudgeRun(r) \/ RecordOutcome(r) \/ RecordCrash(r) \/ MarkInactive(r) \/ LeaveSlot(r)

-----------------------------------------------------------------------------
(* Requests and recovery *)

Serve(c, pc, r) == api' = [api EXCEPT ![c] = [Idle EXCEPT !.pc = pc, !.run = r]]
Done(c) == api' = [api EXCEPT ![c] = Idle]
Continue(c, pc) == api' = [api EXCEPT ![c].pc = pc]

StartProcess(p) ==
  /\ proc[p] = "new"
  /\ proc' = [proc EXCEPT ![p] = "starting"]
  /\ UNCHANGED <<recordVars, active, worker, api, evidence>>

ServiceReady(p) ==
  /\ proc[p] = "starting"
  /\ ~Serving(p)
  /\ \A r \in Runs : worker[r].proc # p
  /\ proc' = [proc EXCEPT ![p] = "up"]
  /\ UNCHANGED <<recordVars, active, worker, api, evidence>>

Ready(c) == proc[HostOf[c]] = "up" /\ api[c].pc = "idle"

StartRun(c, r) ==
  /\ Ready(c)
  /\ CreateRun(r)
  /\ Serve(c, "created", r)
  /\ UNCHANGED <<proc, active, worker, evidence>>

\* start_run_async and execute_run mark the run active before its worker exists.
DispatchLocally(c) ==
  LET r == api[c].run  p == HostOf[c] IN
  /\ api[c].pc = "created"
  /\ active' = [active EXCEPT ![p] = @ \cup {r}]
  /\ worker' = [worker EXCEPT ![r] = [NoWorker EXCEPT !.pc = "marked", !.proc = p]]
  /\ Done(c)
  /\ UNCHANGED <<recordVars, proc, evidence>>

\* spawn_background_worker: a process of its own.
SpawnWorker(c, q) ==
  LET r == api[c].run IN
  /\ api[c].pc = "created"
  /\ proc[q] = "new"
  /\ proc' = [proc EXCEPT ![q] = "starting"]
  /\ worker' = [worker EXCEPT ![r] = [NoWorker EXCEPT !.pc = "booting", !.proc = q]]
  /\ api' = [api EXCEPT ![c].pc = "spawned", ![c].pid = q]
  /\ UNCHANGED <<recordVars, active, evidence>>

RegisterSpawned(c) ==
  /\ api[c].pc = "spawned"
  /\ SetRunnerPid(api[c].run, api[c].pid)
  /\ Done(c)
  /\ UNCHANGED <<proc, active, worker, evidence>>

\* The spawn fails: the run is failed at once, if its stream still takes the event.
SpawnFails(c) ==
  /\ api[c].pc = "created"
  /\ IF UpdateCommits(api[c].run, "failed")
     THEN UpdateStatus(api[c].run, "failed") ELSE UNCHANGED recordVars
  /\ Done(c)
  /\ UNCHANGED <<proc, active, worker, evidence>>

\* The caller never gets to dispatch the run it created.
LeaveQueued(c) ==
  /\ api[c].pc = "created"
  /\ Done(c)
  /\ UNCHANGED <<recordVars, proc, active, worker, evidence>>

StopRun(c, r) ==
  /\ Ready(c)
  /\ IsActive(r)
  /\ Serve(c, "stop_read", r)
  /\ UNCHANGED <<recordVars, proc, active, worker, evidence>>

\* request_stop returns the row it wrote; the signal sent for any row but a queued one
\* changes no status.
SendStop(c) ==
  LET r == api[c].run IN
  /\ api[c].pc = "stop_read"
  /\ RequestStop(r)
  /\ IF row[r].status = "queued" THEN Continue(c, "stop_sent") ELSE Done(c)
  /\ UNCHANGED <<proc, active, worker, evidence>>

\* Fault: any queued run is finalized here.
FinishesAnyQueued(c) == TRUE

\* A queued run that no thread of this process executes is finalized by the request.
FinishesHere(c) == api[c].run \notin active[HostOf[c]]

DecideStop(c) ==
  /\ api[c].pc = "stop_sent"
  /\ IF FinishesHere(c)
     THEN api' = [api EXCEPT ![c].pc = "judging", ![c].plan = "stop_queued"]
     ELSE Done(c)
  /\ UNCHANGED <<recordVars, proc, active, worker, evidence>>

\* Between its creation and the first write of its worker a row carries no pid.  The
\* grace of at least 30 seconds is taken to outlast that interval.
InFlight(r) ==
  \/ worker[r].pc \notin Finished
  \/ \E c \in Clients : api[c].run = r /\ api[c].pc \in {"created", "spawned"}

\* list_active_runs: recovery decides on the rows as they were read here.  A service
\* reconciles stale runs once, while it is built; every later request looks for orphans.
ListRuns(c, r) ==
  /\ api[c].pc = "idle"
  /\ \/ proc[HostOf[c]] = "up"
     \/ proc[HostOf[c]] = "starting" /\ ~Serving(HostOf[c])
  /\ IsActive(r)
  /\ row[r].pid # None \/ ~InFlight(r)
  /\ api' = [api EXCEPT ![c] = [Idle EXCEPT !.pc = "listed", !.run = r, !.pid = row[r].pid]]
  /\ UNCHANGED <<recordVars, proc, active, worker, evidence>>

ProcessAlive(q) == q # None /\ proc[q] \notin {"new", "dead"}

\* Fault: recovery does not ask which runs its own process executes.
OrphanedIgnoringThreads(p, r, pid) == pid \in {None, p}

\* _should_recover_local_orphan
Orphaned(p, r, pid) == r \notin active[p] /\ pid \in {None, p}

\* _reconcile_stale_runs
Stale(pid) == ~ProcessAlive(pid)

Recovery(p) == IF proc[p] = "starting" THEN "stale" ELSE "orphan"

Recoverable(c) ==
  LET p == HostOf[c] IN
  IF proc[p] = "starting" THEN Stale(api[c].pid) ELSE Orphaned(p, api[c].run, api[c].pid)

Recover(c) ==
  /\ api[c].pc = "listed"
  /\ IF Recoverable(c)
     THEN api' = [api EXCEPT ![c].pc = "judging", ![c].plan = Recovery(HostOf[c])]
     ELSE Done(c)
  /\ UNCHANGED <<recordVars, proc, active, worker, evidence>>

JudgeRequest(c) ==
  /\ api[c].pc = "judging"
  /\ IF VerdictAccepted(api[c].run, api[c].plan) THEN Continue(c, "recording") ELSE Done(c)
  /\ UNCHANGED <<recordVars, proc, active, worker, evidence>>

RecordRequest(c) ==
  /\ api[c].pc = "recording"
  /\ LET status == Outcome[api[c].plan]
     IN IF UpdateCommits(api[c].run, status)
        THEN UpdateStatus(api[c].run, status) /\ Continue(c, "releasing")
        ELSE UNCHANGED recordVars /\ Done(c)
  /\ UNCHANGED <<proc, active, worker, evidence>>

ReleaseRequest(c) ==
  /\ api[c].pc = "releasing"
  /\ ReleaseRunSlot(api[c].run)
  /\ Done(c)
  /\ UNCHANGED <<proc, active, worker, evidence>>

\* A process exits when it has nothing left to do; a mortal one dies at any moment.
ProcessEnds(p) ==
  /\ proc[p] \in {"starting", "up", "spawned"}
  /\ \/ p \in Mortal
     \/ active[p] = {} /\ ~Serving(p)
        /\ \A r \in Runs : worker[r].proc = p => worker[r].pc \in Finished
  /\ proc' = [proc EXCEPT ![p] = "dead"]
  /\ active' = [active EXCEPT ![p] = {}]
  /\ worker' = [r \in Runs |-> IF worker[r].proc = p /\ worker[r].pc \notin Finished
                               THEN [worker[r] EXCEPT !.pc = "dead"] ELSE worker[r]]
  /\ api' = [c \in Clients |-> IF HostOf[c] = p THEN Idle ELSE api[c]]
  /\ UNCHANGED <<recordVars, evidence>>

RequestContinues(c) ==
  \/ RegisterSpawned(c) \/ SendStop(c) \/ DecideStop(c) \/ Recover(c)
  \/ JudgeRequest(c) \/ RecordRequest(c) \/ ReleaseRequest(c)

RequestBegins(c) ==
  \/ DispatchLocally(c) \/ SpawnFails(c) \/ LeaveQueued(c)
  \/ \E q \in Procs : SpawnWorker(c, q)
  \/ \E r \in Runs : StartRun(c, r) \/ StopRun(c, r) \/ ListRuns(c, r)

ProcessStep(p) == StartProcess(p) \/ ServiceReady(p) \/ ProcessEnds(p)

Next ==
  /\ \/ \E r \in Runs : WorkerStep(r)
     \/ \E c \in Clients : RequestContinues(c) \/ RequestBegins(c)
     \/ \E p \in Procs : ProcessStep(p)
  /\ UNCHANGED site

Spec == Init /\ [][Next]_vars

\* A thread or request that can go on does; none is obliged to start.
Fairness ==
  /\ \A r \in Runs : WF_vars(WorkerStep(r) /\ UNCHANGED site)
  /\ \A c \in Clients : WF_vars(RequestContinues(c) /\ UNCHANGED site)

FairSpec == Spec /\ Fairness

-----------------------------------------------------------------------------
(* Properties *)

TypeOK ==
  /\ row \in [Runs -> Row]
  /\ lock \in [Workdirs -> Runs \cup {None}]
  /\ events \in [Runs -> SUBSET LifecycleEvents]
  /\ proc \in [Procs -> ProcStates]
  /\ active \in [Procs -> SUBSET Runs]
  /\ worker \in [Runs -> Worker]
  /\ api \in [Clients -> Api]
  /\ evidence \in [Runs -> {"clean", "blocked", "judged"}]

\* A worker that executes steps keeps its directory's lock and its running row: nobody
\* ends the run under it.
ExecutingHoldsSlot ==
  \A r \in Runs : Executing(r) => lock[WorkdirOf[r]] = r /\ row[r].status = "running"

\* An outcome of its own is final: no recovery that decided on an older row, and no
\* second finalizer, overwrites succeeded or failed.
OutcomeIsFinal ==
  [][\A r \in Runs : row[r].status \in {"succeeded", "failed"} =>
       row'[r].status = row[r].status]_vars

\* A run that is over stays over, whatever its worker has still to write.
TerminalRowIsFinal == [][\A r \in Runs : IsTerminal(r) => IsTerminal(r)']_vars

\* A directory has at most one queued or running row.
OneActiveRunPerWorkdir == \A w \in Workdirs : Cardinality(ActiveIn(w)) =< 1

\* A worker that is through leaves a terminal row: whatever it raised, the run does not
\* stay queued or running without a worker.
EndedWorkerLeavesTerminalRow == \A r \in Runs : worker[r].pc = "ended" => IsTerminal(r)

\* As long as no process dies, a locked directory has a worker that will release it.
LockHolderIsLive ==
  \A w \in Workdirs : lock[w] # None => worker[lock[w]].pc \notin {"none", "ended"}

\* A worker at work is on record: the stream of its run says the run started.
ExecutionIsRecorded ==
  \A r \in Runs : worker[r].pc \in {"working", "stepping"} => "RunStarted" \in events[r]

\* The stream of a run whose worker is through says how the run ended.
EndIsRecorded ==
  \A r \in Runs : worker[r].pc = "ended" => StreamTerminated(r)

BeforeWork == {"none", "booting", "marked", "registered", "polling", "claiming"}

\* Where each run is with its work, and the runs asked to stop.
Stage == [r \in Runs |-> IF worker[r].pc \in BeforeWork THEN "before"
                         ELSE IF Executing(r) THEN "at_work" ELSE "through"]
StopRequested == {r \in Runs : row[r].stop}

Slots == INSTANCE RunSlots WITH stage <- Stage, stopped <- StopRequested

\* The processes together keep what RunSlots promises: one run at work per directory, no
\* more than max_concurrent_runs at work, none that was asked to stop before its claim (also
\* when the request lands between the worker's own look at the row and the claim), none twice.
SlotsKept == Slots!Spec

\* Every worker gets through: a waiting one is served or stopped in the end, because
\* whoever holds the directory or the slot gives it back.
WorkersEnd == \A r \in Runs : worker[r].pc = "polling" ~> worker[r].pc = "ended"
=============================================================================
