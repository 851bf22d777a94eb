-------------------------- MODULE RunServiceProofs --------------------------
(***************************************************************************)
(* What the tables keep for any number of runs, directories, processes and *)
(* clients: a worker that executes steps holds its slot, outcomes are      *)
(* final, and the service implements RunSlots.                             *)
(*                                                                         *)
(* A run has one worker, made for it by the client that created its row.   *)
(* The others touch its row with a decision taken earlier: to stop it, or  *)
(* to recover it.  The invariant says what each decision knows about the   *)
(* worker, and that the worker can never get to work under it.             *)
(***************************************************************************)
EXTENDS RunService, FiniteSetTheorems, TLAPS

-----------------------------------------------------------------------------
(* The inductive invariant                                                 *)

TypeInv == site \in Sites /\ TypeOK

\* Between _process_active_runs being entered and left.
InProcess == {"marked", "registered", "polling", "claiming", "claimed", "working", "stepping",
              "judging", "recording", "crashing", "leaving"}

\* A worker is where its process is: it boots, alone in it, while the process starts, and a
\* process that has died took its workers along.
WorkersLive ==
  \A r \in Runs :
    /\ worker[r].pc = "none" <=> worker[r].proc = None
    /\ worker[r].pc # "none" => proc[worker[r].proc] # "new"
    /\ worker[r].pc = "booting" =>
         /\ proc[worker[r].proc] = "starting"
         /\ \A s \in Runs : worker[s].proc = worker[r].proc => s = r
    /\ worker[r].pc \in InProcess =>
         proc[worker[r].proc] \in {"up", "spawned"} /\ r \in active[worker[r].proc]
    /\ worker[r].pc = "releasing" => proc[worker[r].proc] \in {"up", "spawned"}
    /\ worker[r].pc \in {"judging", "recording"} => worker[r].plan \in WorkerPlans

\* A client that serves a request lives; only recovery is served while the process starts.
ClientsLive ==
  \A c \in Clients :
    /\ api[c].pc = "idle" <=> api[c].run = None
    /\ api[c].pc # "idle" => proc[HostOf[c]] \in {"starting", "up"}
    /\ api[c].pc \in {"created", "spawned", "stop_read", "stop_sent"} => proc[HostOf[c]] = "up"

\* What nobody has created has no worker, no pid, and nobody who speaks of it.
Absent ==
  \A r \in Runs : row[r].status = "absent" =>
    /\ worker[r].pc = "none" /\ row[r].pid = None
    /\ \A c \in Clients : api[c].run # r

\* A row names the process of the run's one worker, or none.
PidOfWorker ==
  /\ \A r \in Runs : row[r].pid # None => worker[r].proc = row[r].pid
  /\ \A c \in Clients : api[c].pc = "spawned" =>
       api[c].pid # None /\ worker[api[c].run].proc = api[c].pid

\* The client that created a run alone can give it a worker.
CreatedOnce ==
  \A c \in Clients : api[c].pc = "created" =>
    /\ worker[api[c].run].pc = "none"
    /\ \A d \in Clients : (api[d].pc = "created" /\ api[d].run = api[c].run) => d = c

\* The run's worker is past its steps, and there will be no other.
Settled(r) ==
  /\ worker[r].pc \in Finished \cup {"releasing"}
  /\ \A c \in Clients : ~(api[c].pc = "created" /\ api[c].run = r)

\* What a listed row tells: without a pid nobody was at work on it and nobody will be, with
\* one it names the process of the worker.
ListedRows ==
  \A c \in Clients : api[c].pc = "listed" =>
    IF api[c].pid = None THEN Settled(api[c].run)
    ELSE worker[api[c].run].pc # "none" /\ worker[api[c].run].proc = api[c].pid

\* A request that will end the run does so because of a stop requested before the claim, or
\* over a worker that is past its steps.
DecisionsAreSafe ==
  \A c \in Clients :
    /\ api[c].pc = "stop_sent" => row[api[c].run].stop /\ ~Executing(api[c].run)
    /\ api[c].pc \in {"judging", "recording", "releasing"} =>
         \/ /\ api[c].plan = "stop_queued"
            /\ row[api[c].run].stop /\ ~Executing(api[c].run)
         \/ api[c].plan \in {"orphan", "stale"} /\ Settled(api[c].run)

\* Nobody but the claim writes running.
NotRunningBefore == \A r \in Runs : worker[r].pc \in BeforeWork => row[r].status # "running"

\* An outcome has its event in the stream, and it comes after the worker's unconditional
\* write of queued.
OutcomesOnRecord ==
  /\ \A r \in Runs : row[r].status \in {"succeeded", "failed"} =>
       /\ StreamTerminated(r)
       /\ worker[r].pc \notin {"booting", "marked", "registered"}
  /\ \A c \in Clients : api[c].pc = "created" =>
       row[api[c].run].status \notin {"succeeded", "failed"}

ServiceInv ==
  /\ TypeInv /\ WorkersLive /\ ClientsLive /\ Absent /\ PidOfWorker /\ CreatedOnce
  /\ ListedRows /\ DecisionsAreSafe /\ NotRunningBefore /\ ExecutingHoldsSlot
  /\ OutcomesOnRecord

-----------------------------------------------------------------------------
(* What the operators of the tables and of the control states do           *)

\* Goto moves one worker and leaves it in its process.
LEMMA GotoMoves ==
  ASSUME TypeInv, NEW r \in Runs, NEW q \in WorkerPcs, Goto(r, q)
  PROVE  /\ worker' \in [Runs -> Worker]
         /\ worker'[r].pc = q /\ worker'[r].proc = worker[r].proc
         /\ \A s \in Runs : s # r => worker'[s] = worker[s]
BY DEF TypeInv, TypeOK, Goto, Worker

\* The event a status owes is a lifecycle event, and an outcome's is one of the last.
LEMMA OwedEvents ==
  ASSUME NEW r \in Runs, NEW s \in ActiveStatuses \cup TerminalStatuses
  PROVE  /\ EventOwed(r, s) \subseteq LifecycleEvents
         /\ row[r].status = s => EventOwed(r, s) = {}
         /\ (s \in TerminalStatuses /\ row[r].status # s) =>
              EventOwed(r, s) \cap TerminalEvents # {}
<1>1. StatusEvent[s] \subseteq LifecycleEvents
  BY DEF StatusEvent, LifecycleEvents, TerminalEvents, ActiveStatuses, TerminalStatuses
<1>2. s \in TerminalStatuses => StatusEvent[s] \cap TerminalEvents # {}
  BY DEF StatusEvent, TerminalEvents, TerminalStatuses
<1>3. QED
  BY <1>1, <1>2 DEF EventOwed

\* One row is written and the others are kept.
LEMMA RowWritten ==
  ASSUME TypeInv, NEW r \in Runs, NEW x \in Row, row' = [row EXCEPT ![r] = x]
  PROVE  row' \in [Runs -> Row]
BY DEF TypeInv, TypeOK

\* Writing one field of a row makes a row.
LEMMA RowFields ==
  ASSUME NEW x \in Row, NEW s \in Statuses, NEW p \in Procs \cup {None}
  PROVE  /\ [x EXCEPT !.status = s] \in Row
         /\ [x EXCEPT !.stop = TRUE] \in Row
         /\ [x EXCEPT !.pid = p] \in Row
BY DEF Row

\* update_run writes the status of one row and keeps the rest of it.
LEMMA StatusWritten ==
  ASSUME TypeInv, NEW r \in Runs, NEW s \in ActiveStatuses \cup TerminalStatuses,
         UpdateStatus(r, s)
  PROVE  /\ row' \in [Runs -> Row] /\ events' \in [Runs -> SUBSET LifecycleEvents]
         /\ row'[r].status = s /\ row'[r].stop = row[r].stop /\ row'[r].pid = row[r].pid
         /\ \A t \in Runs : t # r => row'[t] = row[t] /\ events'[t] = events[t]
         /\ events'[r] = events[r] \cup EventOwed(r, s)
         /\ lock' = lock
<1>1. s \in Statuses
  BY DEF Statuses
<1>2. EventOwed(r, s) \subseteq LifecycleEvents
  BY OwedEvents
<1>3. QED
  BY <1>1, <1>2 DEF TypeInv, TypeOK, UpdateStatus, Row

\* A committed outcome is in the stream.
LEMMA OutcomeRecorded ==
  ASSUME TypeInv, NEW r \in Runs, NEW s \in TerminalStatuses, UpdateStatus(r, s),
         row[r].status \in {"succeeded", "failed"} => StreamTerminated(r)
  PROVE  s \in {"succeeded", "failed"} => StreamTerminated(r)'
<1>1. events'[r] = events[r] \cup EventOwed(r, s)
  BY StatusWritten
<1>2. CASE row[r].status = s
  BY <1>1, <1>2 DEF StreamTerminated
<1>3. CASE row[r].status # s
  <2>1. EventOwed(r, s) \cap TerminalEvents # {}
    BY <1>3, OwedEvents
  <2>2. QED
    BY <1>1, <2>1 DEF StreamTerminated
<1>4. QED
  BY <1>2, <1>3

\* A request that is over leaves nothing behind.
LEMMA RequestDone ==
  ASSUME TypeInv, NEW c \in Clients, Done(c)
  PROVE  /\ api' \in [Clients -> Api]
         /\ api'[c] = Idle
         /\ \A d \in Clients : d # c => api'[d] = api[d]
BY DEF TypeInv, TypeOK, Done, Idle, Api, ApiPcs, Plans

\* A request that goes on keeps its run, its plan and its pid.
LEMMA RequestContinued ==
  ASSUME TypeInv, NEW c \in Clients, NEW q \in ApiPcs, Continue(c, q)
  PROVE  /\ api' \in [Clients -> Api]
         /\ api'[c].pc = q /\ api'[c].run = api[c].run
         /\ api'[c].plan = api[c].plan /\ api'[c].pid = api[c].pid
         /\ \A d \in Clients : d # c => api'[d] = api[d]
BY DEF TypeInv, TypeOK, Continue, Api

\* What a client that serves a request serves it for.
LEMMA RunOfRequest ==
  ASSUME TypeInv, ClientsLive, NEW c \in Clients, api[c].pc # "idle"
  PROVE  api[c].run \in Runs /\ row[api[c].run] \in Row
BY DEF TypeInv, TypeOK, ClientsLive, Api

-----------------------------------------------------------------------------
(* Steps of a worker                                                       *)

\* A worker that goes on in memory disturbs nobody, unless it begins to execute.
LEMMA WorkerGoesOn ==
  ASSUME ServiceInv, NEW r \in Runs, NEW w \in Worker,
         worker' = [worker EXCEPT ![r] = w], w.proc = worker[r].proc,
         worker[r].pc \in InProcess, w.pc \in InProcess \ {"marked", "registered"},
         w.pc \in BeforeWork => worker[r].pc \in BeforeWork,
         w.pc \in {"claimed", "working", "stepping"} => Executing(r),
         w.pc \in {"judging", "recording"} => w.plan \in WorkerPlans,
         UNCHANGED <<site, row, lock, events, proc, active, api>>,
         evidence' \in [Runs -> {"clean", "blocked", "judged"}]
  PROVE  ServiceInv'
<1> USE DEF ServiceInv, TypeInv, TypeOK, Row, Worker, Api
<1>1. TypeInv'
  OBVIOUS
<1>2. (WorkersLive /\ ClientsLive)'
  BY DEF WorkersLive, InProcess, ClientsLive
<1>3. (Absent /\ PidOfWorker /\ CreatedOnce)'
  BY DEF Absent, PidOfWorker, InProcess, CreatedOnce
<1>4. ListedRows'
  BY SMTT(60) DEF ListedRows, Settled, Finished, InProcess, Absent
<1>5. DecisionsAreSafe'
  BY DEF DecisionsAreSafe, Settled, Finished, Executing, InProcess
<1>6. (NotRunningBefore /\ ExecutingHoldsSlot)'
  BY DEF NotRunningBefore, ExecutingHoldsSlot, BeforeWork, Executing, WorkdirOf
<1>7. OutcomesOnRecord'
  BY DEF OutcomesOnRecord, StreamTerminated, InProcess, TerminalEvents
<1>8. QED
  BY <1>1, <1>2, <1>3, <1>4, <1>5, <1>6, <1>7

\* A spawned worker enters its process, which serves no request.
LEMMA BootKeeps ==
  ASSUME ServiceInv, NEW r \in Runs, Boot(r), UNCHANGED site
  PROVE  ServiceInv'
<1> USE DEF ServiceInv, TypeInv, TypeOK, Row, Worker, Api, Boot, Goto, recordVars
<1>1. worker' \in [Runs -> Worker]
  BY GotoMoves DEF WorkerPcs
<1>2. TypeInv'
  BY <1>1 DEF ProcStates
<1>3. (WorkersLive /\ ClientsLive)'
  BY DEF WorkersLive, InProcess, Serving, ClientsOf, ClientsLive
<1>4. (Absent /\ PidOfWorker /\ CreatedOnce)'
  BY DEF Absent, PidOfWorker, CreatedOnce
<1>5. ListedRows'
  BY DEF ListedRows, Settled, Finished
<1>6. DecisionsAreSafe'
  BY DEF DecisionsAreSafe, Settled, Finished, Executing
<1>7. (NotRunningBefore /\ ExecutingHoldsSlot /\ OutcomesOnRecord)'
  BY DEF NotRunningBefore, ExecutingHoldsSlot, BeforeWork, Executing, WorkdirOf,
     OutcomesOnRecord, StreamTerminated
<1>8. QED
  BY <1>2, <1>3, <1>4, <1>5, <1>6, <1>7

\* The worker's own pid is its process.
LEMMA RegisterWorkerKeeps ==
  ASSUME ServiceInv, NEW r \in Runs, RegisterWorker(r), UNCHANGED site
  PROVE  ServiceInv'
<1> USE DEF ServiceInv, TypeInv, TypeOK, Row, Worker, Api, RegisterWorker, Goto,
  SetRunnerPid
<1>1. worker' \in [Runs -> Worker]
  BY GotoMoves DEF WorkerPcs
<1>2. TypeInv'
  BY SMTT(60), <1>1
<1>3. (WorkersLive /\ ClientsLive)'
  BY DEF WorkersLive, InProcess, ClientsLive
<1>4. (Absent /\ PidOfWorker /\ CreatedOnce)'
  BY DEF Absent, PidOfWorker, WorkersLive, InProcess, CreatedOnce
<1>5. ListedRows'
  BY SMTT(60) DEF ListedRows, Settled, Finished
<1>6. DecisionsAreSafe'
  BY DEF DecisionsAreSafe, Settled, Finished, Executing
<1>7. (NotRunningBefore /\ ExecutingHoldsSlot /\ OutcomesOnRecord)'
  BY DEF NotRunningBefore, ExecutingHoldsSlot, BeforeWork, Executing, WorkdirOf,
     OutcomesOnRecord, StreamTerminated
<1>8. QED
  BY <1>2, <1>3, <1>4, <1>5, <1>6, <1>7

\* A worker that has not polled yet has no outcome to overwrite.
LEMMA EnqueueKeeps ==
  ASSUME ServiceInv, NEW r \in Runs, Enqueue(r), UNCHANGED site
  PROVE  ServiceInv'
<1> USE DEF ServiceInv, TypeInv, TypeOK, Row, Worker, Api, Enqueue, Goto, UpdateStatus
<1>1. worker' \in [Runs -> Worker]
  BY GotoMoves DEF WorkerPcs
<1>2. /\ row' \in [Runs -> Row] /\ lock' = lock
      /\ events' \in [Runs -> SUBSET LifecycleEvents]
  BY StatusWritten DEF ActiveStatuses, TerminalStatuses
<1>3. TypeInv'
  BY <1>1, <1>2
<1>4. (WorkersLive /\ ClientsLive)'
  BY DEF WorkersLive, InProcess, ClientsLive
<1>5. (Absent /\ PidOfWorker /\ CreatedOnce)'
  BY DEF Absent, PidOfWorker, CreatedOnce
<1>6. ListedRows'
  BY DEF ListedRows, Settled, Finished
<1>7. DecisionsAreSafe'
  BY DEF DecisionsAreSafe, Settled, Finished, Executing
<1>8. (NotRunningBefore /\ ExecutingHoldsSlot /\ OutcomesOnRecord)'
  BY DEF NotRunningBefore, ExecutingHoldsSlot, BeforeWork, Executing, WorkdirOf,
     OutcomesOnRecord, StreamTerminated, EventOwed, StatusEvent
<1>9. QED
  BY <1>3, <1>4, <1>5, <1>6, <1>7, <1>8

\* The claim gives the worker the row and the directory; no request that decided to end the run
\* is around, since it would have needed the stop flag or a settled worker.
LEMMA ClaimGrantedKeeps ==
  ASSUME ServiceInv, NEW r \in Runs, worker[r].pc = "claiming",
         ClaimGranted(r, worker[r].proc), Goto(r, "claimed"),
         UNCHANGED <<site, proc, active, api, evidence>>
  PROVE  ServiceInv'
<1> USE DEF ServiceInv, TypeInv, TypeOK, Row, Worker, Api, Goto
<1>1. worker' \in [Runs -> Worker]
  BY GotoMoves DEF WorkerPcs
<1>2. worker[r].proc \in Procs
  BY DEF WorkersLive
<1>3. /\ row' \in [Runs -> Row] /\ row'[r].status = "running"
      /\ row'[r].pid = worker[r].proc /\ row'[r].stop = row[r].stop
      /\ \A s \in Runs : s # r => row'[s] = row[s]
  <2>1. /\ row' = [row EXCEPT ![r].status = "running", ![r].pid = worker[r].proc]
        /\ row \in [Runs -> Row]
        /\ "running" \in Statuses /\ worker[r].proc \in Procs \cup {None}
    BY <1>2 DEF ClaimGranted, Statuses, ActiveStatuses
  <2> HIDE DEF ServiceInv, TypeInv
  <2>2. QED
    BY <2>1
<1>4. /\ lock' = [lock EXCEPT ![WorkdirOf[r]] = r] /\ events' = events
      /\ row[r].status = "queued" /\ ~row[r].stop /\ lock[WorkdirOf[r]] \in {None, r}
  BY DEF ClaimGranted, StoppedBeforeClaim, LockIsFree
<1>5. "running" \in Statuses
  BY DEF Statuses, ActiveStatuses
<1>6. TypeInv'
  BY <1>1, <1>2, <1>3, <1>4, <1>5
<1>7. (WorkersLive /\ ClientsLive)'
  BY <1>3, <1>4 DEF WorkersLive, InProcess, ClientsLive
<1>8. (Absent /\ PidOfWorker /\ CreatedOnce)'
  BY <1>3, <1>4 DEF Absent, PidOfWorker, WorkersLive, CreatedOnce
<1>9. ListedRows'
  BY SMTT(30) DEF ClientsLive, ListedRows, Settled, Finished
<1>10. DecisionsAreSafe'
  BY <1>3, <1>4, SMTT(30) DEF ClientsLive, DecisionsAreSafe, Settled, Finished, Executing
<1>11. (NotRunningBefore /\ ExecutingHoldsSlot)'
  BY <1>3, <1>4, RecordsAssumption DEF NotRunningBefore, ExecutingHoldsSlot, BeforeWork,
     Executing, WorkdirOf
<1>12. OutcomesOnRecord'
  <2>1. \A s \in Runs : row'[s].status \in {"succeeded", "failed"} =>
          row'[s] = row[s] /\ worker'[s] = worker[s]
    BY <1>3
  <2>2. \A c \in Clients : api[c].pc = "created" => api[c].run \in Runs
    BY DEF ClientsLive
  <2>3. QED
    BY <1>4, <2>1, <2>2 DEF OutcomesOnRecord, StreamTerminated
<1>13. QED
  BY <1>6, <1>7, <1>8, <1>9, <1>10, <1>11, <1>12

\* A claim that finds the stop request ends the run and clears its pid.
LEMMA ClaimSkipsStoppedKeeps ==
  ASSUME ServiceInv, NEW r \in Runs, worker[r].pc = "claiming",
         ClaimSkipsStopped(r), Goto(r, "polling"),
         UNCHANGED <<site, proc, active, api, evidence>>
  PROVE  ServiceInv'
<1> USE DEF ServiceInv, TypeInv, TypeOK, Row, Worker, Api, Goto
<1>1. worker' \in [Runs -> Worker]
  BY GotoMoves DEF WorkerPcs
<1>2. /\ row' \in [Runs -> Row] /\ row'[r].status = "stopped"
      /\ row'[r].pid = None /\ row'[r].stop = row[r].stop
      /\ \A s \in Runs : s # r => row'[s] = row[s]
  <2>1. "stopped" \in Statuses /\ None \in Procs \cup {None} /\ row \in [Runs -> Row]
    BY DEF Statuses, TerminalStatuses
  <2>2. row' = [row EXCEPT ![r].status = "stopped", ![r].pid = None]
    BY DEF ClaimSkipsStopped
  <2> HIDE DEF ServiceInv, TypeInv
  <2>3. QED
    BY <2>1, <2>2
<1>3. lock' = lock /\ events' = events /\ row[r].status = "queued"
  BY DEF ClaimSkipsStopped, StoppedBeforeClaim
<1>4. "stopped" \in Statuses
  BY DEF Statuses, TerminalStatuses
<1>5. TypeInv'
  BY <1>1, <1>2, <1>3, <1>4
<1>6. (WorkersLive /\ ClientsLive)'
  BY <1>2, <1>3 DEF WorkersLive, InProcess, ClientsLive
<1>7. (Absent /\ PidOfWorker /\ CreatedOnce)'
  BY <1>2, <1>3 DEF Absent, PidOfWorker, CreatedOnce
<1>8. ListedRows'
  BY SMTT(60) DEF ListedRows, Settled, Finished
<1>9. DecisionsAreSafe'
  BY <1>2, <1>3 DEF ClientsLive, DecisionsAreSafe, Settled, Finished, Executing
<1>10. (NotRunningBefore /\ ExecutingHoldsSlot)'
  BY <1>2, <1>3 DEF NotRunningBefore, ExecutingHoldsSlot, BeforeWork, Executing, WorkdirOf
<1>11. OutcomesOnRecord'
  BY <1>2, <1>3 DEF ClientsLive, OutcomesOnRecord, StreamTerminated
<1>12. QED
  BY <1>5, <1>6, <1>7, <1>8, <1>9, <1>10, <1>11

\* The outcome a worker writes is in the stream.
LEMMA OutcomeKeeps ==
  ASSUME ServiceInv, NEW r \in Runs, NEW s \in TerminalStatuses,
         UpdateStatus(r, s), Goto(r, "leaving"),
         worker[r].pc \in {"recording", "crashing"},
         UNCHANGED <<site, proc, active, api, evidence>>
  PROVE  ServiceInv'
<1> USE DEF ServiceInv, TypeInv, TypeOK, Row, Worker, Api, UpdateStatus, Goto
<1>1. worker' \in [Runs -> Worker]
  BY GotoMoves DEF WorkerPcs
<1>2. /\ row' \in [Runs -> Row] /\ lock' = lock
      /\ events' \in [Runs -> SUBSET LifecycleEvents]
  BY StatusWritten DEF ActiveStatuses, TerminalStatuses
<1>3. s \in {"succeeded", "failed"} => StreamTerminated(r)'
  BY OutcomeRecorded DEF OutcomesOnRecord
<1>4. TypeInv'
  BY <1>1, <1>2, <1>3
<1>5. (WorkersLive /\ ClientsLive)'
  BY DEF WorkersLive, InProcess, ClientsLive
<1>6. (Absent /\ PidOfWorker /\ CreatedOnce)'
  BY DEF Absent, PidOfWorker, TerminalStatuses, CreatedOnce
<1>7. ListedRows'
  BY SMTT(60) DEF ListedRows, Settled, Finished, Absent
<1>8. DecisionsAreSafe'
  BY DEF DecisionsAreSafe, Settled, Finished, Executing
<1>9. (NotRunningBefore /\ ExecutingHoldsSlot)'
  BY DEF NotRunningBefore, ExecutingHoldsSlot, BeforeWork, Executing, WorkdirOf,
     TerminalStatuses
<1>10. OutcomesOnRecord'
  BY <1>3 DEF OutcomesOnRecord, StreamTerminated, CreatedOnce
<1>11. QED
  BY <1>4, <1>5, <1>6, <1>7, <1>8, <1>9, <1>10

\* The worker leaves _process_active_runs when its steps are over.
LEMMA MarkInactiveKeeps ==
  ASSUME ServiceInv, NEW r \in Runs, MarkInactive(r), UNCHANGED site
  PROVE  ServiceInv'
<1> USE DEF ServiceInv, TypeInv, TypeOK, Row, Worker, Api, MarkInactive, Goto, recordVars
<1>1. worker' \in [Runs -> Worker]
  BY GotoMoves DEF WorkerPcs
<1>2. active' \in [Procs -> SUBSET Runs]
  OBVIOUS
<1>3. TypeInv'
  BY <1>1, <1>2
<1>4. (WorkersLive /\ ClientsLive)'
  BY DEF WorkersLive, InProcess, ClientsLive
<1>5. (Absent /\ PidOfWorker /\ CreatedOnce)'
  BY DEF Absent, PidOfWorker, CreatedOnce
<1>6. ListedRows'
  BY DEF ListedRows, Settled, Finished
<1>7. DecisionsAreSafe'
  BY DEF DecisionsAreSafe, Settled, Finished, Executing
<1>8. (NotRunningBefore /\ ExecutingHoldsSlot /\ OutcomesOnRecord)'
  BY DEF NotRunningBefore, ExecutingHoldsSlot, BeforeWork, Executing, WorkdirOf,
     OutcomesOnRecord, StreamTerminated
<1>9. QED
  BY <1>3, <1>4, <1>5, <1>6, <1>7, <1>8

\* The slot a worker gives back is its own.
LEMMA LeaveSlotKeeps ==
  ASSUME ServiceInv, NEW r \in Runs, LeaveSlot(r), UNCHANGED site
  PROVE  ServiceInv'
<1> USE DEF ServiceInv, TypeInv, TypeOK, Row, Worker, Api, LeaveSlot, ReleaseRunSlot, Goto
<1>1. worker' \in [Runs -> Worker]
  BY GotoMoves DEF WorkerPcs
<1>2. TypeInv'
  BY SMTT(60), <1>1
<1>3. (WorkersLive /\ ClientsLive)'
  BY DEF WorkersLive, InProcess, ClientsLive
<1>4. (Absent /\ PidOfWorker /\ CreatedOnce)'
  BY DEF Absent, PidOfWorker, WorkersLive, InProcess, CreatedOnce
<1>5. ListedRows'
  BY DEF ListedRows, Settled, Finished
<1>6. DecisionsAreSafe'
  BY DEF DecisionsAreSafe, Settled, Finished, Executing
<1>7. (NotRunningBefore /\ ExecutingHoldsSlot)'
  BY RecordsAssumption, SMTT(30) DEF NotRunningBefore, ExecutingHoldsSlot, BeforeWork,
     Executing, WorkdirOf
<1>8. OutcomesOnRecord'
  BY DEF OutcomesOnRecord, StreamTerminated
<1>9. QED
  BY <1>2, <1>3, <1>4, <1>5, <1>6, <1>7, <1>8

-----------------------------------------------------------------------------
(* Steps of a process                                                      *)

\* A process starts.
LEMMA StartProcessKeeps ==
  ASSUME ServiceInv, NEW p \in Procs, StartProcess(p), UNCHANGED site
  PROVE  ServiceInv'
<1> USE DEF ServiceInv, TypeInv, TypeOK, Row, Worker, Api, StartProcess, recordVars
<1>1. TypeInv'
  BY DEF ProcStates
<1>2. (WorkersLive /\ ClientsLive)'
  BY DEF WorkersLive, InProcess, ClientsLive
<1>3. (Absent /\ PidOfWorker /\ CreatedOnce)'
  BY DEF Absent, PidOfWorker, CreatedOnce
<1>4. ListedRows'
  BY DEF ListedRows, Settled, Finished
<1>5. DecisionsAreSafe'
  BY DEF DecisionsAreSafe, Settled, Finished, Executing
<1>6. (NotRunningBefore /\ ExecutingHoldsSlot /\ OutcomesOnRecord)'
  BY DEF NotRunningBefore, ExecutingHoldsSlot, BeforeWork, Executing, WorkdirOf,
     OutcomesOnRecord, StreamTerminated
<1>7. QED
  BY <1>1, <1>2, <1>3, <1>4, <1>5, <1>6

\* A service that has reconciled stale runs serves requests.
LEMMA ServiceReadyKeeps ==
  ASSUME ServiceInv, NEW p \in Procs, ServiceReady(p), UNCHANGED site
  PROVE  ServiceInv'
<1> USE DEF ServiceInv, TypeInv, TypeOK, Row, Worker, Api, ServiceReady, Serving,
  ClientsOf, recordVars
<1>1. TypeInv'
  BY DEF ProcStates
<1>2. (WorkersLive /\ ClientsLive)'
  BY DEF WorkersLive, InProcess, ClientsLive
<1>3. (Absent /\ PidOfWorker /\ CreatedOnce)'
  BY DEF Absent, PidOfWorker, CreatedOnce
<1>4. ListedRows'
  BY DEF ListedRows, Settled, Finished
<1>5. DecisionsAreSafe'
  BY DEF DecisionsAreSafe, Settled, Finished, Executing
<1>6. (NotRunningBefore /\ ExecutingHoldsSlot /\ OutcomesOnRecord)'
  BY DEF NotRunningBefore, ExecutingHoldsSlot, BeforeWork, Executing, WorkdirOf,
     OutcomesOnRecord, StreamTerminated
<1>7. QED
  BY <1>1, <1>2, <1>3, <1>4, <1>5, <1>6

\* A process that ends takes its workers and its requests along, and writes nothing.
LEMMA ProcessEndsKeeps ==
  ASSUME ServiceInv, NEW p \in Procs, ProcessEnds(p), UNCHANGED site
  PROVE  ServiceInv'
<1> USE DEF ServiceInv, TypeInv, TypeOK, Row, Worker, Api, Idle
<1>1. /\ worker' \in [Runs -> Worker]
      /\ \A r \in Runs : /\ worker'[r].proc = worker[r].proc
                         /\ worker'[r].pc = IF worker[r].proc = p /\ worker[r].pc \notin Finished
                                            THEN "dead" ELSE worker[r].pc
                         /\ worker'[r].plan = worker[r].plan
  <2>1. "dead" \in WorkerPcs
    BY DEF WorkerPcs
  <2>2. \A r \in Runs : worker'[r] \in Worker
    BY SMTT(60), <2>1 DEF ProcessEnds
  <2>3. QED
    BY <2>1, <2>2 DEF ProcessEnds
<1>2. /\ api' \in [Clients -> Api]
      /\ \A c \in Clients : api'[c] = IF HostOf[c] = p THEN Idle ELSE api[c]
  BY DEF ProcessEnds, ApiPcs, Plans
<1>3. /\ proc' = [proc EXCEPT ![p] = "dead"] /\ active' = [active EXCEPT ![p] = {}]
      /\ proc[p] # "new"
      /\ UNCHANGED <<row, lock, events, evidence>>
  BY DEF ProcessEnds, recordVars
<1>4. TypeInv'
  BY <1>1, <1>2, <1>3 DEF ProcStates
<1>5. WorkersLive'
  BY <1>1, <1>2, <1>3 DEF WorkersLive, InProcess, Finished
<1>6. ClientsLive'
  BY <1>1, <1>2, <1>3, RecordsAssumption DEF ClientsLive
<1>7. (Absent /\ PidOfWorker)'
  <2>1. Absent'
    BY <1>1, <1>2, <1>3, RecordsAssumption DEF Absent, Finished
  <2>2. PidOfWorker'
    BY <1>1, <1>2, <1>3, SMTT(30) DEF PidOfWorker, ClientsLive
  <2>3. QED
    BY <2>1, <2>2
<1>8. CreatedOnce'
  BY <1>1, <1>2, <1>3 DEF CreatedOnce, Finished, ClientsLive
<1>9. /\ \A d \in Clients : api'[d].pc # "idle" => api'[d] = api[d] /\ api[d].run \in Runs
      /\ \A r \in Runs : /\ worker'[r].pc = "none" <=> worker[r].pc = "none"
                         /\ Executing(r)' => Executing(r)
  <2>1. \A d \in Clients : api[d].pc # "idle" => api[d].run \in Runs
    BY DEF ClientsLive
  <2> HIDE DEF ServiceInv, TypeInv
  <2>2. QED
    BY <1>1, <1>2, <2>1 DEF Executing, Finished
<1>10. \A r \in Runs : Settled(r) => Settled(r)'
  BY <1>1, <1>9 DEF Settled, Finished
<1>11. ListedRows'
  <2> HIDE DEF ServiceInv, TypeInv, TypeOK, Row, Worker, Api
  <2>1. QED
    BY <1>1, <1>9, <1>10 DEF ListedRows, ServiceInv
<1>12. DecisionsAreSafe'
  <2> HIDE DEF ServiceInv, TypeInv, TypeOK, Row, Worker, Api
  <2>1. QED
    BY <1>1, <1>3, <1>9, <1>10 DEF DecisionsAreSafe, ServiceInv
<1>13. (NotRunningBefore /\ ExecutingHoldsSlot)'
  BY <1>1, <1>2, <1>3 DEF NotRunningBefore, ExecutingHoldsSlot, BeforeWork, Executing,
     WorkdirOf, Finished
<1>14. OutcomesOnRecord'
  <2>1. \A r \in Runs : worker'[r].pc \in {worker[r].pc, "dead"}
    BY <1>1
  <2>2. \A r \in Runs : row'[r].status \in {"succeeded", "failed"} =>
          StreamTerminated(r)' /\ worker'[r].pc \notin {"booting", "marked", "registered"}
    BY <1>3, <2>1 DEF OutcomesOnRecord, StreamTerminated
  <2>3. \A c \in Clients : api'[c].pc = "created" =>
          row'[api'[c].run].status \notin {"succeeded", "failed"}
    BY <1>2, <1>3 DEF OutcomesOnRecord
  <2>4. QED
    BY <2>2, <2>3 DEF OutcomesOnRecord
<1>15. QED
  BY <1>4, <1>5, <1>6, <1>7, <1>8, <1>11, <1>12, <1>13, <1>14

-----------------------------------------------------------------------------
(* Steps of a request                                                      *)

\* A run is created where nobody spoke of it.
LEMMA StartRunKeeps ==
  ASSUME ServiceInv, NEW c \in Clients, NEW r \in Runs, StartRun(c, r), UNCHANGED site
  PROVE  ServiceInv'
<1> USE DEF ServiceInv, TypeInv, TypeOK, Row, Worker, Api, StartRun, Ready, CreateRun,
  Serve, Idle
<1>1. api' \in [Clients -> Api]
  BY DEF ApiPcs, Plans
<1>2. "queued" \in Statuses /\ {"RunCreated"} \in SUBSET LifecycleEvents
  BY DEF Statuses, ActiveStatuses, LifecycleEvents
<1>3. row' \in [Runs -> Row]
  <2>1. [row[r] EXCEPT !.status = "queued"] \in Row
    <3> HIDE DEF ServiceInv, TypeInv, Row
    <3>1. row[r] \in Row
      BY DEF ServiceInv, TypeInv
    <3>2. QED
      BY <1>2, <3>1, RowFields
  <2>2. row' = [row EXCEPT ![r] = [row[r] EXCEPT !.status = "queued"]]
    OBVIOUS
  <2>3. QED
    BY <2>1, <2>2, RowWritten
<1>4. events' \in [Runs -> SUBSET LifecycleEvents]
  BY <1>2
<1>5. TypeInv'
  BY <1>1, <1>2, <1>3, <1>4
<1>6. (WorkersLive /\ ClientsLive)'
  BY RecordsAssumption DEF WorkersLive, InProcess, ClientsLive
<1>7. (Absent /\ PidOfWorker /\ CreatedOnce)'
  BY DEF Absent, PidOfWorker, CreatedOnce
<1>8. ListedRows'
  BY DEF ListedRows, Settled, Finished, Absent
<1>9. DecisionsAreSafe'
  BY SMTT(30) DEF DecisionsAreSafe, Settled, Finished, Executing, Absent
<1>10. (NotRunningBefore /\ ExecutingHoldsSlot /\ OutcomesOnRecord)'
  BY DEF NotRunningBefore, ExecutingHoldsSlot, BeforeWork, Executing, WorkdirOf, Absent,
     OutcomesOnRecord, StreamTerminated
<1>11. QED
  BY <1>5, <1>6, <1>7, <1>8, <1>9, <1>10

\* The client that created a run gives it its worker, as a thread.
LEMMA DispatchLocallyKeeps ==
  ASSUME ServiceInv, NEW c \in Clients, DispatchLocally(c), UNCHANGED site
  PROVE  ServiceInv'
<1> USE DEF ServiceInv, TypeInv, TypeOK, Row, Worker, Api, Done, Idle
<1>1. /\ api[c].run \in Runs /\ api[c].pc = "created"
      /\ worker[api[c].run].pc = "none" /\ worker[api[c].run].proc = None
  BY RunOfRequest DEF DispatchLocally, CreatedOnce, WorkersLive
<1>2. api' \in [Clients -> Api]
  BY RequestDone DEF DispatchLocally
<1>3. PICK w \in Worker :
         /\ worker' = [worker EXCEPT ![api[c].run] = w] /\ w.pc = "marked" /\ w.proc = HostOf[c]
  <2> DEFINE w == [NoWorker EXCEPT !.pc = "marked", !.proc = HostOf[c]]
  <2>1. w \in Worker
    <3> HIDE DEF ServiceInv, TypeInv
    <3>1. "marked" \in WorkerPcs /\ "none" \in Plans /\ 0 \in 0 .. MaxIters /\ HostOf[c] \in Procs
      BY ServiceAssumption DEF WorkerPcs, Plans
    <3>2. QED
      BY <3>1 DEF NoWorker
  <2>2. w.pc = "marked" /\ w.proc = HostOf[c]
    BY DEF NoWorker
  <2>3. QED
    BY <2>1, <2>2 DEF DispatchLocally
<1>4. /\ active' = [active EXCEPT ![HostOf[c]] = @ \cup {api[c].run}]
      /\ Done(c) /\ HostOf[c] \in Procs /\ HostOf[c] # None
      /\ UNCHANGED <<row, lock, events, proc, evidence>>
  BY RecordsAssumption, ServiceAssumption DEF DispatchLocally, recordVars
<1>5. worker' \in [Runs -> Worker]
  BY <1>1, <1>3, <1>4, ServiceAssumption DEF WorkerPcs, Plans
<1>6. active' \in [Procs -> SUBSET Runs]
  BY <1>1, <1>3, <1>4
<1>7. TypeInv'
  BY <1>1, <1>2, <1>3, <1>4, <1>5, <1>6
<1>8. WorkersLive'
  BY <1>1, <1>3, <1>4 DEF WorkersLive, InProcess, ClientsLive, CreatedOnce
<1>9. ClientsLive'
  BY <1>1, <1>3, <1>4 DEF ClientsLive
<1>10. (Absent /\ PidOfWorker)'
  <2>1. Absent'
    BY <1>1, <1>3, <1>4, RecordsAssumption DEF Absent
  <2>2. PidOfWorker'
    BY <1>1, <1>3, <1>4, RecordsAssumption DEF PidOfWorker, ClientsLive
  <2>3. QED
    BY <2>1, <2>2
<1>11. CreatedOnce'
  BY <1>1, <1>3, <1>4 DEF CreatedOnce
<1>12. ListedRows'
  BY <1>1, <1>3, <1>4 DEF ListedRows, Settled, Finished
<1>13. DecisionsAreSafe'
  BY <1>1, <1>3, <1>4 DEF DecisionsAreSafe, Settled, Finished, Executing
<1>14. (NotRunningBefore /\ ExecutingHoldsSlot)'
  BY <1>1, <1>3, <1>4 DEF NotRunningBefore, ExecutingHoldsSlot, BeforeWork, Executing,
     WorkdirOf
<1>15. OutcomesOnRecord'
  BY <1>1, <1>3, <1>4 DEF OutcomesOnRecord, StreamTerminated
<1>16. QED
  BY <1>7, <1>8, <1>9, <1>10, <1>11, <1>12, <1>13, <1>14, <1>15

\* The client that created a run gives it its worker, in a process of its own.
LEMMA SpawnWorkerKeeps ==
  ASSUME ServiceInv, NEW c \in Clients, NEW q \in Procs, SpawnWorker(c, q), UNCHANGED site
  PROVE  ServiceInv'
<1> USE DEF ServiceInv, TypeInv, TypeOK, Row, Worker, Api
<1>1. /\ api[c].run \in Runs /\ api[c].pc = "created"
      /\ worker[api[c].run].pc = "none" /\ worker[api[c].run].proc = None
  BY RunOfRequest DEF SpawnWorker, CreatedOnce, WorkersLive
<1>2. PICK w \in Worker :
         /\ worker' = [worker EXCEPT ![api[c].run] = w] /\ w.pc = "booting" /\ w.proc = q
  <2> DEFINE w == [NoWorker EXCEPT !.pc = "booting", !.proc = q]
  <2>1. w \in Worker
    <3> HIDE DEF ServiceInv, TypeInv
    <3>1. "booting" \in WorkerPcs /\ "none" \in Plans /\ 0 \in 0 .. MaxIters /\ q \in Procs
      BY ServiceAssumption DEF WorkerPcs, Plans
    <3>2. QED
      BY <3>1 DEF NoWorker
  <2>2. w.pc = "booting" /\ w.proc = q
    BY DEF NoWorker
  <2>3. QED
    BY <2>1, <2>2 DEF SpawnWorker
<1>3. /\ proc[q] = "new" /\ proc' = [proc EXCEPT ![q] = "starting"] /\ q # None
      /\ api' = [api EXCEPT ![c].pc = "spawned", ![c].pid = q]
      /\ UNCHANGED <<row, lock, events, active, evidence>>
  BY RecordsAssumption DEF SpawnWorker, recordVars
<1>4. /\ api'[c].pc = "spawned" /\ api'[c].run = api[c].run /\ api'[c].pid = q
      /\ \A d \in Clients : d # c => api'[d] = api[d]
  BY <1>3
<1>5. api' \in [Clients -> Api]
  <2>1. "spawned" \in ApiPcs /\ q \in Procs \cup {None} /\ api \in [Clients -> Api]
    BY DEF ApiPcs
  <2> HIDE DEF ServiceInv, TypeInv
  <2>2. QED
    BY <1>3, <2>1 DEF Api
<1>6. worker' \in [Runs -> Worker]
  BY <1>1, <1>2, <1>3, <1>4, ServiceAssumption DEF WorkerPcs, Plans
<1>7. proc' \in [Procs -> ProcStates]
  BY <1>2, <1>3, <1>4 DEF ProcStates
<1>8. TypeInv'
  BY <1>1, <1>2, <1>3, <1>4, <1>5, <1>6, <1>7
<1>9. WorkersLive'
  BY <1>1, <1>2, <1>3, <1>4 DEF WorkersLive, InProcess, ClientsLive, CreatedOnce
<1>10. ClientsLive'
  BY <1>1, <1>2, <1>3, <1>4 DEF ClientsLive
<1>11. (Absent /\ PidOfWorker)'
  <2>1. Absent'
    BY <1>1, <1>2, <1>3, <1>4, RecordsAssumption DEF Absent
  <2>2. PidOfWorker'
    BY <1>1, <1>2, <1>3, <1>4, RecordsAssumption DEF PidOfWorker, ClientsLive
  <2>3. QED
    BY <2>1, <2>2
<1>12. CreatedOnce'
  BY <1>1, <1>2, <1>3, <1>4 DEF CreatedOnce
<1>13. ListedRows'
  <2>1. /\ ListedRows /\ worker \in [Runs -> Worker]
        /\ \A d \in Clients : api[d].pc = "listed" => api[d].run \in Runs
    BY DEF ClientsLive
  <2>2. api[c].pc = "created"
    BY DEF SpawnWorker
  <2>3. \A s \in Runs : s # api[c].run => worker'[s] = worker[s]
    BY <1>2, <2>1
  <2>4. worker'[api[c].run].pc = "booting" /\ worker'[api[c].run].proc = q
    BY <1>1, <1>2, <2>1
  <2> HIDE DEF ServiceInv, TypeInv
  <2>5. \A d \in Clients : api[d].pc = "listed" => api[d].run # api[c].run
    BY <1>1, <2>1, <2>2 DEF ListedRows, Settled
  <2>6. \A d \in Clients : api'[d].pc = "listed" =>
          /\ api'[d] = api[d] /\ api[d].pc = "listed" /\ api[d].run \in Runs
          /\ worker'[api[d].run] = worker[api[d].run]
    BY <1>4, <2>1, <2>3, <2>5
  <2>7. \A e \in Clients : api'[e].pc = "created" => api'[e] = api[e]
    BY <1>4
  <2>8. QED
    BY <2>1, <2>6, <2>7 DEF ListedRows, Settled
<1>14. DecisionsAreSafe'
  BY <1>1, <1>2, <1>3, <1>4 DEF DecisionsAreSafe, Settled, Finished, Executing
<1>15. (NotRunningBefore /\ ExecutingHoldsSlot)'
  BY <1>1, <1>2, <1>3, <1>4 DEF NotRunningBefore, ExecutingHoldsSlot, BeforeWork,
     Executing, WorkdirOf
<1>16. OutcomesOnRecord'
  BY <1>1, <1>2, <1>3, <1>4 DEF OutcomesOnRecord, StreamTerminated
<1>17. QED
  BY <1>8, <1>9, <1>10, <1>11, <1>12, <1>13, <1>14, <1>15, <1>16

\* A request that ends disturbs nobody.
LEMMA DoneKeeps ==
  ASSUME ServiceInv, NEW c \in Clients, Done(c),
         UNCHANGED <<site, row, lock, events, proc, active, worker, evidence>>
  PROVE  ServiceInv'
<1> USE DEF ServiceInv, TypeInv, TypeOK, Row, Worker, Api, Done, Idle
<1>1. api' \in [Clients -> Api]
  BY RequestDone
<1>2. TypeInv'
  BY <1>1
<1>3. (WorkersLive /\ ClientsLive)'
  BY DEF WorkersLive, InProcess, ClientsLive
<1>4. (Absent /\ PidOfWorker /\ CreatedOnce)'
  BY RecordsAssumption DEF Absent, PidOfWorker, CreatedOnce
<1>5. ListedRows'
  BY DEF ListedRows, Settled, Finished
<1>6. DecisionsAreSafe'
  BY DEF DecisionsAreSafe, Settled, Finished, Executing
<1>7. (NotRunningBefore /\ ExecutingHoldsSlot /\ OutcomesOnRecord)'
  BY DEF NotRunningBefore, ExecutingHoldsSlot, BeforeWork, Executing, WorkdirOf,
     OutcomesOnRecord, StreamTerminated
<1>8. QED
  BY <1>2, <1>3, <1>4, <1>5, <1>6, <1>7

\* The pid written for a spawned worker is the one of its process.
LEMMA RegisterSpawnedKeeps ==
  ASSUME ServiceInv, NEW c \in Clients, RegisterSpawned(c), UNCHANGED site
  PROVE  ServiceInv'
<1> USE DEF ServiceInv, TypeInv, TypeOK, Row, Worker, Api, RegisterSpawned, SetRunnerPid,
  Done, Idle
<1>1. api[c].run \in Runs
  BY RunOfRequest
<1>2. api' \in [Clients -> Api]
  BY RequestDone
<1>3. row' \in [Runs -> Row]
  BY SMTT(60), <1>1
<1>4. TypeInv'
  BY <1>1, <1>2, <1>3
<1>5. (WorkersLive /\ ClientsLive)'
  BY SMTT(30) DEF WorkersLive, InProcess, ClientsLive
<1>6. (Absent /\ PidOfWorker /\ CreatedOnce)'
  BY RecordsAssumption, SMTT(30) DEF Absent, PidOfWorker, CreatedOnce
<1>7. ListedRows'
  BY DEF ListedRows, Settled, Finished
<1>8. DecisionsAreSafe'
  BY DEF DecisionsAreSafe, Settled, Finished, Executing
<1>9. (NotRunningBefore /\ ExecutingHoldsSlot /\ OutcomesOnRecord)'
  BY DEF NotRunningBefore, ExecutingHoldsSlot, BeforeWork, Executing, WorkdirOf,
     OutcomesOnRecord, StreamTerminated
<1>10. QED
  BY <1>4, <1>5, <1>6, <1>7, <1>8, <1>9

\* A run whose worker cannot be spawned is failed, with its event.
LEMMA SpawnFailsKeeps ==
  ASSUME ServiceInv, NEW c \in Clients, NEW r \in Runs, api[c].pc = "created", api[c].run = r,
         UpdateStatus(r, "failed"), Done(c),
         UNCHANGED <<site, proc, active, worker, evidence>>
  PROVE  ServiceInv'
<1> USE DEF ServiceInv, TypeInv, TypeOK, Row, Worker, Api, UpdateStatus, Done, Idle
<1>1. api' \in [Clients -> Api]
  BY RequestDone
<1>2. /\ row' \in [Runs -> Row] /\ lock' = lock
      /\ events' \in [Runs -> SUBSET LifecycleEvents]
  BY StatusWritten DEF TerminalStatuses
<1>3. StreamTerminated(r)'
  <2> HIDE DEF ServiceInv, TypeInv, UpdateStatus
  <2>1. row[r].status \notin {"succeeded", "failed"}
    BY DEF OutcomesOnRecord, ServiceInv
  <2>2. "failed" \in TerminalStatuses
    BY DEF TerminalStatuses
  <2>3. QED
    BY <2>1, <2>2, OutcomeRecorded DEF ServiceInv
<1>4. TypeInv'
  BY <1>1, <1>2, <1>3
<1>5. (WorkersLive /\ ClientsLive)'
  BY DEF WorkersLive, InProcess, ClientsLive
<1>6. (Absent /\ PidOfWorker /\ CreatedOnce)'
  BY RecordsAssumption DEF Absent, PidOfWorker, CreatedOnce
<1>7. ListedRows'
  BY SMTT(30) DEF ListedRows, Settled, Finished, Absent
<1>8. DecisionsAreSafe'
  BY SMTT(30) DEF DecisionsAreSafe, Settled, Finished, Executing
<1>9. (NotRunningBefore /\ ExecutingHoldsSlot)'
  BY DEF NotRunningBefore, ExecutingHoldsSlot, BeforeWork, Executing, WorkdirOf, CreatedOnce
<1>10. OutcomesOnRecord'
  BY <1>3 DEF OutcomesOnRecord, StreamTerminated, CreatedOnce
<1>11. QED
  BY <1>4, <1>5, <1>6, <1>7, <1>8, <1>9, <1>10

\* A stop begins by reading the row.
LEMMA StopRunKeeps ==
  ASSUME ServiceInv, NEW c \in Clients, NEW r \in Runs, StopRun(c, r), UNCHANGED site
  PROVE  ServiceInv'
<1> USE DEF ServiceInv, TypeInv, TypeOK, Row, Worker, Api, StopRun, Ready, IsActive,
  Serve, Idle, recordVars
<1>1. api' \in [Clients -> Api]
  BY DEF ApiPcs, Plans
<1>2. TypeInv'
  BY <1>1
<1>3. (WorkersLive /\ ClientsLive)'
  BY RecordsAssumption DEF WorkersLive, InProcess, ClientsLive
<1>4. (Absent /\ PidOfWorker /\ CreatedOnce)'
  BY DEF Absent, PidOfWorker, ActiveStatuses, CreatedOnce
<1>5. ListedRows'
  BY DEF ListedRows, Settled, Finished
<1>6. DecisionsAreSafe'
  BY DEF DecisionsAreSafe, Settled, Finished, Executing
<1>7. (NotRunningBefore /\ ExecutingHoldsSlot /\ OutcomesOnRecord)'
  BY DEF NotRunningBefore, ExecutingHoldsSlot, BeforeWork, Executing, WorkdirOf,
     OutcomesOnRecord, StreamTerminated
<1>8. QED
  BY <1>2, <1>3, <1>4, <1>5, <1>6, <1>7

\* A stop sent to a queued row finds no worker at its steps.
LEMMA SendStopKeeps ==
  ASSUME ServiceInv, NEW c \in Clients, api[c].pc = "stop_read",
         RequestStop(api[c].run), row[api[c].run].status = "queued",
         Continue(c, "stop_sent"), UNCHANGED <<site, proc, active, worker, evidence>>
  PROVE  ServiceInv'
<1> USE DEF ServiceInv, TypeInv, TypeOK, Row, Worker, Api, RequestStop, Continue
<1>1. api[c].run \in Runs
  BY RunOfRequest
<1>2. api' \in [Clients -> Api]
  BY RequestContinued DEF ApiPcs
<1>3. row' \in [Runs -> Row]
  <2>1. [row[api[c].run] EXCEPT !.stop = TRUE] \in Row
    <3> HIDE DEF ServiceInv, TypeInv, Row
    <3>1. row[api[c].run] \in Row
      BY <1>1 DEF ServiceInv, TypeInv
    <3>2. None \in Procs \cup {None} /\ "queued" \in Statuses
      BY DEF Statuses, ActiveStatuses
    <3>3. QED
      BY <3>1, <3>2, RowFields
  <2>2. row' = [row EXCEPT ![api[c].run] = [row[api[c].run] EXCEPT !.stop = TRUE]]
    OBVIOUS
  <2>3. QED
    BY <1>1, <2>1, <2>2, RowWritten
<1>4. ~Executing(api[c].run)
  BY <1>1 DEF ExecutingHoldsSlot
<1>5. TypeInv'
  BY <1>1, <1>2, <1>3, <1>4
<1>6. (WorkersLive /\ ClientsLive)'
  BY DEF WorkersLive, InProcess, ClientsLive
<1>7. (Absent /\ PidOfWorker /\ CreatedOnce)'
  BY DEF Absent, PidOfWorker, CreatedOnce
<1>8. ListedRows'
  BY DEF ListedRows, Settled, Finished
<1>9. DecisionsAreSafe'
  BY <1>1, <1>4 DEF DecisionsAreSafe, Settled, Finished, Executing
<1>10. (NotRunningBefore /\ ExecutingHoldsSlot /\ OutcomesOnRecord)'
  BY DEF NotRunningBefore, ExecutingHoldsSlot, BeforeWork, Executing, WorkdirOf,
     OutcomesOnRecord, StreamTerminated
<1>11. QED
  BY <1>5, <1>6, <1>7, <1>8, <1>9, <1>10

\* A stop sent to any other row decides nothing.
LEMMA SendStopDoneKeeps ==
  ASSUME ServiceInv, NEW c \in Clients, api[c].pc = "stop_read", RequestStop(api[c].run),
         Done(c), UNCHANGED <<site, proc, active, worker, evidence>>
  PROVE  ServiceInv'
<1> USE DEF ServiceInv, TypeInv, TypeOK, Row, Worker, Api, RequestStop, Done, Idle
<1>1. api[c].run \in Runs
  BY RunOfRequest
<1>2. api' \in [Clients -> Api]
  BY RequestDone
<1>3. row' \in [Runs -> Row]
  <2>1. [row[api[c].run] EXCEPT !.stop = TRUE] \in Row
    <3> HIDE DEF ServiceInv, TypeInv, Row
    <3>1. row[api[c].run] \in Row
      BY <1>1 DEF ServiceInv, TypeInv
    <3>2. None \in Procs \cup {None} /\ "queued" \in Statuses
      BY DEF Statuses, ActiveStatuses
    <3>3. QED
      BY <3>1, <3>2, RowFields
  <2>2. row' = [row EXCEPT ![api[c].run] = [row[api[c].run] EXCEPT !.stop = TRUE]]
    OBVIOUS
  <2>3. QED
    BY <1>1, <2>1, <2>2, RowWritten
<1>4. TypeInv'
  BY <1>1, <1>2, <1>3
<1>5. (WorkersLive /\ ClientsLive)'
  BY DEF WorkersLive, InProcess, ClientsLive
<1>6. (Absent /\ PidOfWorker /\ CreatedOnce)'
  BY RecordsAssumption DEF Absent, PidOfWorker, CreatedOnce
<1>7. ListedRows'
  BY DEF ListedRows, Settled, Finished
<1>8. DecisionsAreSafe'
  BY DEF DecisionsAreSafe, Settled, Finished, Executing
<1>9. (NotRunningBefore /\ ExecutingHoldsSlot /\ OutcomesOnRecord)'
  BY DEF NotRunningBefore, ExecutingHoldsSlot, BeforeWork, Executing, WorkdirOf,
     OutcomesOnRecord, StreamTerminated
<1>10. QED
  BY <1>4, <1>5, <1>6, <1>7, <1>8, <1>9

\* A request decides to end the run of a stop it sent, or of a worker that is settled.
LEMMA DecideKeeps ==
  ASSUME ServiceInv, NEW c \in Clients, NEW plan \in ApiPlans,
         api' = [api EXCEPT ![c].pc = "judging", ![c].plan = plan],
         \/ api[c].pc = "stop_sent" /\ plan = "stop_queued"
         \/ api[c].pc = "listed" /\ plan # "stop_queued" /\ Settled(api[c].run),
         UNCHANGED <<site, row, lock, events, proc, active, worker, evidence>>
  PROVE  ServiceInv'
<1> USE DEF ServiceInv, TypeInv, TypeOK, Row, Worker, Api
<1>1. /\ api' \in [Clients -> Api] /\ api'[c].pc = "judging" /\ api'[c].run = api[c].run
      /\ api'[c].plan = plan /\ api'[c].pid = api[c].pid
      /\ \A d \in Clients : d # c => api'[d] = api[d]
  BY DEF ApiPcs, Plans, ApiPlans
<1>2. api' \in [Clients -> Api]
  BY <1>1
<1>3. TypeInv'
  BY <1>1, <1>2
<1>4. (WorkersLive /\ ClientsLive)'
  BY <1>1 DEF WorkersLive, InProcess, ClientsLive
<1>5. (Absent /\ PidOfWorker /\ CreatedOnce)'
  BY <1>1 DEF Absent, PidOfWorker, CreatedOnce
<1>6. ListedRows'
  BY <1>1 DEF ListedRows, Settled, Finished
<1>7. DecisionsAreSafe'
  <2>1. /\ DecisionsAreSafe
        /\ api[c].pc = "stop_sent" => row[api[c].run].stop /\ ~Executing(api[c].run)
    BY DEF DecisionsAreSafe
  <2>2. plan = "stop_queued" \/ plan \in {"orphan", "stale"}
    BY DEF ApiPlans
  <2>3. \A d \in Clients : api[d].pc # "idle" => api[d].run \in Runs
    BY DEF ClientsLive
  <2> HIDE DEF ServiceInv, TypeInv
  <2>4. \A r \in Runs : Settled(r) => Settled(r)'
    BY <1>1 DEF Settled, Finished
  <2>5. api'[c].plan = "stop_queued" =>
          /\ row'[api'[c].run].stop
          /\ worker'[api'[c].run].pc \notin {"claimed", "working", "stepping"}
    BY <1>1, <2>1, <2>2 DEF Executing
  <2>6. api'[c].plan # "stop_queued" => Settled(api[c].run)'
    BY <1>1, <2>1, <2>2, <2>3, <2>4
  <2>7. \A d \in Clients : (d # c /\ api[d].pc # "idle") =>
          api'[d] = api[d] /\ (Settled(api[d].run) => Settled(api[d].run)')
    BY <1>1, <2>3, <2>4
  <2>8. QED
    BY <1>1, <2>1, <2>2, <2>5, <2>6, <2>7, Zenon DEF DecisionsAreSafe, Executing
<1>8. (NotRunningBefore /\ ExecutingHoldsSlot /\ OutcomesOnRecord)'
  BY <1>1 DEF NotRunningBefore, ExecutingHoldsSlot, BeforeWork, Executing, WorkdirOf,
     OutcomesOnRecord, StreamTerminated
<1>9. QED
  BY <1>3, <1>4, <1>5, <1>6, <1>7, <1>8

\* Recovery lists a row without a pid only when no worker is around, and a pid is its worker's.
LEMMA ListRunsKeeps ==
  ASSUME ServiceInv, NEW c \in Clients, NEW r \in Runs, ListRuns(c, r), UNCHANGED site
  PROVE  ServiceInv'
<1> USE DEF ServiceInv, TypeInv, TypeOK, Row, Worker, Api, ListRuns, Serving, ClientsOf,
  IsActive, InFlight, Idle, recordVars
<1>1. api' \in [Clients -> Api]
  BY DEF ApiPcs, Plans
<1>2. TypeInv'
  BY <1>1
<1>3. (WorkersLive /\ ClientsLive)'
  BY RecordsAssumption DEF WorkersLive, InProcess, ClientsLive
<1>4. (Absent /\ PidOfWorker /\ CreatedOnce)'
  BY DEF Absent, PidOfWorker, ActiveStatuses, CreatedOnce
<1>5. ListedRows'
  BY DEF ListedRows, Settled, Finished, PidOfWorker, WorkersLive
<1>6. DecisionsAreSafe'
  BY DEF DecisionsAreSafe, Settled, Finished, Executing
<1>7. (NotRunningBefore /\ ExecutingHoldsSlot /\ OutcomesOnRecord)'
  BY DEF NotRunningBefore, ExecutingHoldsSlot, BeforeWork, Executing, WorkdirOf,
     OutcomesOnRecord, StreamTerminated
<1>8. QED
  BY <1>2, <1>3, <1>4, <1>5, <1>6, <1>7

\* The verdict of a request changes nothing but the request.
LEMMA JudgeRequestKeeps ==
  ASSUME ServiceInv, NEW c \in Clients, api[c].pc = "judging", Continue(c, "recording"),
         UNCHANGED <<site, row, lock, events, proc, active, worker, evidence>>
  PROVE  ServiceInv'
<1> USE DEF ServiceInv, TypeInv, TypeOK, Row, Worker, Api, Continue
<1>1. api' \in [Clients -> Api]
  BY RequestContinued DEF ApiPcs
<1>2. TypeInv'
  BY <1>1
<1>3. (WorkersLive /\ ClientsLive)'
  BY DEF WorkersLive, InProcess, ClientsLive
<1>4. (Absent /\ PidOfWorker /\ CreatedOnce)'
  BY DEF Absent, PidOfWorker, CreatedOnce
<1>5. ListedRows'
  BY DEF ListedRows, Settled, Finished
<1>6. DecisionsAreSafe'
  BY DEF DecisionsAreSafe, Settled, Finished, Executing
<1>7. (NotRunningBefore /\ ExecutingHoldsSlot /\ OutcomesOnRecord)'
  BY DEF NotRunningBefore, ExecutingHoldsSlot, BeforeWork, Executing, WorkdirOf,
     OutcomesOnRecord, StreamTerminated
<1>8. QED
  BY <1>2, <1>3, <1>4, <1>5, <1>6, <1>7

\* The outcome a request writes is in the stream, and no worker is at its steps.
LEMMA RecordRequestKeeps ==
  ASSUME ServiceInv, NEW c \in Clients, NEW s \in TerminalStatuses,
         api[c].pc = "recording", s = Outcome[api[c].plan],
         UpdateStatus(api[c].run, s), Continue(c, "releasing"),
         UNCHANGED <<site, proc, active, worker, evidence>>
  PROVE  ServiceInv'
<1> USE DEF ServiceInv, TypeInv, TypeOK, Row, Worker, Api, UpdateStatus, Continue
<1>1. api[c].run \in Runs
  BY RunOfRequest
<1>2. api' \in [Clients -> Api]
  BY RequestContinued DEF ApiPcs
<1>3. /\ row' \in [Runs -> Row] /\ lock' = lock
      /\ events' \in [Runs -> SUBSET LifecycleEvents]
  BY <1>1, StatusWritten DEF TerminalStatuses
<1>4. ~Executing(api[c].run)
  BY <1>1 DEF DecisionsAreSafe, Settled, Finished, Executing
<1>5. s \in {"succeeded", "failed"} => Settled(api[c].run) /\ StreamTerminated(api[c].run)'
  <2>1. s \in {"succeeded", "failed"} => StreamTerminated(api[c].run)'
    <3> HIDE DEF ServiceInv, TypeInv, UpdateStatus
    <3>1. row[api[c].run].status \in {"succeeded", "failed"} => StreamTerminated(api[c].run)
      BY <1>1 DEF OutcomesOnRecord, ServiceInv
    <3>2. QED
      BY <1>1, <3>1, OutcomeRecorded DEF ServiceInv
  <2>2. s \in {"succeeded", "failed"} => Settled(api[c].run)
    BY <1>1 DEF DecisionsAreSafe, Outcome
  <2>3. QED
    BY <2>1, <2>2
<1>6. TypeInv'
  BY <1>1, <1>2, <1>3, <1>4, <1>5
<1>7. (WorkersLive /\ ClientsLive)'
  BY DEF WorkersLive, InProcess, ClientsLive
<1>8. (Absent /\ PidOfWorker /\ CreatedOnce)'
  BY DEF Absent, PidOfWorker, TerminalStatuses, CreatedOnce
<1>9. ListedRows'
  BY DEF ListedRows, Settled, Finished, Absent
<1>10. DecisionsAreSafe'
  BY DEF DecisionsAreSafe, Settled, Finished, Executing
<1>11. (NotRunningBefore /\ ExecutingHoldsSlot)'
  BY <1>1, <1>4 DEF NotRunningBefore, ExecutingHoldsSlot, BeforeWork, Executing, WorkdirOf,
     TerminalStatuses
<1>12. OutcomesOnRecord'
  BY <1>1, <1>5 DEF OutcomesOnRecord, StreamTerminated, Settled, Finished
<1>13. QED
  BY <1>6, <1>7, <1>8, <1>9, <1>10, <1>11, <1>12

\* The slot a request gives back is not one a worker executes in.
LEMMA ReleaseRequestKeeps ==
  ASSUME ServiceInv, NEW c \in Clients, ReleaseRequest(c), UNCHANGED site
  PROVE  ServiceInv'
<1> USE DEF ServiceInv, TypeInv, TypeOK, Row, Worker, Api, ReleaseRequest, ReleaseRunSlot,
  Done, Idle
<1>1. api[c].run \in Runs
  BY RunOfRequest
<1>2. api' \in [Clients -> Api]
  BY RequestDone
<1>3. ~Executing(api[c].run)
  BY <1>1 DEF DecisionsAreSafe, Settled, Finished, Executing
<1>4. TypeInv'
  BY SMTT(60), <1>1, <1>2, <1>3
<1>5. (WorkersLive /\ ClientsLive)'
  BY DEF WorkersLive, InProcess, ClientsLive
<1>6. (Absent /\ PidOfWorker /\ CreatedOnce)'
  BY RecordsAssumption DEF Absent, PidOfWorker, CreatedOnce
<1>7. ListedRows'
  BY DEF ListedRows, Settled, Finished
<1>8. DecisionsAreSafe'
  BY DEF DecisionsAreSafe, Settled, Finished, Executing
<1>9. (NotRunningBefore /\ ExecutingHoldsSlot)'
  BY RecordsAssumption, <1>1, <1>3 DEF NotRunningBefore, ExecutingHoldsSlot, BeforeWork,
     Executing, WorkdirOf
<1>10. OutcomesOnRecord'
  BY DEF OutcomesOnRecord, StreamTerminated
<1>11. QED
  BY <1>4, <1>5, <1>6, <1>7, <1>8, <1>9, <1>10

-----------------------------------------------------------------------------
(* Every step of the specification                                         *)

\* A worker that moves to another control state goes on.
LEMMA GotoKeeps ==
  ASSUME ServiceInv, NEW r \in Runs, NEW q \in InProcess \ {"marked", "registered"},
         Goto(r, q), worker[r].pc \in InProcess,
         q \in BeforeWork => worker[r].pc \in BeforeWork,
         q \in {"claimed", "working", "stepping"} => Executing(r),
         q \in {"judging", "recording"} => worker[r].plan \in WorkerPlans,
         UNCHANGED <<site, row, lock, events, proc, active, api, evidence>>
  PROVE  ServiceInv'
<1> DEFINE w == [worker[r] EXCEPT !.pc = q]
<1>1. worker[r] \in Worker /\ q \in WorkerPcs
  BY DEF ServiceInv, TypeInv, TypeOK, InProcess, WorkerPcs
<1>2. w \in Worker /\ w.pc = q /\ w.proc = worker[r].proc /\ w.plan = worker[r].plan
  BY <1>1 DEF Worker
<1>3. worker' = [worker EXCEPT ![r] = w]
  BY DEF Goto
<1>4. evidence' \in [Runs -> {"clean", "blocked", "judged"}]
  BY DEF ServiceInv, TypeInv, TypeOK
<1> HIDE DEF w
<1>5. QED
  BY <1>2, <1>3, <1>4, WorkerGoesOn

\* A worker that begins to finalize goes on.
LEMMA FinalizeKeeps ==
  ASSUME ServiceInv, NEW r \in Runs, NEW plan \in WorkerPlans,
         Finalize(r, plan), worker[r].pc \in InProcess,
         UNCHANGED <<site, row, lock, events, proc, active, api, evidence>>
  PROVE  ServiceInv'
<1> DEFINE w == [[worker[r] EXCEPT !.pc = "judging"] EXCEPT !.plan = plan]
<1>1. worker[r] \in Worker /\ "judging" \in WorkerPcs /\ plan \in Plans
  BY DEF ServiceInv, TypeInv, TypeOK, WorkerPcs, Plans
<1>2. w \in Worker /\ w.pc = "judging" /\ w.proc = worker[r].proc /\ w.plan = plan
  BY <1>1 DEF Worker
<1>3. worker' = [worker EXCEPT ![r] = w]
  BY DEF ServiceInv, TypeInv, TypeOK, Finalize
<1>4. evidence' \in [Runs -> {"clean", "blocked", "judged"}]
  BY DEF ServiceInv, TypeInv, TypeOK
<1>5. "judging" \in InProcess \ {"marked", "registered"} /\ "judging" \notin BeforeWork
  BY DEF InProcess, BeforeWork
<1> HIDE DEF w
<1>6. QED
  BY <1>2, <1>3, <1>4, <1>5, WorkerGoesOn

\* A queued worker that looks at its stop flag goes on.
LEMMA PollStopKeeps ==
  ASSUME ServiceInv, NEW r \in Runs, PollStop(r), UNCHANGED site
  PROVE  ServiceInv'
<1>1. CASE row[r].stop
  <2>1. Finalize(r, "stop") /\ "stop" \in WorkerPlans /\ worker[r].pc \in InProcess
    BY <1>1 DEF PollStop, WorkerPlans, InProcess
  <2>2. QED
    BY <2>1, FinalizeKeeps DEF PollStop, recordVars
<1>2. CASE ~row[r].stop
  <2>1. /\ Goto(r, "claiming") /\ "claiming" \in InProcess \ {"marked", "registered"}
        /\ worker[r].pc \in InProcess /\ worker[r].pc \in BeforeWork
    BY <1>2 DEF PollStop, InProcess, BeforeWork
  <2>2. QED
    BY <2>1, GotoKeeps DEF PollStop, recordVars
<1>3. QED
  BY <1>1, <1>2

\* The three answers of claim_run_slot; running it cannot answer, since the claim alone writes it.
LEMMA ClaimKeeps ==
  ASSUME ServiceInv, NEW r \in Runs, Claim(r), UNCHANGED site
  PROVE  ServiceInv'
<1>1. worker[r].pc = "claiming" /\ UNCHANGED <<proc, active, api, evidence>>
  BY DEF Claim
<1>2. CASE ClaimGranted(r, worker[r].proc) /\ Goto(r, "claimed")
  BY <1>1, <1>2, ClaimGrantedKeeps
<1>3. CASE ClaimSkipsStopped(r) /\ Goto(r, "polling")
  BY <1>1, <1>3, ClaimSkipsStoppedKeeps
<1>4. CASE /\ ClaimRefused(r)
             /\ Goto(r, IF row[r].status = "running" THEN "claimed" ELSE "polling")
  <2>1. row[r].status # "running" /\ worker[r].pc \in InProcess /\ worker[r].pc \in BeforeWork
    BY <1>1 DEF ServiceInv, NotRunningBefore, BeforeWork, InProcess
  <2>2. "polling" \in InProcess \ {"marked", "registered"}
    BY DEF InProcess
  <2>3. QED
    BY <1>1, <1>4, <2>1, <2>2, GotoKeeps DEF ClaimRefused, recordVars
<1>5. QED
  BY <1>2, <1>3, <1>4 DEF Claim

\* The claim has written running already, so the row keeps its status.
LEMMA BeginKeeps ==
  ASSUME ServiceInv, NEW r \in Runs, Begin(r), UNCHANGED site
  PROVE  ServiceInv'
<1>1. Executing(r) /\ worker[r].pc \in InProcess
  BY DEF Begin, Executing, InProcess
<1>2. row[r].status = "running"
  BY <1>1 DEF ServiceInv, ExecutingHoldsSlot
<1>3. UpdateCommits(r, "running")
  BY <1>2 DEF UpdateCommits, EventOwed
<1>4. UpdateStatus(r, "running") /\ Goto(r, "working")
  BY <1>3 DEF Begin
<1>5. row' = row
  <2>1. row \in [Runs -> Row]
    BY DEF ServiceInv, TypeInv, TypeOK
  <2>2. [row[r] EXCEPT !.status = "running"] = row[r]
    BY <1>2, <2>1 DEF Row
  <2>3. QED
    BY <1>4, <2>1, <2>2 DEF UpdateStatus
<1>6. events' = events
  BY <1>2, <1>4 DEF UpdateStatus, EventOwed, ServiceInv, TypeInv, TypeOK
<1>7. "working" \in InProcess \ {"marked", "registered"} /\ "working" \notin BeforeWork
  BY DEF InProcess, BeforeWork
<1>8. QED
  BY <1>1, <1>4, <1>5, <1>6, <1>7, GotoKeeps DEF Begin, UpdateStatus

\* An iteration begins within max_iters, or the stop is seen.
LEMMA BeginIterationKeeps ==
  ASSUME ServiceInv, NEW r \in Runs, BeginIteration(r), UNCHANGED site
  PROVE  ServiceInv'
<1>1. CASE row[r].stop
  <2>1. Finalize(r, "stop") /\ "stop" \in WorkerPlans /\ worker[r].pc \in InProcess
    BY <1>1 DEF BeginIteration, WorkerPlans, InProcess
  <2>2. QED
    BY <2>1, FinalizeKeeps DEF BeginIteration, recordVars
<1>2. CASE ~row[r].stop
  <2> DEFINE w == [[worker[r] EXCEPT !.pc = "stepping"] EXCEPT !.iter = worker[r].iter + 1]
  <2>1. worker[r] \in Worker /\ worker[r].iter + 1 \in 0 .. MaxIters /\ "stepping" \in WorkerPcs
    <3>1. worker[r] \in Worker /\ worker[r].iter < MaxIters /\ MaxIters \in Nat
      BY ServiceAssumption DEF ServiceInv, TypeInv, TypeOK, BeginIteration, IterationsLeft
    <3>2. QED
      BY <3>1 DEF Worker, WorkerPcs
  <2>2. w \in Worker /\ w.pc = "stepping" /\ w.proc = worker[r].proc
    BY <2>1 DEF Worker
  <2>3. worker' = [worker EXCEPT ![r] = w]
    <3>1. worker \in [Runs -> Worker]
      BY DEF ServiceInv, TypeInv, TypeOK
    <3>2. worker' = [worker EXCEPT ![r].pc = "stepping", ![r].iter = @ + 1]
      BY <1>2 DEF BeginIteration
    <3>3. [worker[r] EXCEPT !.pc = "stepping"].iter = worker[r].iter
      BY <3>1 DEF Worker
    <3>4. QED
      BY <3>1, <3>2, <3>3
  <2>4. /\ "stepping" \in InProcess \ {"marked", "registered"} /\ "stepping" \notin BeforeWork
        /\ Executing(r) /\ worker[r].pc \in InProcess
    BY DEF InProcess, BeforeWork, Executing, BeginIteration
  <2>5. evidence' \in [Runs -> {"clean", "blocked", "judged"}]
    BY DEF ServiceInv, TypeInv, TypeOK, BeginIteration
  <2> HIDE DEF w
  <2>6. QED
    BY <2>2, <2>3, <2>4, <2>5, WorkerGoesOn DEF BeginIteration, recordVars
<1>3. QED
  BY <1>1, <1>2

\* A step changes what finalization reads, and nothing else.
LEMMA TakeStepKeeps ==
  ASSUME ServiceInv, NEW r \in Runs, TakeStep(r), UNCHANGED site
  PROVE  ServiceInv'
<1>1. worker[r] \in Worker /\ worker' = [worker EXCEPT ![r] = worker[r]]
  BY DEF ServiceInv, TypeInv, TypeOK, TakeStep
<1>2. evidence' \in [Runs -> {"clean", "blocked", "judged"}]
  BY DEF ServiceInv, TypeInv, TypeOK, TakeStep, EvidenceAfter
<1>3. /\ worker[r].pc \in InProcess \ {"marked", "registered"} /\ worker[r].pc \notin BeforeWork
      /\ worker[r].pc \notin {"judging", "recording"} /\ Executing(r)
  BY DEF TakeStep, InProcess, BeforeWork, Executing
<1>4. QED
  BY <1>1, <1>2, <1>3, WorkerGoesOn DEF TakeStep, recordVars

\* The ways an iteration, or the loop, ends.
LEMMA LeaveStepKeeps ==
  ASSUME ServiceInv, NEW r \in Runs, UNCHANGED site,
         EndIteration(r) \/ LeaveIteration(r) \/ Exhaust(r) \/ Fail(r)
  PROVE  ServiceInv'
<1>1. Executing(r) /\ worker[r].pc \in InProcess
  BY DEF EndIteration, LeaveIteration, Exhaust, Fail, Executing, InProcess
<1>2. CASE EndIteration(r)
  <2>1. "working" \in InProcess \ {"marked", "registered"} /\ "working" \notin BeforeWork
    BY DEF InProcess, BeforeWork
  <2>2. QED
    BY <1>1, <1>2, <2>1, GotoKeeps DEF EndIteration, recordVars
<1>3. CASE LeaveIteration(r)
  <2>1. PICK plan \in WorkerPlans : Finalize(r, plan)
    BY <1>3 DEF LeaveIteration, WorkerPlans
  <2>2. QED
    BY <1>1, <1>3, <2>1, FinalizeKeeps DEF LeaveIteration, recordVars
<1>4. CASE Exhaust(r)
  <2>1. PICK plan \in WorkerPlans : Finalize(r, plan)
    BY <1>4 DEF Exhaust, WorkerPlans
  <2>2. QED
    BY <1>1, <1>4, <2>1, FinalizeKeeps DEF Exhaust, recordVars
<1>5. CASE Fail(r)
  <2>1. "crashing" \in InProcess \ {"marked", "registered"} /\ "crashing" \notin BeforeWork
    BY DEF InProcess, BeforeWork
  <2>2. QED
    BY <1>1, <1>5, <2>1, GotoKeeps DEF Fail, recordVars
<1>6. QED
  BY <1>2, <1>3, <1>4, <1>5

\* A refused finalization leaves the runner by its crash boundary, or at once.
LEMMA RaiseKeeps ==
  ASSUME ServiceInv, NEW r \in Runs, Raise(r), worker[r].pc \in {"judging", "recording"},
         UNCHANGED <<site, row, lock, events, proc, active, api, evidence>>
  PROVE  ServiceInv'
<1> DEFINE q == IF worker[r].plan \in InHandler THEN "leaving" ELSE "crashing"
<1>1. q \in InProcess \ {"marked", "registered"} /\ q \notin BeforeWork
  BY DEF InProcess, BeforeWork
<1>2. /\ q \notin {"claimed", "working", "stepping", "judging", "recording"}
      /\ worker[r].pc \in InProcess
  BY DEF InProcess
<1>3. Goto(r, q)
  BY DEF Raise
<1> HIDE DEF q
<1>4. QED
  BY <1>1, <1>2, <1>3, GotoKeeps

\* The verdict is accepted or refused.
LEMMA JudgeRunKeeps ==
  ASSUME ServiceInv, NEW r \in Runs, JudgeRun(r), UNCHANGED site
  PROVE  ServiceInv'
<1>1. worker[r].pc \in InProcess /\ worker[r].plan \in WorkerPlans
  BY DEF JudgeRun, InProcess, ServiceInv, WorkersLive
<1>2. CASE Goto(r, "recording")
  <2>1. "recording" \in InProcess \ {"marked", "registered"} /\ "recording" \notin BeforeWork
    BY DEF InProcess, BeforeWork
  <2>2. QED
    BY <1>1, <1>2, <2>1, GotoKeeps DEF JudgeRun, recordVars
<1>3. CASE Raise(r)
  BY <1>3, RaiseKeeps DEF JudgeRun, recordVars
<1>4. QED
  BY <1>2, <1>3 DEF JudgeRun

\* An outcome is committed with its event, or refused.
LEMMA RecordOutcomeKeeps ==
  ASSUME ServiceInv, NEW r \in Runs, RecordOutcome(r), UNCHANGED site
  PROVE  ServiceInv'
<1> DEFINE s == Outcome[worker[r].plan]
<1>1. s \in TerminalStatuses
  BY DEF RecordOutcome, ServiceInv, WorkersLive, WorkerPlans, Outcome, TerminalStatuses
<1>2. worker[r].pc = "recording" /\ UNCHANGED <<proc, active, api, evidence>>
  BY DEF RecordOutcome
<1>3. CASE UpdateStatus(r, s) /\ Goto(r, "leaving")
  <2> HIDE DEF s
  <2>1. QED
    BY <1>1, <1>2, <1>3, OutcomeKeeps
<1>4. CASE UNCHANGED recordVars /\ Raise(r)
  BY <1>2, <1>4, RaiseKeeps DEF recordVars
<1>5. QED
  BY <1>3, <1>4 DEF RecordOutcome

\* A crash is committed with its event, or swallowed.
LEMMA RecordCrashKeeps ==
  ASSUME ServiceInv, NEW r \in Runs, RecordCrash(r), UNCHANGED site
  PROVE  ServiceInv'
<1>1. /\ worker[r].pc = "crashing" /\ Goto(r, "leaving")
      /\ UNCHANGED <<proc, active, api, evidence>>
  BY DEF RecordCrash
<1>2. CASE UpdateStatus(r, "failed")
  <2>1. "failed" \in TerminalStatuses
    BY DEF TerminalStatuses
  <2>2. QED
    BY <1>1, <1>2, <2>1, OutcomeKeeps
<1>3. CASE UNCHANGED recordVars
  <2>1. /\ "leaving" \in InProcess \ {"marked", "registered"} /\ "leaving" \notin BeforeWork
        /\ worker[r].pc \in InProcess
    BY <1>1 DEF InProcess, BeforeWork
  <2>2. QED
    BY <1>1, <1>3, <2>1, GotoKeeps DEF recordVars
<1>4. QED
  BY <1>2, <1>3 DEF RecordCrash

\* Every step of a worker keeps the invariant.
LEMMA WorkerStepKeeps ==
  ASSUME ServiceInv, NEW r \in Runs, WorkerStep(r), UNCHANGED site
  PROVE  ServiceInv'
BY BootKeeps, RegisterWorkerKeeps, EnqueueKeeps, PollStopKeeps, ClaimKeeps, BeginKeeps,
   BeginIterationKeeps, TakeStepKeeps, LeaveStepKeeps, JudgeRunKeeps, RecordOutcomeKeeps,
   RecordCrashKeeps, MarkInactiveKeeps, LeaveSlotKeeps DEF WorkerStep

\* A stop request is sent.
LEMMA SendStopStepKeeps ==
  ASSUME ServiceInv, NEW c \in Clients, SendStop(c), UNCHANGED site
  PROVE  ServiceInv'
BY SendStopKeeps, SendStopDoneKeeps DEF SendStop

\* A request finishes the queued run it stopped, unless a thread of its process executes it.
LEMMA DecideStopKeeps ==
  ASSUME ServiceInv, NEW c \in Clients, DecideStop(c), UNCHANGED site
  PROVE  ServiceInv'
<1>1. "stop_queued" \in ApiPlans
  BY DEF ApiPlans
<1>2. CASE FinishesHere(c)
  BY <1>1, <1>2, DecideKeeps DEF DecideStop, recordVars
<1>3. CASE ~FinishesHere(c)
  BY <1>3, DoneKeeps DEF DecideStop, recordVars
<1>4. QED
  BY <1>2, <1>3

\* Whom recovery finds recoverable is settled: a row without a pid was when it was listed, a
\* run of the client's own process has left _process_active_runs, and a dead process took
\* its worker along.
LEMMA RecoverableIsSettled ==
  ASSUME ServiceInv, NEW c \in Clients, api[c].pc = "listed", Recoverable(c)
  PROVE  Settled(api[c].run)
<1> DEFINE r == api[c].run
           p == HostOf[c]
<1>1. r \in Runs /\ p \in Procs
  BY ServiceAssumption, RunOfRequest DEF ServiceInv
<1>2. CASE api[c].pid = None
  BY <1>2 DEF ServiceInv, ListedRows
<1>3. CASE api[c].pid # None
  <2>1. worker[r].pc # "none" /\ worker[r].proc = api[c].pid
    BY <1>3 DEF ServiceInv, ListedRows
  <2>2. \A d \in Clients : ~(api[d].pc = "created" /\ api[d].run = r)
    BY <2>1 DEF ServiceInv, CreatedOnce
  <2>3. worker[r].pc \notin InProcess \cup {"booting"}
    <3>1. CASE proc[p] = "starting"
      <4>1. proc[worker[r].proc] \in {"new", "dead"}
        BY <1>3, <2>1, <3>1 DEF Recoverable, Stale, ProcessAlive
      <4>2. QED
        BY <1>1, <4>1 DEF ServiceInv, WorkersLive
    <3>2. CASE proc[p] # "starting"
      <4>1. r \notin active[p] /\ worker[r].proc = p
        BY <1>3, <2>1, <3>2 DEF Recoverable, Orphaned
      <4>2. QED
        BY <1>1, <3>2, <4>1 DEF ServiceInv, WorkersLive
    <3>3. QED
      BY <3>1, <3>2
  <2>4. worker[r].pc \in WorkerPcs
    BY <1>1 DEF ServiceInv, TypeInv, TypeOK, Worker
  <2>5. QED
    BY <2>2, <2>3, <2>4 DEF Settled, Finished, InProcess, WorkerPcs
<1>4. QED
  BY <1>2, <1>3

\* Recovery decides over a settled worker, or leaves the run alone.
LEMMA RecoverKeeps ==
  ASSUME ServiceInv, NEW c \in Clients, Recover(c), UNCHANGED site
  PROVE  ServiceInv'
<1> DEFINE plan == Recovery(HostOf[c])
<1>1. plan \in ApiPlans /\ plan # "stop_queued"
  BY DEF Recovery, ApiPlans
<1>2. CASE Recoverable(c)
  <2>1. Settled(api[c].run) /\ api[c].pc = "listed"
    BY <1>2, RecoverableIsSettled DEF Recover
  <2>2. api' = [api EXCEPT ![c].pc = "judging", ![c].plan = plan]
    BY <1>2 DEF Recover
  <2>3. PICK a \in ApiPlans : a = plan
    BY <1>1
  <2> HIDE DEF plan
  <2>4. QED
    BY <1>1, <2>1, <2>2, <2>3, DecideKeeps DEF Recover, recordVars
<1>3. CASE ~Recoverable(c)
  BY <1>3, DoneKeeps DEF Recover, recordVars
<1>4. QED
  BY <1>2, <1>3

\* The verdict of a request is accepted or refused.
LEMMA JudgeRequestStepKeeps ==
  ASSUME ServiceInv, NEW c \in Clients, JudgeRequest(c), UNCHANGED site
  PROVE  ServiceInv'
BY JudgeRequestKeeps, DoneKeeps DEF JudgeRequest, recordVars

\* The outcome of a request is committed with its event, or refused.
LEMMA RecordRequestStepKeeps ==
  ASSUME ServiceInv, NEW c \in Clients, RecordRequest(c), UNCHANGED site
  PROVE  ServiceInv'
<1>1. PICK s \in TerminalStatuses : s = Outcome[api[c].plan]
  BY DEF RecordRequest, ServiceInv, DecisionsAreSafe, Outcome, TerminalStatuses
<1>2. api[c].pc = "recording" /\ UNCHANGED <<proc, active, worker, evidence>>
  BY DEF RecordRequest
<1>3. CASE UpdateStatus(api[c].run, s) /\ Continue(c, "releasing")
  BY <1>1, <1>2, <1>3, RecordRequestKeeps
<1>4. CASE UNCHANGED recordVars /\ Done(c)
  BY <1>2, <1>4, DoneKeeps DEF recordVars
<1>5. QED
  BY <1>1, <1>3, <1>4 DEF RecordRequest

\* The failure of a spawn is committed with its event, or rolled back.
LEMMA SpawnFailsStepKeeps ==
  ASSUME ServiceInv, NEW c \in Clients, SpawnFails(c), UNCHANGED site
  PROVE  ServiceInv'
<1>1. api[c].pc = "created" /\ Done(c) /\ UNCHANGED <<proc, active, worker, evidence>>
  BY DEF SpawnFails
<1>2. PICK r \in Runs : r = api[c].run
  BY <1>1, RunOfRequest DEF ServiceInv
<1>3. CASE UpdateStatus(r, "failed")
  BY <1>1, <1>2, <1>3, SpawnFailsKeeps
<1>4. CASE UNCHANGED recordVars
  BY <1>1, <1>4, DoneKeeps DEF recordVars
<1>5. QED
  BY <1>2, <1>3, <1>4 DEF SpawnFails

\* Every step of a request keeps the invariant.
LEMMA RequestStepKeeps ==
  ASSUME ServiceInv, NEW c \in Clients, RequestContinues(c) \/ RequestBegins(c), UNCHANGED site
  PROVE  ServiceInv'
<1>1. CASE RequestContinues(c)
  BY <1>1, RegisterSpawnedKeeps, SendStopStepKeeps, DecideStopKeeps, RecoverKeeps,
     JudgeRequestStepKeeps, RecordRequestStepKeeps, ReleaseRequestKeeps DEF RequestContinues
<1>2. CASE RequestBegins(c)
  <2>1. CASE LeaveQueued(c)
    BY <2>1, DoneKeeps DEF LeaveQueued, recordVars
  <2>2. QED
    BY <1>2, <2>1, DispatchLocallyKeeps, SpawnFailsStepKeeps, SpawnWorkerKeeps, StartRunKeeps,
       StopRunKeeps, ListRunsKeeps DEF RequestBegins
<1>3. QED
  BY <1>1, <1>2

\* The invariant holds before anything is created.
LEMMA InitService == Init => ServiceInv
<1> SUFFICES ASSUME Init PROVE ServiceInv
  OBVIOUS
<1> USE DEF Init, RecordsInit
<1>1. TypeInv
  BY ServiceAssumption DEF TypeInv, TypeOK, NoRow, Row, Statuses, NoWorker, Worker, WorkerPcs,
     Plans, Idle, Api, ApiPcs, ProcStates
<1>2. WorkersLive /\ ClientsLive /\ NotRunningBefore /\ ExecutingHoldsSlot /\ OutcomesOnRecord
  BY DEF WorkersLive, ClientsLive, NotRunningBefore, ExecutingHoldsSlot, OutcomesOnRecord,
     NoRow, NoWorker, Idle, InProcess, Executing
<1>3. Absent /\ PidOfWorker /\ CreatedOnce /\ ListedRows /\ DecisionsAreSafe
  BY RecordsAssumption DEF Absent, PidOfWorker, CreatedOnce, ListedRows, DecisionsAreSafe,
     NoRow, NoWorker, Idle
<1>4. QED
  BY <1>1, <1>2, <1>3 DEF ServiceInv

\* Every step keeps the invariant.
LEMMA NextService == ServiceInv /\ [Next]_vars => ServiceInv'
<1> SUFFICES ASSUME ServiceInv, [Next]_vars PROVE ServiceInv'
  OBVIOUS
<1>1. CASE Next
  BY <1>1, WorkerStepKeeps, RequestStepKeeps, StartProcessKeeps, ServiceReadyKeeps,
     ProcessEndsKeeps DEF Next, ProcessStep
<1>2. CASE UNCHANGED vars
  <2>1. UNCHANGED <<site, row, lock, events, proc, active, worker, api, evidence>>
    BY <1>2 DEF vars
  <2>2. (TypeInv /\ WorkersLive /\ ClientsLive /\ Absent /\ PidOfWorker /\ CreatedOnce)'
    BY <2>1 DEF ServiceInv, TypeInv, TypeOK, WorkersLive, ClientsLive, Absent, PidOfWorker,
       CreatedOnce
  <2>3. (ListedRows /\ DecisionsAreSafe /\ NotRunningBefore /\ ExecutingHoldsSlot
         /\ OutcomesOnRecord)'
    BY <2>1 DEF ServiceInv, ListedRows, Settled, DecisionsAreSafe, Executing, NotRunningBefore,
       ExecutingHoldsSlot, WorkdirOf, OutcomesOnRecord, StreamTerminated
  <2>4. QED
    BY <2>2, <2>3 DEF ServiceInv
<1>3. QED
  BY <1>1, <1>2

\* The tables, the processes, the workers and the requests stay what the code declares.
THEOREM ServiceTypes == Spec => []TypeOK
<1>1. ServiceInv => TypeOK
  BY DEF ServiceInv, TypeInv
<1>2. QED
  BY InitService, NextService, <1>1, PTL DEF Spec

\* A worker that executes steps keeps its directory's lock and its running row: no stop, no
\* recovery and no other worker ends the run under it.
THEOREM SlotHeldWhileExecuting == Spec => []ExecutingHoldsSlot
<1>1. ServiceInv => ExecutingHoldsSlot
  BY DEF ServiceInv
<1>2. QED
  BY InitService, NextService, <1>1, PTL DEF Spec

-----------------------------------------------------------------------------
(* What a step does to the outcomes and to the slots                       *)

\* No stop is asked for, nobody is let in, and what is over is over.
RowsQuiet ==
  \A t \in Runs :
    /\ row'[t].stop = row[t].stop
    /\ row'[t].status = "running" => row[t].status = "running"
    /\ row[t].status \in {"succeeded", "failed"} => row'[t].status = row[t].status

\* Workers may get through, but none gets to work.
StagesQuiet == \A t \in Runs : Stage'[t] \in {Stage[t], "through"}

\* Where no worker moves, no run changes its stage.
LEMMA WorkersRest ==
  ASSUME worker' = worker PROVE StagesQuiet
BY DEF StagesQuiet, Stage, Executing

\* A worker that moves gets to work only if it was.
LEMMA WorkerMoves ==
  ASSUME TypeInv, NEW r \in Runs, NEW q \in WorkerPcs, Goto(r, q),
         q \in BeforeWork => worker[r].pc \in BeforeWork,
         q \in {"claimed", "working", "stepping"} => Executing(r)
  PROVE  StagesQuiet
<1>1. worker'[r].pc = q /\ \A s \in Runs : s # r => worker'[s] = worker[s]
  BY GotoMoves
<1>2. Executing(r) => worker[r].pc \notin BeforeWork
  BY DEF Executing, BeforeWork
<1>3. q \in {"claimed", "working", "stepping"} => q \notin BeforeWork
  BY DEF BeforeWork
<1>4. QED
  BY <1>1, <1>2, <1>3 DEF StagesQuiet, Stage, Executing

\* A worker that finalizes is through.
LEMMA WorkerFinalizes ==
  ASSUME TypeInv, NEW r \in Runs, NEW plan, Finalize(r, plan)
  PROVE  StagesQuiet
<1>1. worker'[r].pc = "judging" /\ \A s \in Runs : s # r => worker'[s] = worker[s]
  BY DEF TypeInv, TypeOK, Finalize, Worker
<1>2. QED
  BY <1>1 DEF StagesQuiet, Stage, Executing, BeforeWork

\* Where no row is written, no row changes.
LEMMA RowsRest ==
  ASSUME row' = row PROVE RowsQuiet
BY DEF RowsQuiet

\* Writing a pid changes neither status nor stop flag.
LEMMA PidWritten ==
  ASSUME TypeInv, NEW r \in Runs, NEW p, row' = [row EXCEPT ![r].pid = p]
  PROVE  RowsQuiet
BY DEF TypeInv, TypeOK, Row, RowsQuiet

\* A terminated stream takes no other outcome, and the row has the outcome of its stream.
LEMMA OutcomeWritten ==
  ASSUME ServiceInv, NEW r \in Runs, NEW s \in TerminalStatuses,
         UpdateCommits(r, s), UpdateStatus(r, s)
  PROVE  RowsQuiet
<1>1. /\ row'[r].status = s /\ row'[r].stop = row[r].stop
      /\ \A t \in Runs : t # r => row'[t] = row[t]
  BY StatusWritten DEF ServiceInv
<1>2. s # "running"
  BY DEF TerminalStatuses
<1>3. row[r].status \in {"succeeded", "failed"} => row[r].status = s
  <2> SUFFICES ASSUME row[r].status \in {"succeeded", "failed"}, row[r].status # s PROVE FALSE
    OBVIOUS
  <2>1. StreamTerminated(r)
    BY DEF ServiceInv, OutcomesOnRecord
  <2>2. EventOwed(r, s) # {}
    BY OwedEvents
  <2>3. QED
    BY <2>1, <2>2 DEF UpdateCommits
<1>4. QED
  BY <1>1, <1>2, <1>3 DEF RowsQuiet

\* Of a worker's steps only a granted claim lets a run in.
LEMMA WorkerStepIsQuiet ==
  ASSUME ServiceInv, NEW r \in Runs, WorkerStep(r)
  PROVE  \/ RowsQuiet /\ StagesQuiet
         \/ worker[r].pc = "claiming" /\ ClaimGranted(r, worker[r].proc) /\ Goto(r, "claimed")
<1> USE DEF ServiceInv
<1>1. CASE Boot(r)
  <2>1. "marked" \in WorkerPcs /\ worker[r].pc \in BeforeWork
    BY <1>1 DEF Boot, WorkerPcs, BeforeWork
  <2>2. QED
    BY <1>1, <2>1, WorkerMoves, RowsRest DEF Boot, recordVars
<1>2. CASE RegisterWorker(r)
  <2>1. "registered" \in WorkerPcs /\ worker[r].pc \in BeforeWork
    BY <1>2 DEF RegisterWorker, WorkerPcs, BeforeWork
  <2>2. StagesQuiet
    BY <1>2, <2>1, WorkerMoves DEF RegisterWorker
  <2>3. RowsQuiet
    BY <1>2, PidWritten DEF RegisterWorker, SetRunnerPid
  <2>4. QED
    BY <2>2, <2>3
<1>3. CASE Enqueue(r)
  <2>1. "polling" \in WorkerPcs /\ worker[r].pc \in BeforeWork
    BY <1>3 DEF Enqueue, WorkerPcs, BeforeWork
  <2>2. StagesQuiet
    BY <1>3, <2>1, WorkerMoves DEF Enqueue
  <2>3. /\ row'[r].status = "queued" /\ row'[r].stop = row[r].stop
        /\ \A t \in Runs : t # r => row'[t] = row[t]
    BY <1>3, StatusWritten DEF Enqueue, ActiveStatuses
  <2>4. row[r].status \notin {"succeeded", "failed"}
    BY <1>3 DEF Enqueue, OutcomesOnRecord
  <2>5. QED
    BY <2>2, <2>3, <2>4 DEF RowsQuiet
<1>4. CASE PollStop(r)
  <2>1. RowsQuiet
    BY <1>4, RowsRest DEF PollStop, recordVars
  <2>2. "claiming" \in WorkerPcs /\ worker[r].pc \in BeforeWork
    BY <1>4 DEF PollStop, WorkerPcs, BeforeWork
  <2>3. StagesQuiet
    BY <1>4, <2>2, WorkerMoves, WorkerFinalizes DEF PollStop
  <2>4. QED
    BY <2>1, <2>3
<1>5. CASE Claim(r)
  <2>1. "polling" \in WorkerPcs /\ worker[r].pc = "claiming" /\ worker[r].pc \in BeforeWork
    BY <1>5 DEF Claim, WorkerPcs, BeforeWork
  <2>2. row[r].status # "running"
    BY <2>1 DEF NotRunningBefore
  <2>3. CASE /\ ClaimRefused(r)
             /\ Goto(r, IF row[r].status = "running" THEN "claimed" ELSE "polling")
    <3>1. StagesQuiet
      BY <2>1, <2>2, <2>3, WorkerMoves
    <3>2. QED
      BY <2>3, <3>1, RowsRest DEF ClaimRefused, recordVars
  <2>4. CASE ClaimSkipsStopped(r) /\ Goto(r, "polling")
    <3>1. StagesQuiet
      BY <2>1, <2>4, WorkerMoves
    <3>2. /\ row'[r].status = "stopped" /\ row'[r].stop = row[r].stop
          /\ \A t \in Runs : t # r => row'[t] = row[t]
      BY <2>4 DEF ClaimSkipsStopped, TypeInv, TypeOK, Row
    <3>3. row[r].status = "queued"
      BY <2>4 DEF ClaimSkipsStopped, StoppedBeforeClaim
    <3>4. QED
      BY <3>1, <3>2, <3>3 DEF RowsQuiet
  <2>5. QED
    BY <1>5, <2>1, <2>3, <2>4 DEF Claim
<1>6. CASE Begin(r)
  <2>1. /\ Executing(r) /\ {"working", "crashing"} \subseteq WorkerPcs
        /\ "crashing" \notin BeforeWork /\ "working" \notin BeforeWork
    BY <1>6 DEF Begin, Executing, WorkerPcs, BeforeWork
  <2>2. StagesQuiet
    BY <1>6, <2>1, WorkerMoves DEF Begin
  <2>3. row[r].status = "running"
    BY <2>1 DEF ExecutingHoldsSlot
  <2>4. CASE UpdateStatus(r, "running")
    <3>1. /\ row'[r].status = "running" /\ row'[r].stop = row[r].stop
          /\ \A t \in Runs : t # r => row'[t] = row[t]
      BY <2>4, StatusWritten DEF ActiveStatuses
    <3>2. QED
      BY <2>2, <2>3, <3>1 DEF RowsQuiet
  <2>5. CASE UNCHANGED recordVars
    BY <2>2, <2>5, RowsRest DEF recordVars
  <2>6. QED
    BY <1>6, <2>4, <2>5 DEF Begin
<1>7. CASE BeginIteration(r)
  <2>1. RowsQuiet
    BY <1>7, RowsRest DEF BeginIteration, recordVars
  <2>2. CASE row[r].stop
    BY <1>7, <2>1, <2>2, WorkerFinalizes DEF BeginIteration
  <2>3. CASE ~row[r].stop
    <3>1. worker'[r].pc = "stepping" /\ \A s \in Runs : s # r => worker'[s] = worker[s]
      BY <1>7, <2>3 DEF BeginIteration, TypeInv, TypeOK, Worker
    <3>2. worker[r].pc = "working"
      BY <1>7 DEF BeginIteration
    <3>3. QED
      BY <2>1, <3>1, <3>2 DEF StagesQuiet, Stage, Executing, BeforeWork
  <2>4. QED
    BY <2>2, <2>3
<1>8. CASE TakeStep(r)
  BY <1>8, RowsRest, WorkersRest DEF TakeStep, recordVars
<1>9. CASE EndIteration(r) \/ Fail(r)
  <2>1. /\ Executing(r) /\ {"working", "crashing"} \subseteq WorkerPcs
        /\ "crashing" \notin BeforeWork /\ "working" \notin BeforeWork
    BY <1>9 DEF EndIteration, Fail, Executing, WorkerPcs, BeforeWork
  <2>2. QED
    BY <1>9, <2>1, WorkerMoves, RowsRest DEF EndIteration, Fail, recordVars
<1>10. CASE LeaveIteration(r) \/ Exhaust(r)
  BY <1>10, WorkerFinalizes, RowsRest DEF LeaveIteration, Exhaust, recordVars
<1>11. \A q \in {"recording", "crashing", "leaving", "releasing", "ended"} :
         Goto(r, q) => StagesQuiet
  <2>1. TAKE q \in {"recording", "crashing", "leaving", "releasing", "ended"}
  <2>2. q \in WorkerPcs /\ q \notin BeforeWork /\ q \notin {"claimed", "working", "stepping"}
    BY DEF WorkerPcs, BeforeWork
  <2>3. QED
    BY <2>2, WorkerMoves
<1>12. CASE JudgeRun(r)
  BY <1>11, <1>12, RowsRest DEF JudgeRun, Raise, recordVars
<1>13. CASE RecordOutcome(r)
  <2> DEFINE s == Outcome[worker[r].plan]
  <2>1. s \in TerminalStatuses
    BY <1>13 DEF RecordOutcome, WorkersLive, WorkerPlans, Outcome, TerminalStatuses
  <2>2. StagesQuiet
    BY <1>11, <1>13 DEF RecordOutcome, Raise
  <2>3. RowsQuiet
    <3>1. (UpdateCommits(r, s) /\ UpdateStatus(r, s)) \/ UNCHANGED row
      BY <1>13 DEF RecordOutcome, recordVars
    <3> HIDE DEF s
    <3>2. QED
      BY <2>1, <3>1, OutcomeWritten, RowsRest
  <2>4. QED
    BY <2>2, <2>3
<1>14. CASE RecordCrash(r)
  <2>1. "failed" \in TerminalStatuses
    BY DEF TerminalStatuses
  <2>2. StagesQuiet
    BY <1>11, <1>14 DEF RecordCrash
  <2>3. QED
    BY <1>14, <2>1, <2>2, OutcomeWritten, RowsRest DEF RecordCrash, recordVars
<1>15. CASE MarkInactive(r)
  BY <1>11, <1>15, RowsRest DEF MarkInactive, recordVars
<1>16. CASE LeaveSlot(r)
  BY <1>11, <1>16, PidWritten DEF LeaveSlot, ReleaseRunSlot
<1>17. QED
  BY <1>1, <1>2, <1>3, <1>4, <1>5, <1>6, <1>7, <1>8, <1>9, <1>10, <1>12, <1>13, <1>14, <1>15,
     <1>16 DEF WorkerStep

\* Of a request's steps only a stop request touches the slots.
LEMMA RequestStepIsQuiet ==
  ASSUME ServiceInv, NEW c \in Clients, RequestContinues(c) \/ RequestBegins(c)
  PROVE  \/ RowsQuiet /\ StagesQuiet
         \/ \E r \in Runs : RequestStop(r) /\ worker' = worker
<1> USE DEF ServiceInv
<1>1. api[c].pc # "idle" => api[c].run \in Runs
  BY RunOfRequest
<1>2. CASE SendStop(c)
  BY <1>1, <1>2 DEF SendStop
<1>3. CASE RegisterSpawned(c) \/ ReleaseRequest(c)
  <2>1. api[c].run \in Runs /\ worker' = worker
    BY <1>1, <1>3 DEF RegisterSpawned, ReleaseRequest
  <2>2. PICK r \in Runs : r = api[c].run
    BY <2>1
  <2>3. PICK p : row' = [row EXCEPT ![r].pid = p]
    BY <1>3, <2>2 DEF RegisterSpawned, SetRunnerPid, ReleaseRequest, ReleaseRunSlot
  <2>4. QED
    BY <2>1, <2>3, PidWritten, WorkersRest
<1>4. CASE RecordRequest(c)
  <2>1. PICK r \in Runs : r = api[c].run
    BY <1>1, <1>4 DEF RecordRequest
  <2>2. PICK s \in TerminalStatuses : s = Outcome[api[c].plan]
    BY <1>4 DEF RecordRequest, DecisionsAreSafe, Outcome, TerminalStatuses
  <2>3. (UpdateCommits(r, s) /\ UpdateStatus(r, s)) \/ UNCHANGED row
    BY <1>4, <2>1, <2>2 DEF RecordRequest, recordVars
  <2>4. QED
    BY <1>4, <2>3, OutcomeWritten, RowsRest, WorkersRest DEF RecordRequest
<1>5. CASE SpawnFails(c)
  <2>1. PICK r \in Runs : r = api[c].run
    BY <1>1, <1>5 DEF SpawnFails
  <2>2. "failed" \in TerminalStatuses
    BY DEF TerminalStatuses
  <2>3. (UpdateCommits(r, "failed") /\ UpdateStatus(r, "failed")) \/ UNCHANGED row
    BY <1>5, <2>1 DEF SpawnFails, recordVars
  <2>4. QED
    BY <1>5, <2>2, <2>3, OutcomeWritten, RowsRest, WorkersRest DEF SpawnFails
<1>6. CASE DecideStop(c) \/ Recover(c) \/ JudgeRequest(c) \/ LeaveQueued(c)
           \/ \E r \in Runs : StopRun(c, r) \/ ListRuns(c, r)
  BY <1>6, RowsRest, WorkersRest DEF DecideStop, Recover, JudgeRequest, LeaveQueued, StopRun,
     ListRuns, recordVars
<1>7. CASE DispatchLocally(c) \/ \E q \in Procs : SpawnWorker(c, q)
  <2>1. RowsQuiet
    BY <1>7, RowsRest DEF DispatchLocally, SpawnWorker, recordVars
  <2>2. PICK r \in Runs : r = api[c].run /\ worker[r].pc = "none"
    BY <1>1, <1>7 DEF DispatchLocally, SpawnWorker, CreatedOnce
  <2>3. PICK w : worker' = [worker EXCEPT ![r] = w] /\ w.pc \in {"marked", "booting"}
    <3>1. CASE DispatchLocally(c)
      <4> DEFINE w == [NoWorker EXCEPT !.pc = "marked", !.proc = HostOf[c]]
      <4>1. w.pc = "marked"
        BY DEF NoWorker
      <4>2. QED
        BY <2>2, <3>1, <4>1 DEF DispatchLocally
    <3>2. CASE \E q \in Procs : SpawnWorker(c, q)
      <4>1. PICK q \in Procs : SpawnWorker(c, q)
        BY <3>2
      <4> DEFINE w == [NoWorker EXCEPT !.pc = "booting", !.proc = q]
      <4>2. w.pc = "booting"
        BY DEF NoWorker
      <4>3. QED
        BY <2>2, <4>1, <4>2 DEF SpawnWorker
    <3>3. QED
      BY <1>7, <3>1, <3>2
  <2>4. QED
    BY <2>1, <2>2, <2>3 DEF StagesQuiet, Stage, BeforeWork, Executing, TypeInv, TypeOK
<1>8. CASE \E r \in Runs : StartRun(c, r)
  <2>1. PICK r \in Runs : CreateRun(r) /\ worker' = worker
    BY <1>8 DEF StartRun
  <2>2. /\ row'[r].status = "queued" /\ row'[r].stop = row[r].stop /\ row[r].status = "absent"
        /\ \A t \in Runs : t # r => row'[t] = row[t]
    BY <2>1 DEF CreateRun, TypeInv, TypeOK, Row
  <2>3. QED
    BY <2>1, <2>2, WorkersRest DEF RowsQuiet
<1>9. QED
  BY <1>2, <1>3, <1>4, <1>5, <1>6, <1>7, <1>8 DEF RequestContinues, RequestBegins

\* Processes come and go without a write.
LEMMA ProcessStepIsQuiet ==
  ASSUME NEW p \in Procs, ProcessStep(p) PROVE RowsQuiet /\ StagesQuiet
<1>1. CASE StartProcess(p) \/ ServiceReady(p)
  BY <1>1, RowsRest, WorkersRest DEF StartProcess, ServiceReady, recordVars
<1>2. CASE ProcessEnds(p)
  <2>1. RowsQuiet
    BY <1>2, RowsRest DEF ProcessEnds, recordVars
  <2>2. \A r \in Runs : worker'[r] = worker[r] \/ worker'[r] = [worker[r] EXCEPT !.pc = "dead"]
    BY <1>2 DEF ProcessEnds
  <2>3. QED
    BY <1>2, <2>1 DEF ProcessEnds, StagesQuiet, Stage, Executing, BeforeWork, Finished
<1>3. QED
  BY <1>1, <1>2 DEF ProcessStep

\* What a step may do: let runs leave, ask one to stop, or let one in.
LEMMA StepIsQuiet ==
  ASSUME ServiceInv, [Next]_vars
  PROVE  \/ RowsQuiet /\ StagesQuiet
         \/ \E r \in Runs : RequestStop(r) /\ worker' = worker
         \/ \E r \in Runs : /\ worker[r].pc = "claiming"
                            /\ ClaimGranted(r, worker[r].proc) /\ Goto(r, "claimed")
<1>1. CASE Next
  BY <1>1, WorkerStepIsQuiet, RequestStepIsQuiet, ProcessStepIsQuiet DEF Next
<1>2. CASE UNCHANGED vars
  BY <1>2, RowsRest, WorkersRest DEF vars
<1>3. QED
  BY <1>1, <1>2

\* No step takes an outcome back.
LEMMA OutcomeKept ==
  ASSUME ServiceInv, [Next]_vars, NEW r \in Runs, row[r].status \in {"succeeded", "failed"}
  PROVE  row'[r].status = row[r].status
<1>1. row \in [Runs -> Row]
  BY DEF ServiceInv, TypeInv, TypeOK
<1>2. CASE RowsQuiet
  BY <1>2 DEF RowsQuiet
<1>3. CASE \E s \in Runs : RequestStop(s)
  BY <1>1, <1>3 DEF RequestStop, Row
<1>4. CASE \E s \in Runs : ClaimGranted(s, worker[s].proc)
  <2>1. PICK s \in Runs : ClaimGranted(s, worker[s].proc)
    BY <1>4
  <2>2. s # r
    BY <2>1 DEF ClaimGranted
  <2>3. QED
    BY <1>1, <2>1, <2>2 DEF ClaimGranted
<1>5. QED
  BY StepIsQuiet, <1>2, <1>3, <1>4

\* An outcome of its own is final: no recovery that decided on an older row, and no second
\* finalizer, overwrites succeeded or failed.
THEOREM OutcomesAreFinal == Spec => OutcomeIsFinal
<1>1. ServiceInv /\ [Next]_vars =>
        [\A r \in Runs : row[r].status \in {"succeeded", "failed"} =>
           row'[r].status = row[r].status]_vars
  BY OutcomeKept
<1>2. QED
  BY InitService, NextService, <1>1, PTL DEF Spec, OutcomeIsFinal

\* Only so many runs are running at a time that they can be counted.
LEMMA RunningGrowsByOne ==
  ASSUME ServiceInv, [Next]_vars, IsFiniteSet(Running)
  PROVE  IsFiniteSet(Running')
<1>1. row \in [Runs -> Row]
  BY DEF ServiceInv, TypeInv, TypeOK
<1>2. \E x : Running' \subseteq Running \cup {x}
  <2>1. CASE RowsQuiet
    BY <2>1 DEF RowsQuiet, Running
  <2>2. CASE \E s \in Runs : RequestStop(s)
    <3>1. \A t \in Runs : row'[t].status = row[t].status
      BY <1>1, <2>2 DEF RequestStop, Row
    <3>2. QED
      BY <3>1 DEF Running
  <2>3. CASE \E s \in Runs : ClaimGranted(s, worker[s].proc)
    <3>1. PICK s \in Runs : ClaimGranted(s, worker[s].proc)
      BY <2>3
    <3>2. \A t \in Runs : t # s => row'[t] = row[t]
      BY <1>1, <3>1 DEF ClaimGranted
    <3>3. Running' \subseteq Running \cup {s}
      BY <3>2 DEF Running
    <3>4. QED
      BY <3>3
  <2>4. QED
    BY StepIsQuiet, <2>1, <2>2, <2>3
<1>3. PICK x : Running' \subseteq Running \cup {x}
  BY <1>2
<1>4. IsFiniteSet(Running \cup {x})
  BY FS_AddElement
<1>5. QED
  BY <1>3, <1>4, FS_Subset

-----------------------------------------------------------------------------
(* The refinement of RunSlots                                              *)

\* Under the mapping of Slots, quiet steps let runs leave and nothing else.
LEMMA QuietStepsLeave ==
  ASSUME RowsQuiet, StagesQuiet, UNCHANGED site
  PROVE  Slots!Next
<1> DEFINE R == {r \in Runs : Stage'[r] = "through"}
<1>1. Stage' = [r \in Runs |-> IF r \in R THEN "through" ELSE Stage[r]]
  BY DEF StagesQuiet, Stage
<1>2. StopRequested' = StopRequested
  BY DEF RowsQuiet, StopRequested
<1>3. PICK Q \in SUBSET Runs : Slots!Leave(Q)
  BY <1>1, <1>2 DEF Slots!Leave
<1>4. QED
  BY <1>3 DEF Slots!Next

\* A stop request is AskStop.
LEMMA StopRequestAsks ==
  ASSUME TypeInv, NEW r \in Runs, RequestStop(r), worker' = worker, UNCHANGED site
  PROVE  Slots!Next
<1>1. /\ row'[r].stop /\ \A s \in Runs : s # r => row'[s] = row[s]
  BY DEF TypeInv, TypeOK, RequestStop, Row
<1>2. StopRequested' = StopRequested \cup {r}
  BY <1>1 DEF StopRequested
<1>3. Slots!AskStop(r)
  BY <1>2 DEF Slots!AskStop, Stage, Executing
<1>4. QED
  BY <1>3 DEF Slots!Next

\* A granted claim is Enter: the runs at work are among the running rows the claim counted, and
\* whoever worked in the directory would hold its lock.
LEMMA ClaimEnters ==
  ASSUME ServiceInv, IsFiniteSet(Running), NEW r \in Runs, worker[r].pc = "claiming",
         ClaimGranted(r, worker[r].proc), Goto(r, "claimed"), UNCHANGED site
  PROVE  Slots!Next
<1> DEFINE AtWork == {s \in Runs : Executing(s)}
<1>1. \A s \in Runs : Executing(s) => lock[WorkdirOf[s]] = s /\ row[s].status = "running"
  BY DEF ServiceInv, ExecutingHoldsSlot
<1>2. Cardinality(AtWork) < site.slots
  <2>1. AtWork \subseteq Running
    BY <1>1 DEF Running
  <2>2. Cardinality(AtWork) \in Nat /\ Cardinality(Running) \in Nat
        /\ Cardinality(AtWork) =< Cardinality(Running)
    BY <2>1, FS_Subset, FS_CardinalityType
  <2>3. Cardinality(Running) < site.slots /\ site.slots \in Nat
    BY RecordsAssumption DEF ClaimGranted, SlotIsFree, MaxConcurrentRuns, ServiceInv, TypeInv
  <2>4. QED
    BY <2>2, <2>3
<1>3. \A s \in AtWork : site.dir[s] # site.dir[r]
  <2>1. lock[WorkdirOf[r]] \in {None, r} /\ ~Executing(r)
    BY DEF ClaimGranted, LockIsFree, Executing
  <2>2. QED
    BY <1>1, <2>1, RecordsAssumption DEF WorkdirOf
<1>4. ~row[r].stop
  BY DEF ClaimGranted, StoppedBeforeClaim
<1>5. worker'[r].pc = "claimed" /\ \A s \in Runs : s # r => worker'[s] = worker[s]
  BY GotoMoves DEF ServiceInv, WorkerPcs
<1>6. StopRequested' = StopRequested
  <2>1. row \in [Runs -> Row]
    BY DEF ServiceInv, TypeInv, TypeOK
  <2>2. \A s \in Runs : row'[s].stop = row[s].stop
    BY <2>1 DEF ClaimGranted, Row
  <2>3. QED
    BY <2>2 DEF StopRequested
<1>7. /\ Stage[r] = "before" /\ Stage'[r] = "at_work"
      /\ \A s \in Runs : s # r => Stage'[s] = Stage[s]
  BY <1>5 DEF Stage, BeforeWork, Executing
<1>8. Slots!AtWork = AtWork
  BY DEF Slots!AtWork, Stage, Executing, BeforeWork
<1>9. Slots!Enter(r)
  <2>1. Stage' = [Stage EXCEPT ![r] = "at_work"]
    BY <1>7 DEF Stage
  <2>2. Stage[r] = "before" /\ r \notin StopRequested
    BY <1>4, <1>7 DEF StopRequested
  <2>3. /\ Cardinality(Slots!AtWork) < site.slots
        /\ \A s \in Slots!AtWork : site.dir[s] # site.dir[r]
    BY <1>2, <1>3, <1>8
  <2>4. Slots!Cardinality(Slots!AtWork) = Cardinality(Slots!AtWork)
    BY DEF Slots!Cardinality, Cardinality
  <2>5. QED
    BY <1>6, <2>1, <2>2, <2>3, <2>4 DEF Slots!Enter
<1>10. QED
  BY <1>9 DEF Slots!Next

\* Every step is a step of RunSlots or none.
LEMMA StepImplementsSlots ==
  ASSUME ServiceInv, IsFiniteSet(Running), [Next]_vars
  PROVE  [Slots!Next]_Slots!slotVars
<1>1. UNCHANGED site
  BY DEF Next, vars
<1>2. QED
  BY <1>1, StepIsQuiet, QuietStepsLeave, StopRequestAsks, ClaimEnters DEF ServiceInv

\* The processes together, with no coordination but the tables, implement RunSlots: one run
\* at work per directory, at most max_concurrent_runs at work, none twice, and none that was
\* asked to stop before its claim.
THEOREM ServiceKeepsSlots == Spec => SlotsKept
<1>1. Init => Slots!Init
  BY DEF Init, RecordsInit, Slots!Init, Stage, StopRequested, NoRow, NoWorker, BeforeWork
<1>2. Init => IsFiniteSet(Running)
  <2>1. Init => Running = {}
    BY DEF Init, RecordsInit, NoRow, Running
  <2>2. QED
    BY <2>1, FS_EmptySet
<1>3. ServiceInv /\ IsFiniteSet(Running) /\ [Next]_vars => IsFiniteSet(Running)'
  BY RunningGrowsByOne
<1>4. ServiceInv /\ IsFiniteSet(Running) /\ [Next]_vars => [Slots!Next]_Slots!slotVars
  BY StepImplementsSlots
<1>5. QED
  BY InitService, NextService, <1>1, <1>2, <1>3, <1>4, PTL DEF Spec, SlotsKept, Slots!Spec

-----------------------------------------------------------------------------
(* How a worker ends                                                       *)

\* The row or the stream of the run says that it has ended.
Over(r) == IsTerminal(r) \/ StreamTerminated(r)

Leaving == {"leaving", "releasing", "ended"}

Clean == \A r \in Runs : evidence[r] = "clean"
EndsSeen == \A r \in Runs : worker[r].pc \in Leaving => Over(r)

\* A worker that is through has ended its run, in the row or at least in the stream.
EndedWorkerLeavesEnd == \A r \in Runs : worker[r].pc = "ended" => Over(r)

\* What is over stays over, but for a worker's own first write of its status.
OversStay == \A r \in Runs : Over(r) => Over(r)' \/ worker[r].pc \in {"none", "registered"}

\* An update that the stream refuses finds it terminated.
LEMMA RefusedIsOver ==
  ASSUME NEW r \in Runs, NEW s, ~UpdateCommits(r, s)
  PROVE  StreamTerminated(r)
BY DEF UpdateCommits

\* A step that writes no row and no stream.
LEMMA RecordsRest ==
  ASSUME UNCHANGED recordVars
  PROVE  OversStay
BY DEF recordVars, OversStay, Over, IsTerminal, StreamTerminated

\* A step that writes a pid.
LEMMA PidEndsNothing ==
  ASSUME TypeInv, NEW r \in Runs, NEW p, row' = [row EXCEPT ![r].pid = p], events' = events
  PROVE  OversStay
BY DEF TypeInv, TypeOK, Row, OversStay, Over, IsTerminal, StreamTerminated

\* A step that writes an outcome.
LEMMA OutcomeIsOver ==
  ASSUME TypeInv, NEW r \in Runs, NEW s \in TerminalStatuses, UpdateStatus(r, s)
  PROVE  OversStay /\ IsTerminal(r)'
<1>1. /\ row'[r].status = s
      /\ \A t \in Runs : t # r => row'[t] = row[t] /\ events'[t] = events[t]
  BY StatusWritten
<1>2. QED
  BY <1>1 DEF OversStay, Over, IsTerminal, StreamTerminated

\* A worker that moves keeps the promise if its run is over where it leaves.
LEMMA MoveKeepsEnds ==
  ASSUME TypeInv, Clean, EndsSeen, OversStay, NEW r \in Runs, NEW q \in WorkerPcs, Goto(r, q),
         evidence' = evidence, q \in Leaving => Over(r)'
  PROVE  (Clean /\ EndsSeen)'
<1>1. worker'[r].pc = q /\ \A s \in Runs : s # r => worker'[s] = worker[s]
  BY GotoMoves
<1>2. \A s \in Runs : worker[s].pc \in Leaving /\ Over(s) => Over(s)'
  BY DEF OversStay, Leaving
<1>3. Clean'
  BY DEF Clean
<1>4. EndsSeen'
  BY <1>1, <1>2 DEF EndsSeen
<1>5. QED
  BY <1>3, <1>4

\* A worker that finalizes has not left yet.
LEMMA FinalizeKeepsEnds ==
  ASSUME TypeInv, Clean, EndsSeen, UNCHANGED recordVars, NEW r \in Runs, NEW plan,
         Finalize(r, plan), evidence' = evidence
  PROVE  (Clean /\ EndsSeen)'
<1>1. worker'[r].pc = "judging" /\ \A s \in Runs : s # r => worker'[s] = worker[s]
  BY DEF TypeInv, TypeOK, Finalize, Worker
<1>2. \A s \in Runs : Over(s) => Over(s)'
  BY DEF recordVars, Over, IsTerminal, StreamTerminated
<1>3. QED
  BY <1>1, <1>2 DEF Clean, EndsSeen, Leaving

\* Where no worker moves.
LEMMA RestKeepsEnds ==
  ASSUME Clean, EndsSeen, OversStay, worker' = worker, evidence' = evidence
  PROVE  (Clean /\ EndsSeen)'
BY DEF Clean, EndsSeen, OversStay, Leaving

\* With clean evidence no verdict is refused.
LEMMA VerdictTaken ==
  ASSUME Clean, NEW r \in Runs, NEW plan PROVE VerdictAccepted(r, plan)
BY DEF Clean, VerdictAccepted

\* A worker leaves by an outcome it has written, or because its stream has one already.
LEMMA WorkerEnds ==
  ASSUME ServiceInv, ~Blocking, Clean, EndsSeen, NEW r \in Runs, WorkerStep(r)
  PROVE  OversStay /\ (Clean /\ EndsSeen)'
<1>1. TypeInv
  BY DEF ServiceInv
<1>2. /\ {"marked", "registered", "polling", "claiming", "claimed", "working", "recording",
          "crashing", "leaving", "releasing", "ended"} \subseteq WorkerPcs
      /\ Leaving = {"leaving", "releasing", "ended"}
  BY DEF WorkerPcs, Leaving
<1>3. CASE Boot(r)
  BY <1>1, <1>2, <1>3, RecordsRest, MoveKeepsEnds DEF Boot
<1>4. CASE RegisterWorker(r)
  <2>1. OversStay
    BY <1>1, <1>4, PidEndsNothing DEF RegisterWorker, SetRunnerPid
  <2>2. QED
    BY <1>1, <1>2, <1>4, <2>1, MoveKeepsEnds DEF RegisterWorker
<1>5. CASE Enqueue(r)
  <2>1. \A t \in Runs : t # r => row'[t] = row[t] /\ events'[t] = events[t]
    BY <1>1, <1>5, StatusWritten DEF Enqueue, ActiveStatuses
  <2>2. OversStay
    BY <1>5, <2>1 DEF Enqueue, OversStay, Over, IsTerminal, StreamTerminated
  <2>3. QED
    BY <1>1, <1>2, <1>5, <2>2, MoveKeepsEnds DEF Enqueue
<1>6. CASE PollStop(r)
  BY <1>1, <1>2, <1>6, RecordsRest, MoveKeepsEnds, FinalizeKeepsEnds DEF PollStop
<1>7. CASE Claim(r)
  <2>1. CASE ClaimGranted(r, worker[r].proc) /\ Goto(r, "claimed")
    <3>1. row[r].status = "queued" /\ events' = events
      BY <2>1 DEF ClaimGranted
    <3>2. \A t \in Runs : t # r => row'[t] = row[t]
      BY <1>1, <2>1 DEF ClaimGranted, TypeInv, TypeOK
    <3>3. OversStay
      BY <3>1, <3>2 DEF OversStay, Over, IsTerminal, StreamTerminated, TerminalStatuses
    <3>4. QED
      BY <1>1, <1>2, <1>7, <2>1, <3>3, MoveKeepsEnds DEF Claim
  <2>2. CASE /\ ClaimRefused(r)
             /\ Goto(r, IF row[r].status = "running" THEN "claimed" ELSE "polling")
    BY <1>1, <1>2, <1>7, <2>2, RecordsRest, MoveKeepsEnds DEF Claim, ClaimRefused
  <2>3. CASE ClaimSkipsStopped(r) /\ Goto(r, "polling")
    <3>1. row'[r].status = "stopped" /\ events' = events /\ \A t \in Runs : t # r => row'[t] = row[t]
      BY <1>1, <2>3 DEF ClaimSkipsStopped, TypeInv, TypeOK, Row
    <3>2. OversStay
      BY <3>1 DEF OversStay, Over, IsTerminal, StreamTerminated, TerminalStatuses
    <3>3. QED
      BY <1>1, <1>2, <1>7, <2>3, <3>2, MoveKeepsEnds DEF Claim
  <2>4. QED
    BY <1>7, <2>1, <2>2, <2>3 DEF Claim
<1>8. CASE Begin(r)
  <2>1. row[r].status = "running"
    BY <1>8 DEF Begin, ServiceInv, ExecutingHoldsSlot, Executing
  <2>2. CASE UpdateStatus(r, "running") /\ Goto(r, "working")
    <3>1. /\ row'[r].status = "running" /\ events'[r] = events[r] \cup EventOwed(r, "running")
          /\ \A t \in Runs : t # r => row'[t] = row[t] /\ events'[t] = events[t]
      BY <1>1, <2>2, StatusWritten DEF ActiveStatuses
    <3>2. OversStay
      BY <2>1, <3>1 DEF OversStay, Over, IsTerminal, StreamTerminated
    <3>3. QED
      BY <1>1, <1>2, <1>8, <2>2, <3>2, MoveKeepsEnds DEF Begin
  <2>3. CASE UNCHANGED recordVars /\ Goto(r, "crashing")
    BY <1>1, <1>2, <1>8, <2>3, RecordsRest, MoveKeepsEnds DEF Begin
  <2>4. QED
    BY <1>8, <2>2, <2>3 DEF Begin
<1>9. CASE BeginIteration(r)
  <2>1. CASE row[r].stop
    BY <1>1, <1>9, <2>1, RecordsRest, FinalizeKeepsEnds DEF BeginIteration
  <2>2. CASE ~row[r].stop
    <3>1. worker'[r].pc = "stepping" /\ \A s \in Runs : s # r => worker'[s] = worker[s]
      BY <1>1, <1>9, <2>2 DEF BeginIteration, TypeInv, TypeOK, Worker
    <3>2. OversStay /\ evidence' = evidence
      BY <1>9, RecordsRest DEF BeginIteration
    <3>3. \A s \in Runs : Over(s) => Over(s)'
      BY <1>9 DEF BeginIteration, recordVars, Over, IsTerminal, StreamTerminated
    <3>4. QED
      BY <3>1, <3>2, <3>3 DEF Clean, EndsSeen, Leaving
  <2>3. QED
    BY <2>1, <2>2
<1>10. CASE TakeStep(r)
  <2>1. evidence' = [evidence EXCEPT ![r] = "clean"]
    BY <1>10 DEF TakeStep, EvidenceAfter
  <2>2. evidence' = evidence
    <3>1. evidence \in [Runs -> {"clean", "blocked", "judged"}] /\ evidence[r] = "clean"
      BY <1>1 DEF TypeInv, TypeOK, Clean
    <3>2. QED
      BY <2>1, <3>1
  <2>3. QED
    BY <1>10, <2>2, RecordsRest, RestKeepsEnds DEF TakeStep
<1>11. CASE EndIteration(r) \/ Fail(r)
  BY <1>1, <1>2, <1>11, RecordsRest, MoveKeepsEnds DEF EndIteration, Fail
<1>12. CASE LeaveIteration(r) \/ Exhaust(r)
  BY <1>1, <1>12, RecordsRest, FinalizeKeepsEnds DEF LeaveIteration, Exhaust
<1>13. CASE JudgeRun(r)
  BY <1>1, <1>2, <1>13, VerdictTaken, RecordsRest, MoveKeepsEnds DEF JudgeRun
<1>14. CASE RecordOutcome(r)
  <2> DEFINE s == Outcome[worker[r].plan]
  <2>1. s \in TerminalStatuses
    BY <1>14 DEF RecordOutcome, ServiceInv, WorkersLive, WorkerPlans, Outcome, TerminalStatuses
  <2>2. \/ UpdateStatus(r, s) /\ Goto(r, "leaving")
        \/ ~UpdateCommits(r, s) /\ UNCHANGED recordVars /\ Raise(r)
    BY <1>14 DEF RecordOutcome
  <2>3. evidence' = evidence
    BY <1>14 DEF RecordOutcome
  <2> HIDE DEF s
  <2>4. CASE UpdateStatus(r, s) /\ Goto(r, "leaving")
    <3>1. OversStay /\ Over(r)'
      BY <1>1, <2>1, <2>4, OutcomeIsOver DEF Over
    <3>2. QED
      BY <1>1, <1>2, <2>3, <2>4, <3>1, MoveKeepsEnds
  <2>5. CASE ~UpdateCommits(r, s) /\ UNCHANGED recordVars /\ Raise(r)
    <3>1. OversStay /\ Over(r)'
      BY <2>5, RecordsRest, RefusedIsOver DEF recordVars, Over, IsTerminal, StreamTerminated
    <3>2. PICK q \in {"leaving", "crashing"} : Goto(r, q)
      BY <2>5 DEF Raise
    <3>3. QED
      BY <1>1, <1>2, <2>3, <3>1, <3>2, MoveKeepsEnds
  <2>6. QED
    BY <2>2, <2>4, <2>5
<1>15. CASE RecordCrash(r)
  <2>1. "failed" \in TerminalStatuses
    BY DEF TerminalStatuses
  <2>2. OversStay /\ Over(r)'
    <3>1. CASE UpdateStatus(r, "failed")
      BY <1>1, <2>1, <3>1, OutcomeIsOver DEF Over
    <3>2. CASE ~UpdateCommits(r, "failed") /\ UNCHANGED recordVars
      BY <3>2, RecordsRest, RefusedIsOver DEF recordVars, Over, IsTerminal, StreamTerminated
    <3>3. QED
      BY <1>15, <3>1, <3>2 DEF RecordCrash
  <2>3. QED
    BY <1>1, <1>2, <1>15, <2>2, MoveKeepsEnds DEF RecordCrash
<1>16. CASE MarkInactive(r)
  <2>1. Over(r)' /\ OversStay
    BY <1>2, <1>16, RecordsRest DEF MarkInactive, EndsSeen, OversStay
  <2>2. QED
    BY <1>1, <1>2, <1>16, <2>1, MoveKeepsEnds DEF MarkInactive
<1>17. CASE LeaveSlot(r)
  <2>1. OversStay
    BY <1>1, <1>17, PidEndsNothing DEF LeaveSlot, ReleaseRunSlot
  <2>2. Over(r)'
    BY <1>2, <1>17, <2>1 DEF LeaveSlot, EndsSeen, OversStay
  <2>3. QED
    BY <1>1, <1>2, <1>17, <2>1, <2>2, MoveKeepsEnds DEF LeaveSlot
<1>18. QED
  BY <1>3, <1>4, <1>5, <1>6, <1>7, <1>8, <1>9, <1>10, <1>11, <1>12, <1>13, <1>14, <1>15, <1>16,
     <1>17 DEF WorkerStep

\* Requests write terminal statuses only, and a run is created before it has a worker.
LEMMA RequestEnds ==
  ASSUME ServiceInv, Clean, EndsSeen, NEW c \in Clients, RequestContinues(c) \/ RequestBegins(c)
  PROVE  OversStay /\ (Clean /\ EndsSeen)'
<1>1. TypeInv
  BY DEF ServiceInv
<1>2. api[c].pc # "idle" => api[c].run \in Runs
  BY RunOfRequest DEF ServiceInv
<1>3. evidence' = evidence
  BY DEF RequestContinues, RequestBegins, RegisterSpawned, SendStop, DecideStop, Recover,
     JudgeRequest, RecordRequest, ReleaseRequest, DispatchLocally, SpawnFails, LeaveQueued,
     SpawnWorker, StartRun, StopRun, ListRuns
<1>4. CASE DispatchLocally(c) \/ \E q \in Procs : SpawnWorker(c, q)
  <2>1. UNCHANGED recordVars
    BY <1>4 DEF DispatchLocally, SpawnWorker
  <2>2. \E r \in Runs : \E w :
          worker' = [worker EXCEPT ![r] = w] /\ w.pc \in {"marked", "booting"}
    <3>1. CASE DispatchLocally(c)
      <4> DEFINE w == [NoWorker EXCEPT !.pc = "marked", !.proc = HostOf[c]]
      <4>1. w.pc = "marked"
        BY DEF NoWorker
      <4>2. api[c].run \in Runs /\ worker' = [worker EXCEPT ![api[c].run] = w]
        BY <1>2, <3>1 DEF DispatchLocally
      <4>3. QED
        BY <4>1, <4>2
    <3>2. CASE \E q \in Procs : SpawnWorker(c, q)
      <4>1. PICK q \in Procs : SpawnWorker(c, q)
        BY <3>2
      <4> DEFINE w == [NoWorker EXCEPT !.pc = "booting", !.proc = q]
      <4>2. w.pc = "booting"
        BY DEF NoWorker
      <4>3. api[c].run \in Runs /\ worker' = [worker EXCEPT ![api[c].run] = w]
        BY <1>2, <4>1 DEF SpawnWorker
      <4>4. QED
        BY <4>2, <4>3
    <3>3. QED
      BY <1>4, <3>1, <3>2
  <2>3. OversStay /\ \A s \in Runs : Over(s) => Over(s)'
    BY <2>1, RecordsRest DEF recordVars, Over, IsTerminal, StreamTerminated
  <2>4. \A s \in Runs : worker'[s].pc \in Leaving => worker[s].pc \in Leaving
    BY <1>1, <2>2 DEF TypeInv, TypeOK, Leaving
  <2>5. QED
    BY <1>3, <2>3, <2>4 DEF Clean, EndsSeen
<1>5. ASSUME ~(DispatchLocally(c) \/ \E q \in Procs : SpawnWorker(c, q))
      PROVE  OversStay /\ worker' = worker
  <2>1. worker' = worker
    BY <1>5 DEF RequestContinues, RequestBegins, RegisterSpawned, SendStop, DecideStop, Recover,
       JudgeRequest, RecordRequest, ReleaseRequest, SpawnFails, LeaveQueued, StartRun, StopRun,
       ListRuns
  <2>2. CASE UNCHANGED recordVars
    BY <2>1, <2>2, RecordsRest
  <2>3. CASE RegisterSpawned(c) \/ ReleaseRequest(c)
    <3>1. PICK r \in Runs : r = api[c].run
      BY <1>2, <2>3 DEF RegisterSpawned, ReleaseRequest
    <3>2. PICK p : row' = [row EXCEPT ![r].pid = p] /\ events' = events
      BY <2>3, <3>1 DEF RegisterSpawned, SetRunnerPid, ReleaseRequest, ReleaseRunSlot
    <3>3. QED
      BY <1>1, <2>1, <3>2, PidEndsNothing
  <2>4. CASE SendStop(c)
    <3>1. events' = events /\ \A t \in Runs : row'[t].status = row[t].status
      BY <1>1, <1>2, <2>4 DEF SendStop, RequestStop, TypeInv, TypeOK, Row
    <3>2. QED
      BY <2>1, <3>1 DEF OversStay, Over, IsTerminal, StreamTerminated
  <2>5. CASE RecordRequest(c) \/ SpawnFails(c)
    <3>1. PICK r \in Runs, s \in TerminalStatuses : UpdateStatus(r, s) \/ UNCHANGED recordVars
      <4>1. CASE RecordRequest(c)
        <5>1. api[c].run \in Runs /\ Outcome[api[c].plan] \in TerminalStatuses
          BY <1>2, <4>1 DEF RecordRequest, ServiceInv, DecisionsAreSafe, Outcome, TerminalStatuses
        <5>2. QED
          BY <4>1, <5>1 DEF RecordRequest
      <4>2. CASE SpawnFails(c)
        BY <1>2, <4>2 DEF SpawnFails, TerminalStatuses
      <4>3. QED
        BY <2>5, <4>1, <4>2
    <3>2. QED
      BY <1>1, <2>1, <3>1, OutcomeIsOver, RecordsRest
  <2>6. CASE \E r \in Runs : StartRun(c, r)
    <3>1. PICK r \in Runs : CreateRun(r)
      BY <2>6 DEF StartRun
    <3>2. /\ row[r].status = "absent"
          /\ \A t \in Runs : t # r => row'[t] = row[t] /\ events'[t] = events[t]
      BY <1>1, <3>1 DEF CreateRun, TypeInv, TypeOK
    <3>3. worker[r].pc = "none"
      BY <3>2 DEF ServiceInv, Absent
    <3>4. QED
      BY <2>1, <3>2, <3>3 DEF OversStay, Over, IsTerminal, StreamTerminated
  <2>7. QED
    BY <1>5, <2>2, <2>3, <2>4, <2>5, <2>6 DEF RequestContinues, RequestBegins, DecideStop,
       Recover, JudgeRequest, LeaveQueued, StopRun, ListRuns
<1>6. QED
  BY <1>3, <1>4, <1>5, RestKeepsEnds

\* Processes take their workers along, those that have not ended.
LEMMA ProcessEndsNothing ==
  ASSUME Clean, EndsSeen, NEW p \in Procs, ProcessStep(p)
  PROVE  OversStay /\ (Clean /\ EndsSeen)'
<1>1. UNCHANGED recordVars /\ evidence' = evidence
  BY DEF ProcessStep, StartProcess, ServiceReady, ProcessEnds
<1>2. OversStay /\ \A r \in Runs : Over(r) => Over(r)'
  BY <1>1, RecordsRest DEF recordVars, Over, IsTerminal, StreamTerminated
<1>3. \A r \in Runs : worker'[r] = worker[r] \/ worker'[r].pc = "dead"
  <2>1. CASE StartProcess(p) \/ ServiceReady(p)
    BY <2>1 DEF StartProcess, ServiceReady
  <2>2. CASE ProcessEnds(p)
    <3>1. \A r \in Runs : [worker[r] EXCEPT !.pc = "dead"].pc = "dead"
      BY <2>2 DEF ProcessEnds
    <3>2. QED
      BY <2>2, <3>1 DEF ProcessEnds
  <2>3. QED
    BY <2>1, <2>2 DEF ProcessStep
<1>4. QED
  BY <1>1, <1>2, <1>3 DEF Clean, EndsSeen, Leaving

LEMMA EndsStep ==
  ASSUME ServiceInv, ~Blocking, Clean, EndsSeen, [Next]_vars
  PROVE  OversStay /\ (Clean /\ EndsSeen)'
<1>1. CASE Next
  BY <1>1, WorkerEnds, RequestEnds, ProcessEndsNothing DEF Next
<1>2. CASE UNCHANGED vars
  BY <1>2, RecordsRest, RestKeepsEnds DEF vars, recordVars
<1>3. QED
  BY <1>1, <1>2

LEMMA EndsInit == Init => Clean /\ EndsSeen
BY DEF Init, Clean, EndsSeen, Leaving, NoWorker

\* Where no role may block the coverage, a worker that is through, whatever it raised, has
\* its run ended in the row or at least in the stream, for any number of processes, clients
\* and deaths.
THEOREM EndedWorkersLeaveAnEnd == ~Blocking => (Spec => []EndedWorkerLeavesEnd)
<1> SUFFICES ASSUME ~Blocking PROVE Spec => []EndedWorkerLeavesEnd
  OBVIOUS
<1>1. ServiceInv /\ Clean /\ EndsSeen /\ [Next]_vars => (Clean /\ EndsSeen)'
  BY EndsStep
<1>2. EndsSeen => EndedWorkerLeavesEnd
  BY DEF EndsSeen, EndedWorkerLeavesEnd, Leaving
<1>3. QED
  BY InitService, NextService, EndsInit, <1>1, <1>2, PTL DEF Spec

\* One process that serves one request at a time, as a CLI command does.
OneCaller == \A c, d \in Clients, p \in Procs : d = c /\ p = HostOf[c]

Fresh == {"booting", "marked", "registered"}
Ending == {"judging", "recording", "releasing"}

\* The run's worker has not yet written its status.
Undispatched(r) ==
  \/ worker[r].pc \in Fresh
  \/ \E c \in Clients : api[c].pc = "created" /\ api[c].run = r

\* Nobody ends the run of a worker that has not yet written queued, so that write takes no end
\* back and row and stream agree.
AloneInv ==
  /\ \A r \in Runs : worker[r].pc # "booting"
  /\ \A c \in Clients : api[c].pc \in Ending => ~Undispatched(api[c].run)
  /\ \A r \in Runs : StreamTerminated(r) => IsTerminal(r) /\ ~Undispatched(r)

\* What a step may do to the streams: terminate that of a run whose worker has been dispatched,
\* and its row along with it.
EndsTold ==
  \A r \in Runs : StreamTerminated(r)' =>
    (StreamTerminated(r) \/ ~Undispatched(r)) /\ IsTerminal(r)'

LEMMA AloneFollows ==
  ASSUME AloneInv, EndsTold,
         \A r \in Runs : /\ worker'[r].pc \in Fresh => worker[r].pc \in Fresh
                         /\ worker'[r].pc # "booting",
         \A c \in Clients :
           /\ api'[c].pc = "created" => api[c].pc = "created" /\ api'[c].run = api[c].run
           /\ api'[c].pc \in Ending =>
                \/ api[c].pc \in Ending /\ api'[c].run = api[c].run
                \/ api'[c].run \in Runs /\ ~Undispatched(api'[c].run),
         \A c \in Clients : api[c].pc \in Ending => api[c].run \in Runs
  PROVE  AloneInv'
<1>1. \A r \in Runs : Undispatched(r)' => Undispatched(r)
  BY DEF Undispatched
<1>2. (\A c \in Clients : api[c].pc \in Ending => ~Undispatched(api[c].run))'
  <2>1. SUFFICES ASSUME NEW c \in Clients, api'[c].pc \in Ending, NEW r, r = api'[c].run
                 PROVE  ~Undispatched(r)'
    BY DEF Undispatched
  <2>2. r \in Runs /\ ~Undispatched(r)
    BY <2>1 DEF AloneInv
  <2>3. QED
    BY <1>1, <2>2
<1>3. \A r \in Runs : StreamTerminated(r)' => IsTerminal(r)' /\ ~Undispatched(r)'
  BY <1>1 DEF EndsTold, AloneInv
<1>4. QED
  BY <1>2, <1>3 DEF AloneInv

LEMMA RecordsTellNothing ==
  ASSUME AloneInv, UNCHANGED recordVars
  PROVE  EndsTold
BY DEF AloneInv, recordVars, EndsTold, StreamTerminated, IsTerminal

LEMMA PidTellsNothing ==
  ASSUME TypeInv, AloneInv, NEW r \in Runs, NEW p, row' = [row EXCEPT ![r].pid = p],
         events' = events
  PROVE  EndsTold
BY DEF TypeInv, TypeOK, Row, AloneInv, EndsTold, StreamTerminated, IsTerminal

LEMMA OutcomeTellsTheEnd ==
  ASSUME TypeInv, AloneInv, NEW r \in Runs, NEW s \in TerminalStatuses, UpdateStatus(r, s),
         ~Undispatched(r)
  PROVE  EndsTold
<1>1. /\ row'[r].status = s
      /\ \A t \in Runs : t # r => row'[t] = row[t] /\ events'[t] = events[t]
  BY StatusWritten
<1>2. QED
  BY <1>1 DEF AloneInv, EndsTold, StreamTerminated, IsTerminal

\* A worker past its first write of queued may end its run.
LEMMA WorkerAlone ==
  ASSUME ServiceInv, AloneInv, NEW r \in Runs, WorkerStep(r)
  PROVE  AloneInv'
<1>1. TypeInv
  BY DEF ServiceInv
<1>2. /\ {"registered", "polling", "claiming", "claimed", "working", "recording", "crashing",
          "leaving", "releasing", "ended"} \subseteq WorkerPcs
      /\ Fresh = {"booting", "marked", "registered"}
  BY DEF WorkerPcs, Fresh
<1>3. \A c \in Clients : api[c].pc \in Ending => api[c].run \in Runs
  BY RunOfRequest DEF Ending, ServiceInv
<1>4. api' = api
  BY DEF WorkerStep, Boot, RegisterWorker, Enqueue, PollStop, Claim, Begin, BeginIteration,
     TakeStep, EndIteration, LeaveIteration, Exhaust, Fail, JudgeRun, RecordOutcome, RecordCrash,
     MarkInactive, LeaveSlot
<1>5. worker[r].pc # "booting"
  BY DEF AloneInv
<1>6. \A s \in Runs : worker'[s].pc \in Fresh => worker[s].pc \in Fresh /\ worker'[s].pc # "booting"
  <2>1. \A q \in WorkerPcs :
          /\ Goto(r, q)
          /\ q \notin {"booting", "marked"}
          /\ q = "registered" => worker[r].pc = "marked"
          => \A s \in Runs :
               worker'[s].pc \in Fresh => worker[s].pc \in Fresh /\ worker'[s].pc # "booting"
    <3>1. TAKE q \in WorkerPcs
    <3>2. Goto(r, q) => worker'[r].pc = q /\ \A s \in Runs : s # r => worker'[s] = worker[s]
      BY <1>1, GotoMoves
    <3>3. QED
      BY <1>2, <3>2 DEF AloneInv
  <2>2. \A plan : Finalize(r, plan) => \A s \in Runs :
               worker'[s].pc \in Fresh => worker[s].pc \in Fresh /\ worker'[s].pc # "booting"
    <3>1. TAKE plan
    <3>2. Finalize(r, plan) =>
            worker'[r].pc = "judging" /\ \A s \in Runs : s # r => worker'[s] = worker[s]
      BY <1>1 DEF TypeInv, TypeOK, Finalize, Worker
    <3>3. QED
      BY <1>2, <3>2 DEF AloneInv
  <2>3. CASE TakeStep(r)
    BY <2>3 DEF TakeStep, AloneInv
  <2>4. CASE RegisterWorker(r) \/ Enqueue(r) \/ PollStop(r) \/ Claim(r) \/ Begin(r)
    BY <1>2, <2>1, <2>2, <2>4 DEF RegisterWorker, Enqueue, PollStop, Claim, Begin
  <2>5. CASE BeginIteration(r)
    <3>1. CASE row[r].stop
      BY <2>2, <2>5, <3>1 DEF BeginIteration
    <3>2. CASE ~row[r].stop
      <4>1. worker'[r].pc = "stepping" /\ \A s \in Runs : s # r => worker'[s] = worker[s]
        BY <1>1, <2>5, <3>2 DEF BeginIteration, TypeInv, TypeOK, Worker
      <4>2. QED
        BY <1>2, <4>1 DEF AloneInv
    <3>3. QED
      BY <3>1, <3>2
  <2>6. CASE EndIteration(r) \/ Fail(r) \/ RecordCrash(r) \/ MarkInactive(r) \/ LeaveSlot(r)
    BY <1>2, <2>1, <2>6 DEF EndIteration, Fail, RecordCrash, MarkInactive, LeaveSlot
  <2>7. CASE LeaveIteration(r) \/ Exhaust(r)
    BY <2>2, <2>7 DEF LeaveIteration, Exhaust
  <2>8. CASE JudgeRun(r) \/ RecordOutcome(r)
    <3>1. \E q \in {"recording", "leaving", "crashing"} : Goto(r, q)
      BY <2>8 DEF JudgeRun, RecordOutcome, Raise
    <3>2. QED
      BY <1>2, <2>1, <3>1
  <2>9. QED
    BY <1>5, <2>3, <2>4, <2>5, <2>6, <2>7, <2>8 DEF WorkerStep, Boot
<1>7. EndsTold
  <2>1. CASE UNCHANGED recordVars
    BY <2>1, RecordsTellNothing
  <2>2. CASE RegisterWorker(r) \/ LeaveSlot(r)
    <3>1. PICK p : row' = [row EXCEPT ![r].pid = p] /\ events' = events
      BY <2>2 DEF RegisterWorker, SetRunnerPid, LeaveSlot, ReleaseRunSlot
    <3>2. QED
      BY <1>1, <3>1, PidTellsNothing
  <2>3. CASE Enqueue(r)
    <3>1. /\ events'[r] = events[r] \cup EventOwed(r, "queued")
          /\ \A t \in Runs : t # r => row'[t] = row[t] /\ events'[t] = events[t]
      BY <1>1, <2>3, StatusWritten DEF Enqueue, ActiveStatuses
    <3>2. EventOwed(r, "queued") = {}
      BY DEF EventOwed, StatusEvent
    <3>3. ~StreamTerminated(r)
      BY <2>3 DEF Enqueue, AloneInv, Undispatched, Fresh
    <3>4. QED
      BY <3>1, <3>2, <3>3 DEF AloneInv, EndsTold, StreamTerminated, IsTerminal
  <2>4. CASE ClaimGranted(r, worker[r].proc) \/ ClaimSkipsStopped(r)
    <3>1. /\ events' = events /\ row[r].status = "queued"
          /\ \A t \in Runs : t # r => row'[t] = row[t]
      BY <1>1, <2>4 DEF ClaimGranted, ClaimSkipsStopped, StoppedBeforeClaim, TypeInv, TypeOK
    <3>2. ~StreamTerminated(r)
      BY <3>1 DEF AloneInv, IsTerminal, TerminalStatuses
    <3>3. QED
      BY <3>1, <3>2 DEF AloneInv, EndsTold, StreamTerminated, IsTerminal
  <2>5. CASE Begin(r) /\ UpdateStatus(r, "running")
    <3>1. row[r].status = "running"
      BY <2>5 DEF Begin, ServiceInv, ExecutingHoldsSlot, Executing
    <3>2. /\ events'[r] = events[r] \cup EventOwed(r, "running")
          /\ \A t \in Runs : t # r => row'[t] = row[t] /\ events'[t] = events[t]
      BY <1>1, <2>5, StatusWritten DEF ActiveStatuses
    <3>3. EventOwed(r, "running") = {}
      BY <3>1 DEF EventOwed
    <3>4. ~StreamTerminated(r)
      BY <3>1 DEF AloneInv, IsTerminal, TerminalStatuses
    <3>5. QED
      BY <3>2, <3>3, <3>4 DEF AloneInv, EndsTold, StreamTerminated, IsTerminal
  <2>6. ASSUME worker[r].pc \in {"recording", "crashing"} PROVE ~Undispatched(r)
    BY <2>6, RunOfRequest DEF Undispatched, Fresh, ServiceInv, CreatedOnce
  <2>7. CASE RecordOutcome(r)
    <3> DEFINE s == Outcome[worker[r].plan]
    <3>1. s \in TerminalStatuses
      BY <2>7 DEF RecordOutcome, ServiceInv, WorkersLive, WorkerPlans, Outcome, TerminalStatuses
    <3>2. UpdateStatus(r, s) \/ UNCHANGED recordVars
      BY <2>7 DEF RecordOutcome
    <3>3. worker[r].pc = "recording"
      BY <2>7 DEF RecordOutcome
    <3> HIDE DEF s
    <3>4. QED
      BY <1>1, <2>1, <2>6, <3>1, <3>2, <3>3, OutcomeTellsTheEnd
  <2>8. CASE RecordCrash(r)
    <3>1. "failed" \in TerminalStatuses
      BY DEF TerminalStatuses
    <3>2. QED
      BY <1>1, <2>1, <2>6, <2>8, <3>1, OutcomeTellsTheEnd DEF RecordCrash
  <2>9. QED
    BY <1>5, <2>1, <2>2, <2>3, <2>4, <2>5, <2>7, <2>8 DEF WorkerStep, Boot, PollStop, Claim,
       ClaimRefused, Begin, BeginIteration, TakeStep, EndIteration, LeaveIteration, Exhaust, Fail,
       JudgeRun, MarkInactive
<1>8. \A s \in Runs : worker'[s].pc # "booting"
  BY <1>6 DEF AloneInv, Fresh
<1>9. QED
  BY <1>3, <1>4, <1>6, <1>7, <1>8, AloneFollows

\* A run whose worker this process has just begun to execute is in its active set, and whose
\* worker it is about to make is the request's own: no request ends either.
LEMMA NotUndispatched ==
  ASSUME ServiceInv, OneCaller, AloneInv, NEW c \in Clients, NEW r \in Runs,
         api[c].pc # "created",
         r \notin active[HostOf[c]] \/ proc[HostOf[c]] = "starting"
  PROVE  ~Undispatched(r)
<1>1. \A d \in Clients : d = c
  BY ServiceAssumption DEF OneCaller
<1>2. worker[r].pc # "booting"
  BY DEF AloneInv
<1>3. ASSUME worker[r].pc \in {"marked", "registered"} PROVE FALSE
  <2>1. /\ worker[r].proc \in Procs \cup {None} /\ worker[r].proc # None
        /\ proc[worker[r].proc] \in {"up", "spawned"} /\ r \in active[worker[r].proc]
    BY <1>3 DEF ServiceInv, TypeInv, TypeOK, Worker, WorkersLive, InProcess
  <2>2. worker[r].proc = HostOf[c]
    BY <2>1 DEF OneCaller
  <2>3. QED
    BY <2>1, <2>2
<1>4. QED
  BY <1>1, <1>2, <1>3 DEF Undispatched, Fresh

LEMMA RequestAlone ==
  ASSUME ServiceInv, OneCaller, AloneInv, NEW c \in Clients, RequestContinues(c) \/ RequestBegins(c)
  PROVE  AloneInv'
<1>1. TypeInv
  BY DEF ServiceInv
<1>2. api[c].pc # "idle" => api[c].run \in Runs
  BY RunOfRequest DEF ServiceInv
<1>3. \A d \in Clients : d = c
  BY ServiceAssumption DEF OneCaller
<1>4. api \in [Clients -> Api]
  BY <1>1 DEF TypeInv, TypeOK
<1>5. CASE DispatchLocally(c)
  <2> DEFINE r == api[c].run
             w == [NoWorker EXCEPT !.pc = "marked", !.proc = HostOf[c]]
  <2>1. r \in Runs /\ Undispatched(r)
    BY <1>2, <1>5 DEF DispatchLocally, Undispatched
  <2>2. w.pc = "marked"
    BY DEF NoWorker
  <2>3. worker' = [worker EXCEPT ![r] = w]
    BY <1>5 DEF DispatchLocally
  <2>4. api'[c].pc = "idle"
    BY <1>4, <1>5 DEF DispatchLocally, Done, Idle
  <2>5. events' = events /\ row' = row
    BY <1>5 DEF DispatchLocally, recordVars
  <2>6. worker \in [Runs -> Worker]
    BY <1>1 DEF TypeInv, TypeOK
  <2> HIDE DEF r, w
  <2>7. worker'[r] = w /\ \A s \in Runs : s # r => worker'[s] = worker[s]
    BY <2>1, <2>3, <2>6
  <2>8. \A s \in Runs : StreamTerminated(s)' => IsTerminal(s)' /\ ~Undispatched(s)'
    <3>1. SUFFICES ASSUME NEW s \in Runs, StreamTerminated(s)'
                   PROVE  IsTerminal(s)' /\ ~Undispatched(s)'
      OBVIOUS
    <3>2. IsTerminal(s) /\ ~Undispatched(s)
      BY <2>5, <3>1 DEF AloneInv, StreamTerminated
    <3>3. s # r
      BY <2>1, <3>2
    <3>4. QED
      BY <1>3, <2>4, <2>5, <2>7, <3>2, <3>3 DEF IsTerminal, Undispatched
  <2>9. QED
    BY <1>3, <2>1, <2>2, <2>4, <2>7, <2>8 DEF AloneInv, Ending
<1>6. CASE \E q \in Procs : SpawnWorker(c, q)
  <2>1. PICK q \in Procs : SpawnWorker(c, q)
    BY <1>6
  <2>2. q = HostOf[c]
    BY DEF OneCaller
  <2>3. QED
    BY <2>1, <2>2 DEF SpawnWorker, ServiceInv, ClientsLive
<1>7. CASE \E r \in Runs : StartRun(c, r)
  <2>1. PICK r \in Runs : StartRun(c, r)
    BY <1>7
  <2>2. /\ events'[r] = {"RunCreated"} /\ row[r].status = "absent"
        /\ \A t \in Runs : t # r => row'[t] = row[t] /\ events'[t] = events[t]
    BY <1>1, <2>1 DEF StartRun, CreateRun, TypeInv, TypeOK
  <2>3. api[c].pc = "idle" /\ api'[c].pc = "created" /\ api'[c].run = r /\ worker' = worker
    BY <1>4, <2>1 DEF StartRun, Ready, Serve, Idle
  <2>4. ~StreamTerminated(r)'
    BY <2>2 DEF StreamTerminated, TerminalEvents
  <2>5. \A s \in Runs : StreamTerminated(s)' => IsTerminal(s)' /\ ~Undispatched(s)'
    <3>1. SUFFICES ASSUME NEW s \in Runs, StreamTerminated(s)'
                   PROVE  IsTerminal(s)' /\ ~Undispatched(s)'
      OBVIOUS
    <3>2. s # r
      BY <2>4, <3>1
    <3>3. IsTerminal(s) /\ ~Undispatched(s) /\ IsTerminal(s)'
      BY <2>2, <3>1, <3>2 DEF AloneInv, StreamTerminated, IsTerminal
    <3>4. QED
      BY <1>3, <2>3, <3>2, <3>3 DEF Undispatched
  <2>6. QED
    BY <1>3, <2>3, <2>5 DEF AloneInv, Ending
<1>8. CASE SpawnFails(c)
  <2>1. PICK r \in Runs : r = api[c].run
    BY <1>2, <1>8 DEF SpawnFails
  <2>2. worker' = worker /\ worker[r].pc = "none" /\ api'[c].pc = "idle"
    BY <1>4, <1>8, <2>1 DEF SpawnFails, ServiceInv, CreatedOnce, Done, Idle
  <2>3. /\ \A t \in Runs : t # r => row'[t] = row[t] /\ events'[t] = events[t]
        /\ IsTerminal(r)' \/ UNCHANGED recordVars
    <3>1. CASE UpdateStatus(r, "failed")
      <4>1. /\ row'[r].status = "failed"
            /\ \A t \in Runs : t # r => row'[t] = row[t] /\ events'[t] = events[t]
        BY <1>1, <3>1, StatusWritten DEF TerminalStatuses
      <4>2. QED
        BY <4>1 DEF IsTerminal, TerminalStatuses
    <3>2. CASE UNCHANGED recordVars
      BY <3>2 DEF recordVars
    <3>3. QED
      BY <1>8, <2>1, <3>1, <3>2 DEF SpawnFails
  <2>4. \A s \in Runs : Undispatched(s)' => Undispatched(s) /\ s # r
    BY <1>3, <2>2 DEF Undispatched, Fresh
  <2>5. \A s \in Runs : StreamTerminated(s)' => IsTerminal(s)' /\ ~Undispatched(s)'
    <3>1. SUFFICES ASSUME NEW s \in Runs, StreamTerminated(s)'
                   PROVE  IsTerminal(s)' /\ ~Undispatched(s)'
      OBVIOUS
    <3>2. CASE s = r /\ IsTerminal(r)'
      BY <2>4, <3>2
    <3>3. CASE s # r \/ UNCHANGED recordVars
      <4>1. row'[s] = row[s] /\ events'[s] = events[s]
        BY <2>3, <3>3 DEF recordVars
      <4>2. QED
        BY <2>4, <3>1, <4>1 DEF AloneInv, StreamTerminated, IsTerminal
    <3>4. QED
      BY <2>3, <3>2, <3>3
  <2>6. QED
    BY <1>3, <2>2, <2>5 DEF AloneInv, Ending
<1>9. ASSUME ~ \/ DispatchLocally(c) \/ SpawnFails(c)
               \/ \E q \in Procs : SpawnWorker(c, q)
               \/ \E r \in Runs : StartRun(c, r)
      PROVE  AloneInv'
  <2>1. worker' = worker
    BY <1>9 DEF RequestContinues, RequestBegins, RegisterSpawned, SendStop, DecideStop, Recover,
       JudgeRequest, RecordRequest, ReleaseRequest, LeaveQueued, StopRun, ListRuns
  <2>2. EndsTold
    <3>1. CASE UNCHANGED recordVars
      BY <3>1, RecordsTellNothing
    <3>2. CASE RegisterSpawned(c) \/ ReleaseRequest(c)
      <4>1. PICK r \in Runs : r = api[c].run
        BY <1>2, <3>2 DEF RegisterSpawned, ReleaseRequest
      <4>2. PICK p : row' = [row EXCEPT ![r].pid = p] /\ events' = events
        BY <3>2, <4>1 DEF RegisterSpawned, SetRunnerPid, ReleaseRequest, ReleaseRunSlot
      <4>3. QED
        BY <1>1, <4>2, PidTellsNothing
    <3>3. CASE SendStop(c)
      <4>1. events' = events /\ \A t \in Runs : row'[t].status = row[t].status
        BY <1>1, <1>2, <3>3 DEF SendStop, RequestStop, TypeInv, TypeOK, Row
      <4>2. QED
        BY <4>1 DEF AloneInv, EndsTold, StreamTerminated, IsTerminal
    <3>4. CASE RecordRequest(c)
      <4> DEFINE s == Outcome[api[c].plan]
      <4>1. PICK r \in Runs : r = api[c].run
        BY <1>2, <3>4 DEF RecordRequest
      <4>2. s \in TerminalStatuses
        BY <3>4 DEF RecordRequest, ServiceInv, DecisionsAreSafe, Outcome, TerminalStatuses
      <4>3. ~Undispatched(r)
        BY <3>4, <4>1 DEF RecordRequest, AloneInv, Ending
      <4>4. UpdateStatus(r, s) \/ UNCHANGED recordVars
        BY <3>4, <4>1 DEF RecordRequest
      <4> HIDE DEF s
      <4>5. QED
        BY <1>1, <3>1, <4>2, <4>3, <4>4, OutcomeTellsTheEnd
    <3>5. QED
      BY <1>9, <3>1, <3>2, <3>3, <3>4 DEF RequestContinues, RequestBegins, DecideStop, Recover,
         JudgeRequest, LeaveQueued, StopRun, ListRuns
  <2>3. /\ api'[c].pc # "created"
        /\ api'[c].pc \in Ending =>
             \/ api[c].pc \in Ending /\ api'[c].run = api[c].run
             \/ api'[c].run \in Runs /\ ~Undispatched(api'[c].run)
    <3>1. Done(c) => api'[c].pc = "idle"
      BY <1>4 DEF Done, Idle
    <3>2. \A q \in {"stop_sent", "recording", "releasing"} :
            Continue(c, q) => api'[c].pc = q /\ api'[c].run = api[c].run
      BY <1>4 DEF Continue, Api
    <3>3. \A r \in Runs : Serve(c, "stop_read", r) => api'[c].pc = "stop_read"
      BY <1>4 DEF Serve, Idle
    <3>4. CASE RegisterSpawned(c) \/ LeaveQueued(c) \/ ReleaseRequest(c)
      BY <3>1, <3>4 DEF RegisterSpawned, LeaveQueued, ReleaseRequest, Ending
    <3>5. CASE SendStop(c) \/ JudgeRequest(c) \/ RecordRequest(c)
      BY <3>1, <3>2, <3>5 DEF SendStop, JudgeRequest, RecordRequest, Ending
    <3>6. CASE \E r \in Runs : StopRun(c, r)
      BY <3>3, <3>6 DEF StopRun, Ending
    <3>7. CASE \E r \in Runs : ListRuns(c, r)
      <4>1. api'[c].pc = "listed"
        BY <1>4, <3>7 DEF ListRuns, Idle
      <4>2. QED
        BY <4>1 DEF Ending
    <3>8. CASE DecideStop(c) \/ Recover(c)
      <4>1. CASE Done(c)
        BY <3>1, <4>1 DEF Ending
      <4>2. CASE ~Done(c)
        <5>1. /\ api[c].pc \in {"stop_sent", "listed"} /\ api[c].run \in Runs
              /\ api'[c].pc = "judging" /\ api'[c].run = api[c].run
          BY <1>2, <1>4, <3>8, <4>2 DEF DecideStop, Recover, Api
        <5>2. api[c].run \notin active[HostOf[c]] \/ proc[HostOf[c]] = "starting"
          BY <3>8, <4>2 DEF DecideStop, FinishesHere, Recover, Recoverable, Orphaned
        <5>3. ~Undispatched(api[c].run)
          BY <5>1, <5>2, NotUndispatched
        <5>4. QED
          BY <5>1, <5>3
      <4>3. QED
        BY <4>1, <4>2
    <3>9. QED
      BY <1>9, <3>4, <3>5, <3>6, <3>7, <3>8 DEF RequestContinues, RequestBegins
  <2>4. \A d \in Clients : api[d].pc \in Ending => api[d].run \in Runs
    BY RunOfRequest DEF Ending, ServiceInv
  <2>5. \A r \in Runs : worker[r].pc # "booting"
    BY DEF AloneInv
  <2>6. QED
    BY <1>3, <2>1, <2>2, <2>3, <2>4, <2>5, AloneFollows
<1>10. QED
  BY <1>5, <1>6, <1>7, <1>8, <1>9

LEMMA ProcessAlone ==
  ASSUME ServiceInv, AloneInv, NEW p \in Procs, ProcessStep(p)
  PROVE  AloneInv'
<1>1. UNCHANGED recordVars
  BY DEF ProcessStep, StartProcess, ServiceReady, ProcessEnds
<1>2. EndsTold
  BY <1>1, RecordsTellNothing
<1>3. /\ \A r \in Runs : worker'[r] = worker[r] \/ worker'[r].pc = "dead"
      /\ \A c \in Clients : api'[c] = api[c] \/ api'[c].pc = "idle"
  <2>1. CASE StartProcess(p) \/ ServiceReady(p)
    BY <2>1 DEF StartProcess, ServiceReady
  <2>2. CASE ProcessEnds(p)
    <3>1. \A r \in Runs : [worker[r] EXCEPT !.pc = "dead"].pc = "dead"
      BY DEF ServiceInv, TypeInv, TypeOK, Worker
    <3>2. Idle.pc = "idle"
      BY DEF Idle
    <3>3. QED
      BY <2>2, <3>1, <3>2 DEF ProcessEnds
  <2>3. QED
    BY <2>1, <2>2 DEF ProcessStep
<1>4. \A c \in Clients : api[c].pc \in Ending => api[c].run \in Runs
  BY RunOfRequest DEF Ending, ServiceInv
<1>5. \A r \in Runs : worker[r].pc # "booting"
  BY DEF AloneInv
<1>6. QED
  BY <1>2, <1>3, <1>4, <1>5, AloneFollows DEF Fresh, Ending

LEMMA AloneStep ==
  ASSUME ServiceInv, OneCaller, AloneInv, [Next]_vars
  PROVE  AloneInv'
<1>1. CASE Next
  BY <1>1, WorkerAlone, RequestAlone, ProcessAlone DEF Next
<1>2. CASE UNCHANGED vars
  BY <1>2 DEF vars, AloneInv, StreamTerminated, IsTerminal, Undispatched
<1>3. QED
  BY <1>1, <1>2

LEMMA AloneInit == Init => AloneInv
<1> SUFFICES ASSUME Init PROVE AloneInv
  OBVIOUS
<1>1. \A r \in Runs : worker[r].pc = "none" /\ events[r] = {}
  BY DEF Init, RecordsInit, NoWorker
<1>2. \A c \in Clients : api[c].pc = "idle"
  BY DEF Init, Idle
<1>3. QED
  BY <1>1, <1>2 DEF AloneInv, StreamTerminated, Ending

\* Where no role may block the coverage and one process serves one request at a time, a
\* worker that is through leaves a terminal row, for any number of runs, directories and slots
\* and whatever its steps raise.  With a second request thread it need not: _wait_for_slot
\* writes queued over a run that was stopped before.
THEOREM EndedWorkersLeaveTerminalRows ==
  OneCaller /\ ~Blocking => (Spec => []EndedWorkerLeavesTerminalRow)
<1> SUFFICES ASSUME OneCaller, ~Blocking PROVE Spec => []EndedWorkerLeavesTerminalRow
  OBVIOUS
<1>1. ServiceInv /\ Clean /\ EndsSeen /\ [Next]_vars => (Clean /\ EndsSeen)'
  BY EndsStep
<1>2. ServiceInv /\ AloneInv /\ [Next]_vars => AloneInv'
  BY AloneStep
<1>3. EndsSeen /\ AloneInv => EndedWorkerLeavesTerminalRow
  BY DEF EndsSeen, AloneInv, EndedWorkerLeavesTerminalRow, Leaving, Over
<1>4. QED
  BY InitService, NextService, EndsInit, AloneInit, <1>1, <1>2, <1>3, PTL DEF Spec

=============================================================================
