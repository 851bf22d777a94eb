----------------------------- MODULE RunRecords -----------------------------
(***************************************************************************)
(* The rows Loopora's processes share through SQLite: one loop_runs row    *)
(* per run, the workdir_locks table, and the lifecycle events of each run  *)
(* stream.  Every operator named after a repository method is one          *)
(* BEGIN IMMEDIATE transaction, so a process can only be overtaken between *)
(* two of them.                                                            *)
(*                                                                         *)
(* A run stream takes no lifecycle event after a terminal one              *)
(* (EventStore!LifecycleAllowed), so the set of its lifecycle events tells *)
(* all a later transaction can read of it.                                 *)
(***************************************************************************)
EXTENDS Naturals, FiniteSets

CONSTANTS Runs, Workdirs, Procs,
          None,     \* no run, no process
          Sites     \* the directory each run works in, and max_concurrent_runs

ASSUME RecordsAssumption ==
  /\ None \notin Runs \cup Procs
  /\ Sites \subseteq [dir : [Runs -> Workdirs], slots : Nat \ {0}]

VARIABLES site,     \* one of Sites, for good
          row,      \* loop_runs: status, stop_requested, runner_pid
          lock,     \* workdir_locks: the run a directory is locked for
          events    \* the lifecycle events of each run's stream

recordVars == <<row, lock, events>>

WorkdirOf == site.dir
MaxConcurrentRuns == site.slots

\* The agent-native plane's awaiting_agent is no status of these runs.
ActiveStatuses == {"queued", "running"}
TerminalStatuses == {"succeeded", "failed", "stopped"}
Statuses == {"absent"} \cup ActiveStatuses \cup TerminalStatuses

TerminalEvents == {"RunClosed", "RunStopped", "RunFailed"}
LifecycleEvents == {"RunCreated", "RunStarted"} \cup TerminalEvents

Row == [status : Statuses, stop : BOOLEAN, pid : Procs \cup {None}]
NoRow == [status |-> "absent", stop |-> FALSE, pid |-> None]

RecordsInit ==
  /\ site \in Sites
  /\ row = [r \in Runs |-> NoRow]
  /\ lock = [w \in Workdirs |-> None]
  /\ events = [r \in Runs |-> {}]

IsActive(r) == row[r].status \in ActiveStatuses
IsTerminal(r) == row[r].status \in TerminalStatuses
Running == {r \in Runs : row[r].status = "running"}
ActiveIn(w) == {r \in Runs : WorkdirOf[r] = w /\ IsActive(r)}
StreamTerminated(r) == events[r] \cap TerminalEvents # {}

-----------------------------------------------------------------------------

\* The event a change to this status appends; going back to queued appends none.
StatusEvent == [queued |-> {}, running |-> {"RunStarted"}, succeeded |-> {"RunClosed"},
                stopped |-> {"RunStopped"}, failed |-> {"RunFailed"}]

\* The lifecycle event update_run owes for this status: none when the row has it already.
EventOwed(r, status) == IF row[r].status = status THEN {} ELSE StatusEvent[status]

\* Fault: the status is written although its event cannot be appended.
UpdateCommitsAlways(r, status) == TRUE

\* A terminated stream rejects the event, and the row update rolls back with it.
UpdateCommits(r, status) == EventOwed(r, status) # {} => ~StreamTerminated(r)

UpdateStatus(r, status) ==
  /\ row' = [row EXCEPT ![r].status = status]
  /\ events' = [events EXCEPT ![r] = @ \cup EventOwed(r, status)]
  /\ UNCHANGED lock

SetRunnerPid(r, p) ==
  /\ row' = [row EXCEPT ![r].pid = p]
  /\ UNCHANGED <<lock, events>>

\* Fault: the transaction inserts without looking for an active run again.
WorkdirIsFreeUnchecked(r) == TRUE

WorkdirIsFree(r) == ActiveIn(WorkdirOf[r]) = {}

CreateRun(r) ==
  /\ row[r].status = "absent"
  /\ WorkdirIsFree(r)
  /\ row' = [row EXCEPT ![r].status = "queued"]
  /\ events' = [events EXCEPT ![r] = {"RunCreated"}]
  /\ UNCHANGED lock

RequestStop(r) ==
  /\ row' = [row EXCEPT ![r].stop = TRUE]
  /\ UNCHANGED <<lock, events>>

\* Fault: the claim does not look at stop_requested.
StoppedBeforeClaimNever(r) == FALSE

StoppedBeforeClaim(r) == row[r].status = "queued" /\ row[r].stop

\* The claim that finds a stop request ends the run itself, without an event.
ClaimSkipsStopped(r) ==
  /\ StoppedBeforeClaim(r)
  /\ row' = [row EXCEPT ![r].status = "stopped", ![r].pid = None]
  /\ UNCHANGED <<lock, events>>

\* Fault: one run too many.
SlotIsFreeOffByOne == Cardinality(Running) =< MaxConcurrentRuns

SlotIsFree == Cardinality(Running) < MaxConcurrentRuns

LockIsFree(r) == lock[WorkdirOf[r]] \in {None, r}

ClaimGranted(r, p) ==
  /\ row[r].status = "queued" /\ ~StoppedBeforeClaim(r)
  /\ SlotIsFree
  /\ LockIsFree(r)
  /\ lock' = [lock EXCEPT ![WorkdirOf[r]] = r]
  /\ row' = [row EXCEPT ![r].status = "running", ![r].pid = p]
  /\ UNCHANGED events

\* Nothing is written for a row that is not queued (the claim answers whether it is
\* running already), nor without a free slot and directory.
ClaimRefused(r) ==
  /\ ~StoppedBeforeClaim(r)
  /\ row[r].status = "queued" => ~(SlotIsFree /\ LockIsFree(r))
  /\ UNCHANGED recordVars

\* Fault: the pid is cleared and the lock stays.
ReleaseKeepsLock(r) ==
  /\ row' = [row EXCEPT ![r].pid = None]
  /\ UNCHANGED <<lock, events>>

ReleaseRunSlot(r) ==
  /\ lock' = [w \in Workdirs |-> IF lock[w] = r THEN None ELSE lock[w]]
  /\ row' = [row EXCEPT ![r].pid = None]
  /\ UNCHANGED events
=============================================================================
