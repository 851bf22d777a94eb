# Loopora: verification

Loopora runs *Loops*: a task, a working directory and a strategy of roles (builder,
inspector, GateKeeper, ...) that are executed iteration by iteration until a verdict
closes the run. What a run did is kept twice: as an append-only stream of domain events
with append invariants ("the kernel"), and as rows of SQLite tables that several processes
share. What its steps reported is folded from an evidence ledger into the coverage of the
run's targets, on which verdicts rest. A run is executed either by Loopora's own worker or by
a host agent that asks for one step after the other ("agent-native"). Loops themselves come
out of a dialogue with a planning agent (an alignment session) as a *bundle*: one document that
is imported into a loop, an orchestration and its roles. This directory holds TLA+
models of these parts, the TLC instances that check them, and TLAPS proofs about all of them.

Source paths below are relative to `src/src/loopora/` unless they start with `src/tests`.

## 1. Inventory

| Component | State it keeps | Operations | Hard behaviour | What makes it correct |
|---|---|---|---|---|
| Event store and append invariants (`db_domain_event_records.py`, `events/run_event_invariants.py`, `events/invariants/`) | `domain_events`: one ordered stream per run | append one event, append a batch in one transaction | clients hold causation ids and payloads computed from a stream that has grown since | one end per lifecycle; one answer per submission; no pass without evidence; a closure, gap or risk belongs to the newest verdict |
| Event transactions (`events/run_*_event_transactions.py`) | none | step submission, claim, evidence, verdict batches | atomicity of a batch against a concurrent append | each event of a batch is accepted on top of those before it |
| Run table, slots and directory locks (`db.py`, `db_runtime_state.py`, `db_run_slots.py`) | `loop_runs` (status, stop_requested, runner_pid), `workdir_locks`, the lifecycle events of a run | create_run, update_run, request_stop, claim_run_slot, release_run_slot | processes overtake each other between any two transactions | one run at work per directory, at most `max_concurrent_runs`, a terminal row stays terminal |
| Run lifecycle service (`service_run_lifecycle.py`, `service_run_start.py`, `cli_run_support.py`, `cli_root_commands.py`, `service_app.py`) | `_process_active_runs` of each process | start, start in a thread, spawn a worker process, stop, rerun | requests of several threads and processes about one run | a stop request ends the run; a run has one worker |
| Recovery (`service_run_recovery.py`) | none | reconcile stale runs at start-up, orphaned ones on each request | decides on rows listed earlier; the worker may be alive | never ends a run under its worker, never rewrites an outcome |
| Finalization (`service_run_finalization.py`, `service_runner_failure_handling.py`) | run files, summary | issue the verdict, then write the terminal status | the verdict is refused, or the status is; exceptions inside handlers | a worker that is through leaves a terminal row |
| Headless runner (`service_runner_execution.py`, `service_role_execution_lifecycle.py`, `service_runner_*`) | the worker's own run state: iteration, stagnation, counts of fired controls | wait for a slot, iterate, execute steps and groups, retry roles, fire controls, hand over to finalization | stop requests and failures between any two steps of several threads | each step once and in order; success is earned; a stop is not swallowed; every worker gets through and gives slot and directory back |
| Run engine (`engine/`) | none of its own; reads the stream, then appends | claim_step, submit_step, record_step_evidence, issue_verdict, advance_run, start/stop/fail_run | reads before the appending transaction (check-then-act); several transactions per command | a step is committed once; its evidence follows; a verdict speaks of the latest coverage |
| Replay and projection cache (`events/replay.py`, `events/projection_cache.py`) | cached snapshot and its source sequence | replay, rebuild, read | a cache rebuilt after the append, compared in two reads | a cached snapshot equals the replay of the stream at its sequence |
| Evidence and verdict engines (`evidence_coverage.py`, `engine/evidence_engine.py`, `engine/verdict_engine.py`, `task_verdicts.py`) | the evidence ledger of a run; the projections are pure | fold the ledger, coverage of targets, buckets, verdict | reports about a target in any order, repeated ids, two verdict engines whose results are merged | the last decisive report decides; a pass needs every check supported or its risk managed |
| Agent-native plane (`service_agent_native*.py`, `agent_native_state.py`, `agent_native_parallel_groups.py`) | `state.json` of a run; only submissions take its file lock | prepare, next, submit | host processes claim and submit while others do, while the run is stopped, and die in the middle | a step is committed once and in the strategy's order; a group sees the same inputs; the run ends |
| Alignment services (`service_alignment*.py`, `db_alignment_records.py`) | the row of a session, its transcript, `bundle.yml`, `_threads` of each process | create, message, cancel, sync, import, start a Loop, delete; the round in the background | rounds run in threads of several processes and write the row without conditions; a dead round's status | one round at a time; no bundle without a confirmed agreement; what was said is kept |
| Bundles (`service_bundle_*.py`, `db_bundle_graph_records.py`) | `bundle_definitions`, `bundle_asset_ownership`, the rows of the assets, the managed directory with `spec.md` and `bundle.yml` | import, replace, delete, edit the spec or a role | an import is many transactions and file writes, nothing serializes two operations on one bundle, runs start meanwhile | the row names a whole graph it owns; nothing is left over; an active run keeps its loop; the files follow the row |
| Compiler, strategy source | none | parsing and normalization | - | documents are normalized |
| Executors and process streams | child processes | run an external agent | timeouts of the child | the worker sees an outcome or an exception |
| Agent adapters, diagnostics | managed files, logs | install, check, redact | - | - |
| CLI presenters and web UI | none | rendering and routing | - | - |

Interactions: the CLI and the web server call the lifecycle service; the service writes rows
and starts workers (threads, or `_execute-run` processes); a worker polls the run table for
its slot, calls the engine for each step, and finalization at the end; engine and
finalization append to the stream, whose invariants may refuse; refusals come back as
`ValueError` and change the path of the worker.

## 2. Modules

| Module | Models | State | Actions |
|---|---|---|---|
| `EventStore` | the append invariants as operators over a sequence: `Accepts(log, e)` is `require_run_event_append_invariants` | - | - |
| `RunStream` | a run's stream with an arbitrary client | `log` | one append action per family of events |
| `RunRecords` | one operator per `BEGIN IMMEDIATE` transaction on the run table | `site`, `row`, `lock`, `events` | - |
| `RunService` | the processes that execute, stop and recover runs; composes `RunRecords` | plus `proc`, `active`, `worker`, `api`, `evidence` | one per transaction or in-memory step |
| `RunSlots` | abstract specification: who may be at work | `stage`, `stopped` | `AskStop`, `Enter`, `Leave` |
| `EvidenceCoverage` | the fold of the evidence ledger into coverage (`build_evidence_coverage_projection`) | `ledger`, `rows`, `latestGatekeeper` | `Collect`, one pass of the loop |
| `RunVerdict` | from a step's result to the verdict that closes the run; composes `EvidenceCoverage` and `EventStore` | plus `policy`, `stage`, `log`, `lastVerdict`, `closed` | `Write`, `Record`, `Note`, `Close` |
| `RunReplay` | replay of a stream, the current step, the step cursor, the submission guard, as operators over a sequence | - | - |
| `HeadlessRunner` | the worker of a headless run from its claim to its outcome; composes `RunReplay` | `row`, `log`, `main`, `job`, `fired`, `judged`, `stalled` | the steps of the worker's thread, of each role's thread, `RequestStop` |
| `AgentNative` | CLI processes of a host agent around `state.json`; composes `RunReplay` and `EventStore` | `log`, `row`, `file`, `lock`, `handed`, `cli`, `past` | one per transaction, file read or file write |
| `ProjectionCache` | the projection cache between writers and readers | `stream`, `cache`, `writer`, `reader` | one per transaction |
| `ProjectionReads` | abstract specification: what a reader may be answered | `length`, `asked`, `answer` | `Append`, `Ask`, `Answer` |
| `AlignmentSession` | one alignment session between its callers and its rounds | `row`, `file`, `round`, `threads`, `call`, `made`, `past` | one per transaction, file access or process step |
| `BundleGraph` | one bundle, its assets and its directory between its callers | `row`, `owned`, `asset`, `disk`, `use`, `call`, `made`, `past` | one per transaction or file access |
| `RunStreamProofs`, `RunServiceProofs`, `RunVerdictProofs`, `HeadlessRunnerProofs`, `AgentNativeProofs`, `ProjectionCacheProofs`, `AlignmentSessionProofs`, `BundleGraphProofs` | theorems about the module they are named after; `RunVerdictProofs` also about `EvidenceCoverage` | | |
| `MC...` | instances for TLC | | |

**EventStore, RunStream.** An event is one record; its id is its position. A field that its
type does not carry holds a neutral value. Payload text and counts are abstracted to what
the invariants relate: step and iteration, evidence ids, coverage status, gap statuses,
verdict status, whether the residual risk is managed. The client of `RunStream` offers any
event of its constants with any causation id (an earlier event, none, or one the store does
not know), so everything that holds does so because of the store alone.
Each of its `Starts` gives a first log, the event types and verdicts that may follow and a length.
`AcceptedExtension` is a whole batch: each of its events is accepted on top of those before it.

**RunRecords.** `row`, `lock` and `events` are the columns, the lock table and the set of
lifecycle events of each run. The set is enough: a terminated stream takes no lifecycle event
any more. `UpdateCommits` is the rollback of `update_run` when its event is refused.
`claim_run_slot` has four outcomes (`ClaimSkipsStopped`, `ClaimGranted`, two refusals). `site` is
the directory of each run and `max_concurrent_runs`: chosen at the start, never changed.

**RunService.** The pc of a worker names the place between two transactions:
`booting` (spawned process, service not yet built), `marked` (in `_process_active_runs`),
`registered` (pid written), `polling`/`claiming` (`_wait_for_slot`: look at the stop flag, then
claim), `claimed` (granted, status update pending), `working`/`stepping` (iterations),
`judging`/`recording` (the two halves of `_finalize_terminal_run`), `crashing`
(`_finalize_crashed_run`), `leaving`/`releasing` (`_cleanup_run_execution`). The
pcs of a request follow `start_run` and dispatch, `stop_run` and the two recoveries in the same
way. An exception goes where the code's `try` blocks send it: `Raise` tells a body (caught,
`crashing`) from a handler (`leaving`). `evidence` is what finalization reads: a blocked
coverage without a GateKeeper verdict makes the store refuse a verdict that is not blocked.
`ProcessEnds` takes all threads of a process down at once; a mortal process may do so
at any moment.

**EvidenceCoverage.** A rebuild of the coverage folds the ledger from its first item on, and
the ledger only grows. So one `Collect` appends an item and makes the pass of the loop for it,
and every state is what a rebuild of its ledger returns. An item keeps what the fold
distinguishes: its id, whether its role is the GateKeeper, what makes it support a claim, the
evidence it cites, and one report per target. `FinishedRow` is `apply_gatekeeper_target`,
which runs after the loop on the latest verdict only; `OverallStatus` is the status of the
whole. Reports go by kind (positive, weak, missing, negative, or a word the fold does not
know), not by wording. Artifacts of a target row, texts and counts are left out.

**RunVerdict.** A submission is three transactions of its own: the item in the ledger with the
coverage recomputed (`Write`), evidence and coverage in the stream (`Record`), the
GateKeeper's output in the row (`Note`); it may be cut off after each, and the next step begins
with another `Write`. The evidence gate of `validate_gatekeeper_output` (`GateLetsPass`) decides
what a GateKeeper's item says. `Close` stands for everything that ends a run:
`PublicStatus` is `task_verdicts.py`, `KernelPasses` and `Gaps` are
`engine/verdict_engine.py` with its adapter, `EventVerdict` is their merge in finalization, and
`EventStore!AcceptedExtension` takes it or refuses. `policy` is the spec's residual-risk policy, which
the two engines read differently. Statuses are the kernel's words.

**RunReplay, AgentNative.** What a reader makes of a stream is a function of the stream; who
reads which stream, and when, is the business of `AgentNative`. A CLI process is a
program counter with the values it has read: a `prepare`, a `next` or a `submit` with the
`next` nested in it. `file` is `state.json`, which may be torn if its writer dies.
Only `submit` takes `lock`; `next` and `prepare` read and rewrite the file without it. The batch
of one transaction is one event. The host is the set `handed` of the step views it was given:
it may submit any of them, as often as it likes. The store may refuse evidence or a verdict
(`Refused`): the event is rolled back, and since nothing in this plane catches the error the
process ends there, with the step committed or the run exhausted and the row as it was. `past`
records what the promises exclude: a write cut short, a claim that ran beside another call, a
committed pass whose own submission got no further, an exhaustion whose verdict was refused.

**HeadlessRunner.** `main` is the worker's own thread (`_run_runner_iteration`): the
iteration, the index in the strategy, the step or group under way, the controls still to be called
(`queue`, a set with the strategy's order on it) and the one being called (`calling`).
`job` is the execution of each step and control in its thread: claim, attempts, child process.
The results of a group are awaited in the order of its steps, and the controls of a failed one run
while its siblings go on; the pool is left only when every thread has ended (`ThreadsJoined`). A
stop is a `BaseException`, so no handler of a control catches it (`ControlHalts`); other errors of
a control go on if it is blocking (`ControlRaises`). `StepCommitted` stands for the batch of a step
and the evidence transaction after it (`CommitFails`: the first without the second). Replays are
those of `RunReplay`; `log` keeps the snapshot beside the events so that it is not recomputed.
`max_role_retries = 0` means no limit. The outcome is written last, and may fail to be
(`FinalizationFails`): the verdict is issued before the row is updated, and the store may refuse
it. Out of the body of the runner the error goes to the crash handler, which updates the row
first; out of an `except` clause (`Handled`: a stop, a failed role, an unsafe workspace) it leaves
the worker, and the row stays running. Left out: the check planner before the first iteration,
`max_iters = 0` (iterations without end), the pause between iterations, sessions, prompts, files.

**ProjectionCache, ProjectionReads.** What a projection shows is named by the length of the
prefix it was replayed from. `update_run` appends and rebuilds in one transaction,
`append_run_event_and_rebuild_projection_cache` in two. A reader reads the latest sequence
and then the records one by one, and rebuilds what it finds stale. The abstract
specification knows neither cache nor rebuild: an answer is the replay of a prefix that is at
least as long as the stream was when the call began.

**AlignmentSession.** The row is read by every operation and updated later without a
condition. A round is a thread (or the CLI process itself) that runs the planning agent, files
the answer, writes `bundle.yml`, validates it, and repairs it once. A status of the source is a
status here; the working agreement is reduced to none, proposed or explicitly confirmed,
a bundle to valid or not, the transcript to a counter per entry. The child ends before its pid is
taken from the row (`reaped`, then `ClearChild`), and a cancellation reads the pid, sets the flag
and signals the pid it has read in three steps (`BeginCancel`, `RequestStop`, `SignalChild`). `past`
records crossings and deaths, which the promises exclude.

**BundleGraph.** A graph (the loop, the orchestration and the role that one import creates) is
known by the identity of that import, a text by the identity of the import or edit that brought
it. The copies the code keeps of one text are told apart: the role definition (`role`), the
orchestration's copy (`told`), the loop's contract (`spec`, `snap`), `spec.md`, and `bundle.yml`
with the loop it was derived from. A caller is a program counter with the row, texts and backup it
has read. Any step of an import before its commit may raise (`FailImport`), and so may what follows the
commit (`FailAfterCommit`). The rollback is a sequence of transactions of its own, which begins, over
a commit, with the old links written back (`RestoreRow`) and may itself be refused a deletion
(`Undo`), fail to put the directory right (`Torn`) or give up at once. An edit of a role that fails sets the role back and takes the
snapshot again. A user is a run of the loop or a loop elsewhere that takes the orchestration. One
step each: the reads of the preflight, `get_bundle` with the snapshot's own read of the row, the
creation of a loop elsewhere. Role edits change the prompt. `past` records edits that cross an
import or a delete, overlaps, deaths, a rollback that was refused a deletion, one that took back a
committed import, and a directory not put right.

## 3. Runs

Every property of a passing run has a mutant: an operator next to the definition it replaces,
marked "Fault", that makes the property fail in the same configuration.

| Run | Instance | Shows |
|---|---|---|
| `stream` | 2 steps, 2 evidence ids with 4 payloads; three starts: a run that has started (8 events), a new one (6), one with weak coverage (8), each with the events of its family | a submission is answered once, every strategy advance traces back to one unrejected submission, gaps belong to the verdict in force; no pass and no closure without accepted evidence and passable coverage, no way around a blocked coverage |
| `service_directory` | 2 mortal processes with a client each, 2 runs, 1 directory | `RunService` implements `RunSlots` (runs of one directory exclude each other, none claims after its stop); nobody ends a run under its worker; outcomes stay |
| `service_alone` | 1 immortal process, 1 client, 2 runs, in 1 directory or in 2 with 1 slot, fairness | every worker gets through, leaves a terminal row and gives the directory back; the slots are never exceeded |
| `headless` | 4 steps, two of them a group, 4 controls, 2 iterations, limit of 1 retry or none, fairness | each iteration does its steps once and in order; success is earned; a run over which a role saw a stop is stopped; the run ends, unless a stop, a failed role or an unsafe workspace cannot be finalized |
| `stop_race` | 1 process with 2 request threads, 2 runs (violation) | finding 1 |
| `verdict` | 1 check, 1 advisory target and the finish target, 9 kinds of item, ledgers of 4, submissions cut off anywhere, 3 policies | the fold agrees with the reading by history; a passable coverage rests on supporting evidence; a rejection blocks; a pass is earned; what the store refuses of the engines' verdict has one of three causes |
| `rounds_evidence` | the same in rounds mode (violation) | finding 2 |
| `native_calls` | 3 steps, two of them a group, 2 iterations, 2 calls at a time, 1 death, also in the middle of a write, or 1 refused event | each step is committed once and in order; the group's inputs, the resume point and a GateKeeper's pass are kept |
| `native_ends` | 2 steps, 1 iteration, 1 call at a time, a stop, 3 deaths or refused events, fairness | the run ends, in the row and in the stream alike, unless the verdict of its exhaustion is refused |
| `cache_reads` | 2 writers that may die, 2 readers, 2 projections, 4 events | `ProjectionCache` implements `ProjectionReads` |
| `alignment` | 1 thread of the server and the CLI, 2 rounds, 2 messages, a death, fairness | the status tells at every moment whether a round is at work; nothing said is lost; no bundle unconfirmed or unvalidated; a recorded pid has its executor; a cancellation ends the round |
| `bundles` | 2 callers, 3 graphs or texts, 1 run, failures of every step of an import and after its commit, a death or a refused deletion | the row names a graph it owns, a whole one unless a committed import was undone; what it does not name is gone; an active run keeps its loop; spec, contract, copies and `bundle.yml` agree, whatever failed before a commit |

**Bounds.** `length` of a start (events in its stream): the longest chain any invariant looks at
(submission, acceptance, commit, advance) is four events, and a conflicting fifth and sixth fit
beside those of the start; the theorems hold for every length. Two runs: every guard of the tables
compares a run with one other, or with a count that a slot limit of one makes binding. Two
processes: the rows tell only one's own pid from another's. `MaxIters = 1` in `RunService`: an
iteration begins, ends and the next one is refused. Each run is created once (a rerun is another
run of the set). `OneDirectory`, `OneSlot`, `EitherSite` are the sites of an instance. Symmetry exchanges the two runs (with their directories), the CLI slots or the
callers of a bundle, and is not used under liveness.

`MaxItems = 4`: an item that supports, a report that covers, one that blocks, and one that
recovers or weakens; the theorems hold for every length and every set of items. `MaxUnrecorded
= 1`: one item of the ledger never reached the stream. The items of the instance are such as
`build_step_evidence_entry` writes: a failed step reports its target as failed, a GateKeeper
verdict is `passed` or `blocked`.

`headless`: in two iterations the cursor wraps, the counts of fired controls carry over and a stop
or a stagnation of the first meets the second. The group has two members: one fails or stops
before, beside or after the other. There is a control for each signal, and advisory and blocking
ones of those a failed role sends. Limits of retries 0 and 1: attempts without an end, and one that
is the last but not the first.

`MaxCrossed = 3` (`native_calls`): the call by which a claim comes to run beside another, and every
call after it, begins on a stream of fewer than three events (`Len(log) < MaxCrossed`); submissions
overlap without a limit. `MaxFaults` bounds deaths and refused events together. Two iterations: the cursor
wraps once, the group's snapshot is replaced once. `MaxEvents = 4` (`cache_reads`): a stream grows
before, between and after a reader's reads, and fills the page (`PageLimit = 4`) without
outgrowing it. `MaxMessages = 2`, `TalkCycle = 3` (`alignment`): an agreement is proposed and
confirmed, a further message follows a ready bundle; the transcript's counter tells an entry from
the one before and the one after it. Cancellations cross every operation, other operations cross
at most once, and a behaviour has a crossing or a death, not both. One cancellation is under way at a
time. `MaxIds = 3` (`bundles`): two
imports cross while a third graph, the one they replace, stands; or an edit brings a text between
them. `LastFault = 1`: a process dies, or a deletion or a directory is refused, during the first
import or what follows it, and the next operations find what that left; an import may fail, after
its commit too, at any time. One bundle: two meet only where one takes the other's assets, which
a user stands for; one role for all, which an import creates and removes one by one in the same
way.

**Fairness.** Nothing obliges a user to start, stop or recover anything, a process to exist, or
an iteration to succeed.

- `service_alone`: weak fairness of each worker, a thread whose next transaction is always
  enabled; one that waits for a slot polls in a loop, which is fair in the same sense. Weak
  fairness of a request that has begun. A step's own work is assumed to end or to raise. Deaths
  are left out: a process that dies between its terminal status and `release_run_slot` leaves its
  directory locked, because recovery looks at active rows only.
- `headless`: weak fairness of the worker as a whole: some thread of it goes on, whichever. A role
  ends: it answers, fails, or falls silent and is killed by the idle timeout; one that talks for
  ever is assumed away. Without a limit of retries a role may fail for ever, so the run must end
  only if retries are limited or a stop was requested.
  When its finalization fails in an `except` clause the worker ends without an end of the run: the
  property says so.
- `native_ends`: weak fairness of a process that runs; strong fairness of asking for the next step
  and of submitting the one last handed out: Loopora never takes a step by itself in this plane, so
  a run ends only if its host goes on. Strong, because other calls of the host take its slot.
- `alignment`: weak fairness of a round's next step, and of the executor that sees the
  cancellation (it polls the flag while the child runs and kills the child).

**Conditional promises.** `GroupSeesTheSameInputs`, `ResumePointNeverGoesBack` and
`PassEndsTheRun` say what holds as long as claims run alone, the last one of every pass whose own
submission was not cut off by a death or a refusal (calls that crossed may have exhausted the run
as failed before it); `RunEnds` and `HeadlessRunEnds` except a verdict refused where nothing catches it;
`CommitsFollowTheStrategy` does so for iterations after the first;
`ConfirmedBeforeBundle`, `StatusTellsTheRound` and their kin hold while no two operations but
cancellations have crossed and nobody has died in a round; `RowNamesItsGraph` and
`NothingLeftOver` hold unless an edit has crossed an import or a delete. The first also needs that no
import was undone after its commit (the row still owns what it names); the second that nobody
died, no rollback was refused a deletion, and no such undone import overlapped another operation.
`FilesFollowTheRow` holds unless operations have overlapped or died, an import was undone after its
commit or a directory could not be cleared, `UsedGraphStays` for what was in use before the operation
began, and unless an edit has crossed an import or a delete. Each exception is a conjunct in the
property, and each is needed: section 6.

**Witnesses.** Configurations that no run lists fail on purpose, each on one formula that the code
does not keep (or hold by hand): `MCAgentNativeTwice`, `MCAgentNativeNoEvidence`,
`MCAgentNativeTorn`, `MCAgentNativeWedge`, `MCProjectionCacheLong`, `MCRunServiceNoStart`,
`MCRunServiceNoEnd`, `MCRunServiceBlocked`, `MCEvidenceCoverageFinish`. They are the
counterexamples behind section 6. `MCEvidenceCoverage.cfg` is a larger instance of the fold alone
(17 kinds of item), which holds, `MCRunServiceSlots.cfg` one of the service (two processes that die,
two directories, one slot), which implements `RunSlots` too, and `MCBundleGraphShared.cfg` one of the bundle with a loop
elsewhere in the place of the run and the type invariant, which holds too. Formulas that hold in
the instances and are not listed, since a deeper one or a theorem covers them:
`RiskOfTheVerdictInForce`, `LockHolderIsLive`, `OneActiveRunPerWorkdir`,
`EvidenceFollowsItsCommit`, `TerminalRowIsFinal` with a single request thread, `TerminalIsFinal`
(`stream`), `CoveredRefsAreCurrent` (`verdict`), `CacheNeverGoesBack` (`cache_reads`; these three
are proved), and the type invariants, which are all proved.

**Assumptions that are part of the model.** Recovery does not look at a run whose first pid is
about to be written (`InFlight`): the grace of at least 30 seconds outlasts that interval.
One worker per run: `execute_run` is called by the dispatch of the run only. Process ids are not
reused. The status `awaiting_agent` belongs to the agent-native plane and does not occur in
`RunService`. A CLI process that dies gives its `flock` back.

**Two lines of defence.** That runs of a directory exclude each other rests on `create_run` (one
active row per directory) and on the lock (one claim per directory). Breaking the first alone is
caught by `OneActiveRunPerWorkdir`, breaking the second by `SlotsKept`.
The GateKeeper's evidence gate (`GateLetsPass`) can be weakened without breaking
`PassIsEarned`: a pass that cites no support leaves the finish target blocked (`FinishedRow`), and
the coverage with it.

## 4. Proofs

`RunStreamProofs` proves, for all steps, iterations, evidence ids, offers and stream lengths:

- `StreamWellFormed`: every event of a reachable stream was accepted on top of its prefix. This is
  the inductive invariant (`StreamInv`): the single promises below are not inductive by themselves
  (that a commit traces to an unrejected submission depends on what was checked when the
  acceptance was appended), but each follows from it alone.
- `StepResultsOnce`, `AdvancesTraceBack`, `NoUnsupportedPass`, `BlockedCoverageBlocks`,
  `ClosuresAreSupported`, `FollowUpsOfTheVerdictInForce`: all properties of the `stream` run (the
  last one also gives `RiskOfTheVerdictInForce`). `TypeCorrect` and `LifecycleEndsOnce`
  (at most one end, and no lifecycle event after it) are proved only.

The argument of each is the same: take the later of the two events a promise relates; when it was
appended its prefix already held the earlier one; acceptance looked for exactly that one. An
advance is followed back this way over its commit and acceptance to the submission.
The assumptions are `NamesAssumption`, `OfferAssumption` and `InitLogAssumption`, which TLC
evaluates in that run.

`RunServiceProofs` proves, for any number of runs, directories, slots, processes and clients
(`RecordsAssumption`, `ServiceAssumption`):

- `SlotHeldWhileExecuting` (`ExecutingHoldsSlot`): a worker that executes steps has a running row
  and holds its directory, whatever requests and recoveries do meanwhile;
- `ServiceKeepsSlots`: the service implements `RunSlots`, initial states and every step;
- `OutcomesAreFinal`: no step rewrites a row that has succeeded or failed; and `ServiceTypes`;
- `EndedWorkersLeaveAnEnd`: a worker that has ended has left an end in the row or in the stream,
  while no role blocks the evidence coverage (`~Blocking`; where one does, the run is left as it
  is: configuration `MCRunServiceBlocked`);
- `EndedWorkersLeaveTerminalRows` (`EndedWorkerLeavesTerminalRow`): it is in the row, when besides
  one process serves one request at a time (`OneCaller`), as in the run that checks it. With two
  requests it is false: `stop_race`.

A property that only looks at rows and locks is not inductive: recoveries and stops act on what
they read several transactions ago. The invariant `ServiceInv` therefore says what each such
decision still knows. A run has one worker, made by the client that created its row
(`CreatedOnce`, `PidOfWorker`); a row without a pid, or one whose pid is dead, has a worker that is
past its steps (`ListedRows`, lemma `RecoverableIsSettled`); whoever is about to end the run does so
on a stop requested before the claim, or over such a worker (`DecisionsAreSafe`); nobody but the
claim writes `running` (`NotRunningBefore`); an outcome is in the stream as well, so that
`update_run` cannot follow it by another (`OutcomesOnRecord`). The last two theorems add what a
worker still owes at each place on its way out, and that with one caller nobody ends a run whose
worker has not yet written `queued`. Most steps do not touch a row, a lock or an executing
worker; `StepIsQuiet` deals with them at once.

`RunVerdictProofs` proves, for all sets of targets and items and ledgers of any length
(assumption `CoverageAssumption`), that the fold of `EvidenceCoverage` keeps its types
(`CoverageTypeCorrect`), that
the status it keeps incrementally is the one the last decisive report of the whole history
gives (`StatusIsHistory`), that a covered target cites current support only
(`RefsAreCurrent`), that a rejection blocks (`RejectionBlocks`), and that under a passable coverage
every check cites an item that supports it (`PassableIsSupported`). What an item said is read
from the prefix of the ledger that ends with it, so later items do not change it
(`HistoryIsStable`); `RowByLastItem` says what one pass does to a row. With these, type
correctness and the statement itself are inductive; the last theorem follows from
`RefsAreCurrent` without an induction of its own.

The larger system changes nothing about the fold: every step of
`RunVerdict` is a step of `EvidenceCoverage` or leaves its variables alone
(`VerdictsKeepTheFold`), so the theorems above hold of it too. `PassesAreEarned` (property
`PassIsEarned`): a run that is closed by an accepted pass has a ledger in which every check cites
an item that supports it, and the stream an accepted evidence. Its invariant `VerdictInv` has four
parts: the types; a noted verdict is the one of the latest GateKeeper item (`NotedVerdict`); as
long as nothing is closed the stream holds only evidence and coverage events (`OpenStream`); a
passing verdict that closed the run was reached on the coverage as it still stands, and an
accepted one cites accepted evidence (`ClosedVerdict`). `PassableIsSupported` then gives the
support. `RefusalsAreExplained` (property `RefusalIsExplained`) is the converse: in gatekeeper
mode the merged verdict of the two engines is accepted, with each of its gaps and risks, unless
evidence was written but not recorded, a target is blocked that no verdict judged, or the policy is
the bare "none". It compares the two engines bucket by bucket and follows the batch event by event
through the store's invariants. The assumptions are `CoverageAssumption`, `UnrecordedAssumption` and
`VerdictsDecide` (a GateKeeper's item says passed or blocked, as `_gatekeeper_handoff` writes it).

`HeadlessRunnerProofs` and `AgentNativeProofs` begin with the lemmas on replay and cursor they need,
for every stream and strategy:
the replay of a stream is a recursive function, which exists (`ReplayExists`) and goes on with the
next event (`SnapshotOfOneMore`). Both are shown by the least place at which they would fail,
since the induction theorems are out of reach.

`HeadlessRunnerProofs` proves, for every strategy with its groups, every set of controls, number of
iterations and limit of retries (`StrategyAssumption`, `RunnerAssumption`): `StepsInOrder`,
`SuccessesAreEarned`, `StopsAreSeen` (the three safety properties of the `headless` run) and
`HeadlessTypes`. The invariant `HeadlessInv` describes all threads from the place of the worker's
own: while it goes from step to step nobody else stirs, while it awaits a group only the members
it has not come to do (`StepsFollow`); once something is wrong, the step it stands at says what
(`TroubleIsHere`), and a control that saw a stop or broke is what it leaves with
(`ControlsFollow`). `Progress` gives for each place exactly the steps committed so far: those of
earlier iterations and the first n of this one. The order of the commits follows, and that the
cursor recomputed from stream and projection is the loop's own index (`CursorIsIndex`).
`SuccessRests` keeps what a success was reached over as the end of the stream until the row is
written; `RowFollows` says that it is written last, or, out of a handler, not at all.

`AgentNativeProofs` proves, for any number of CLI processes, steps and iterations
(`StrategyAssumption`, `NativeAssumption`, and for the groups `GroupsAssumption`: the members of a
group stand together in the strategy, which `validate_parallel_group_contiguity` enforces):

- `StepsCommitOnce` (`StepCommittedOnce`) and `RowsEndWithStreams` (`RowEndsWithItsStream`), with
  the types (`NativeTypes`), by the invariant `OnceInv`: whoever is past the first read of a
  submission holds `submit.lock` (`LockHeld`), so nobody else commits between the guard's read of
  the events and the commit (`GuardsHold`), whatever the state file says;
- `CommitsInOrder` (`CommitsFollowTheStrategy`), by `OrderInv` on top of it. Most of what a
  process knows is monotone: that all steps before some place are committed stays true while the
  stream grows. So every state ever read or written, every view handed out and every instruction
  in the stream carries such a promise (`StatesReached`, `TurnsKept`, `ToldInTurn`), and a late or
  repeated submission can do no harm. What is not monotone, that the step about to be told of is
  *not* yet committed (`ToldOnce`), holds only while a claiming process is alone with submissions
  that wait for the lock (`Apart`); hence the exception in the property;
- `ResumePointsGoOn` (`ResumePointNeverGoesBack`), by `ResumeInv`: nobody holds a state that is
  behind state.json, the file is broken off only while somebody writes it, and a step just committed is
  not behind the state that will be told of it;
- `GroupsSeeTheSame` (`GroupSeesTheSameInputs`), by `GroupInv`: as long as a group has members to
  come, every state that can still claim one knows the snapshot its earlier members were given
  (`Knows`); a group that is done is never claimed again, since the guards and the cursor see its
  commits;
- `PassesEndRuns` (`PassEndsTheRun`), by `PassInv`: as long as claims have run alone, a run fails
  only over iterations that are all done, so nobody has a result to bring by then
  (`NothingBroughtLate`); whatever crosses, who has committed a pass carries it to the end of the run
  (`Carrying`), or drops it by a death or a refusal of its own. A refused update of the row means that
  the run was ended before.

All actions of a process are first reduced to one description of a step (`StepsAreSuch`): where a process
may come from, what it carries over, what it may write. The last three theorems look at two more:
what it does with the state it holds (`StepsMoveOn`: it rests, loads, walks, updates, begins or
ends a write, or answers), and with a result (`StepsBring`). The preservation proofs use only these.

`ProjectionCacheProofs` proves, for any number of writers, readers and projections: types
(`CacheTypeCorrect`), that no record goes back (`CacheGrows`), and that `ProjectionCache`
implements `ProjectionReads` (`CacheImplementsReads`) under the assumption that `MaxEvents <=
PageLimit`: past one page the refinement is false (section 6). The invariant `CacheInv` says that
a record shows the prefix its sequence names, that no sequence exceeds the stream, and that what
a reader has read is at least as long as the stream was when it began.

`AlignmentSessionProofs` proves, for any number of callers, rounds, messages and process ids
(`AlignmentAssumption`; `OutputAssumption`: what the agent may answer is an answer), all six safety
properties of the `alignment` run and the types: `StatusGuardsTheRound`, `BundleNeedsConfirmation`,
`TranscriptIsWhole`, `ReadyIsValidated`, `RepairsAreOnePerRound`, `PidsEndWithExecutors`,
`SessionTypes`. Every
operation checks the status first and writes the row later without a condition. So the invariant
`Calm`, which holds until two calls cross, says what each round and each call still knows when it
comes to write: at most one call is served and one round at work (`OneCall`, `OneRound`), a call
that has found no round at work finds none later (`CheckHolds`), a round has the transcript as
it stands, carries a bundle only under a confirmed agreement, and counts its invocations as
the row counts its repairs (`RoundFine`). That the recorded pid belongs to a round that is still in
its executor, its child running or reaped a moment ago, holds whatever crosses (`Child`): a row that
is deleted loses its pid with it, and nobody but the executor writes one.

`BundleGraphProofs` proves, for any number of callers, users and graphs (`BundleAssumption`), all four
safety properties of the `bundles` run and the types: `RowKeepsItsGraph`, `NothingIsLeftOver`,
`FilesAgreeWithTheRow`, `UsersKeepTheirGraph` (an action property), `GraphTypes`. The invariant has
layers, one for each kind of exception the properties make:

- `Basics`, whatever crosses: the bundle owns exactly what its row names, a graph being built is
  its import's alone, no reference points nowhere;
- `Parted`, until an edit crosses an import or a delete: who takes up a graph that an import or a
  delete may take away is late (`Spared`);
- `Apart`, until besides an import is undone after its commit: the row's graph is whole, an edit
  still edits it, and every asset belongs to the row or to an import at work (`Accounted`);
- `Alone`, until operations overlap or die, or one of those two faults happens: files, copies and
  rows as each place of an operation finds them, among them the backup that a rollback will put back;
- `Serial` and `Wrecked`, for operations that do not overlap: what one has committed is the row, and
  after an import undone over its commit nothing is left but what its rollback is about to delete.

Every step of a caller is first brought into one form (`CallersMove`: what it may do to its own record
and to row, assets and users); the first three layers are preserved by that form alone, `Alone` by
a lemma for each place.

Every safety property of a passing run is stated by one of these theorems. Only model-checked is
every liveness property (fairness and ENABLED are out of reach of the prover).

## 5. Hazards without a property

They are listed with their line and a note in `PROJECT.json`. In each case the code does not keep
the promise one would state, so that there is nothing to check in a passing run: a directory
locked after a death, streams of more than one page, an alignment session whose round died, two
starts of a session that cross. A run that starts between a bundle's preflight and its erasing
transaction is the exception `late` of `UsedGraphStays`: only users from before are protected. A
commit without its evidence, lifecycle events past `update_run` and reports about the finish
target belong here too; they are described in section 6 only.

## 6. Findings

Two are runs that TLC refutes:

1. `stop_race`: `_wait_for_slot` writes `queued` unconditionally. A run stopped between its
   dispatch and that write becomes queued again, with a terminated stream: no one can
   end it, and its directory accepts no other run.
2. `rounds_evidence`: in rounds mode an Inspector that proves the checks by its check results makes
   the coverage passable; `EvidenceAccepted` of that same step is then refused, since
   nothing it cites verifies a target or evidence ref, although
   the contract asks for no such refs in that mode.

The others are counterexamples of the configurations named, or of the property without its
exception:

- *Start or end unrecorded* (`MCRunServiceNoStart`, `MCRunServiceNoEnd`): `claim_run_slot` writes
  `running` with plain SQL, the following `update_run(status="running")` sees no change, so
  `RunStarted` is never appended; the same for `stopped` written by a claim that finds a stop
  request.
- *Blocked stop* (`MCRunServiceBlocked`): stopping a run with a blocked coverage and no GateKeeper
  verdict makes `issue_verdict` raise inside an `except` clause; the row stays `running` without a
  worker. The same after a failed role or an unsafe workspace; `HeadlessRunEnds` without its
  exception has the counterexample too.
- *Agent-native runs that nothing ends* (`RunEnds` without its exception): the verdict of an
  exhaustion is refused in the same way (a blocked coverage in rounds mode); `next` raises before it
  writes the status, and every later `next` comes to the same place. Only the user's stop is left, and
  it issues a verdict of its own first, which a blocked coverage has refused all the same.
- *Finish reported* (`MCEvidenceCoverageFinish`): a step's coverage result for `gatekeeper.finish`
  is taken like any other, against the rule that it is derived from the submitted verdict.
- *A bare "none" policy* is read as disallow by `compile_residual_risk_policy` but not by
  `residual_risk_policy_disallows_acceptance`: with a managed risk and an open advisory target the
  passing verdict is refused; with none open a pass with residual risk is accepted although the
  kernel says to continue.
- *A rejection that the row has not noted, in rounds mode* (`RefusalIsExplained` outside gatekeeper
  mode; met in its proof): after a GateKeeper's pass a later rejection is in the ledger, but its
  step was cut off before the row took note of it. The public status follows the pass in the row.
  The kernel, which no longer has a pass as the latest verdict, counts every risk any item
  reports; one that is unmanaged leaves the open targets as gaps, and the store refuses a pass
  with gaps. In gatekeeper mode the rejection blocks the finish target first.
- *Headless controls beside a group* (seen in `HeadlessRunner`, no formula of its own): while the
  control of a failed step runs, a sibling's first attempt may claim its step after the control's
  claim; the submission guard then refuses the control's result, and a blocking control turns a
  failed role into a crash.
- *One `child_pid` for a group*: role threads share the column, and the end of one clears the pid of
  the other, which a stop or a recovery then cannot signal (the executor sees the stop by polling).
- *Headless errors that hide others*: an advisory Inspector control that finds original files
  missing is swallowed with its safety error; the failure of an earlier step of a group ends the run
  as failed though a sibling has seen the stop (the exception in `StopIsNotSwallowed`).
- *Agent-native wedge* (`MCAgentNativeWedge`): a `next` that runs beside a submission writes the
  state it read before it, and hands out a step that is committed already; its submission is
  refused for good.
- *A late claim and the next iteration* (`CommitsFollowTheStrategy` without its exception): one
  `next` plans a step and pauses; a submission commits that step and closes the iteration, and
  another process is about to start the next one; the first now appends its instruction, and
  `IterationStarted`, which sets only the current iteration (`events/replay.py`), turns it into an
  instruction of the new iteration. Whoever claims next is given that step, and those before it are
  skipped.
- *Iteration started twice* (`MCAgentNativeTwice`): two claims that overlap both find no
  `IterationStarted` and both append it.
- *Commit without evidence* (`MCAgentNativeNoEvidence`): a death between the two transactions; no
  later call appends the evidence.
- *Torn state* (`MCAgentNativeTorn`): `state.json` is written in place; a death in the middle
  leaves a file no call can read. A safety error of the working directory, raised after the
  commit, likewise leaves the step committed and the state behind.
- *A pass that does not end the run* (`PassEndsTheRun` without its exceptions): a death, refused
  evidence or a refused verdict between the GateKeeper's commit and the end of the run. The pass is in
  the stream, the run awaits its host, and since the cursor passes over the committed step the last
  iteration may then be exhausted as failed; so may it by a `next` beside the submission.
- *Streams of more than 5000 events* (`MCProjectionCacheLong`): readers take the first page for
  the whole stream; the latest coverage and the snapshot stay those of the first page.
- *Alignment*: a process that dies during a round, or a thread that cannot be started, leaves the
  session active for good (messages, reloads and deletion are refused, a cancellation has no
  effect); two starts that cross begin two rounds; `/loopora-run` overwrites an active status; a
  death between the import and the status `imported` lets the bundle be imported again; reloading
  a file and having it reviewed leads to `ready` without an explicit confirmation.
- *A signal to a child that is gone* (no property excludes it): `stream_process` reaps the child before
  it clears its pid, and `cancel_alignment_session` signals the pid it read before it set the flag; the
  signal may reach a process that has been given that pid meanwhile. And a round that closes clears the
  pid in the row whoever wrote it: that of a later round of another process, whose cancellation is then
  left to the executor's polling.
- *Bundles undone after their commit* (`RowNamesItsGraph` and `FilesFollowTheRow` without `past.undone`):
  when a replace has been committed and the read-back or the clearing of the old files raises,
  `_rollback_failed_bundle_import` writes the old links and restores the old directory over assets that
  the commit has erased, then deletes the new graph. The bundle then names nothing; it can be neither
  replaced, deleted nor edited. A new bundle whose read-back raises loses its assets under its row in
  the same way; and if writing the old links raises as well, nothing is rolled back at all.
- *Bundles* (each property without its other exceptions): an edit that crosses a replace writes back the
  links it read, so the row names deleted assets, the new graph belongs to nobody, and every later
  replace or delete is refused; a run that starts between the preflight and the erasing
  transaction loses its loop and its rows, although a delete refuses active runs
  (`src/tests/checks/contracts/test_bundle_delete_preflight_guards.py`); of two imports of one new
  id the loser's rollback removes the winner's directory, and a replace that fails puts its old
  backup over the files of one that succeeded meanwhile; a death leaves assets that no row names;
  a rollback that is refused a deletion, by an active run or a fault, keeps that asset and goes on
  with the others.
- *Edits that cross imports, and the users of a graph* (`UsedGraphStays` without its exception
  `past.crossed`; met in its proof, since it needs 3 callers and 4 graphs and the instances have
  fewer): two edits, each of which writes back the links of the row it read, bring the row back
  to a graph that a run has taken up meanwhile, whose preflight nobody repeats; an import over
  the bundle that passed its preflight on another row then erases that graph under its run.

## 7. Not modelled, and the plan

Done: the stream and its proofs, the run table and the service, the headless loop with its
groups, retries and controls, the fold and its proofs, replay and the agent-native plane, the
projection cache with its refinement and proofs, alignment sessions, the verdict, bundles, and
proofs about them. Left out so far:

- *Around the headless loop*: the check planner before the first iteration, `max_iters = 0`, the
  pause between iterations; sessions, prompts and the files of a step.
- *The queue of control steps* in the agent-native plane.
- *Beside one bundle*: direct edits of its orchestration (the same steps as those of a role),
  deletes of assets that are in no bundle, the registration of managed directories for diagnostics.
- *Executors*: child processes, their timeouts and streams; the worker sees an outcome or an
  exception.
- *Compiler, lint, presenters, web routes, adapters*: parsing, normalization, wording and
  rendering of documents, without state of their own. They are the larger part of the
  repository's lines; nothing of what they compute is distinguished by the promises above.

Worth having next on the side of the proofs: one abstract specification of "steps in the order of
the strategy, each committed once" that the headless loop and the agent-native plane both
implement.
