-------------------------- MODULE AlignmentSession --------------------------
(***************************************************************************)
(* One alignment session: the dialogue that turns a task into a bundle.    *)
(* Callers (request threads of the web server, CLI commands) send          *)
(* messages, cancel, reload bundle.yml, import the bundle, start the Loop  *)
(* or delete the session; a round is a thread that runs the planning agent *)
(* and files what it answers.  All of them meet in one row, which every    *)
(* operation reads first and updates later, each in a transaction of its   *)
(* own and without a condition on what it read.                            *)
(***************************************************************************)
EXTENDS Naturals, FiniteSets

CONSTANTS Callers,      \* threads that serve one operation at a time
          Home,         \* the process of each caller
          Direct,       \* callers that carry out a round themselves (the CLI)
          Rounds,       \* identities of rounds at work
          Outputs,      \* what the planning agent may answer
          Nobody,       \* no round
          MaxMessages,  \* bound: messages and reloads by the user
          TalkCycle,    \* bound: transcript entries are counted modulo this number
          Mortal        \* processes that may die

Procs == {Home[c] : c \in Callers}

ASSUME AlignmentAssumption ==
  /\ Callers # {}
  /\ Direct \subseteq Callers
  /\ Mortal \subseteq Procs
  /\ Nobody \notin Rounds
  /\ MaxMessages \in Nat
  /\ TalkCycle \in Nat \ {0}

VARIABLES row,      \* the session's row
          file,     \* bundle.yml of the session
          round,    \* the rounds at work
          threads,  \* _threads of each process: the session's registered thread
          call,     \* the operation each caller is serving
          made,     \* entries written to the transcript, and what the user asked so far
          past      \* what happened that no operation checks for

vars == <<row, file, round, threads, call, made, past>>

Active == {"running", "validating", "repairing"}
ConfirmedStages == {"confirmed", "compiling", "ready_review"}

Statuses == Active \cup {"idle", "waiting_user", "ready", "failed", "skipped",
                         "imported", "running_loop"}
Stages == ConfirmedStages \cup {"clarifying", "agreement_ready", "ready"}

\* The working agreement, by its explicit confirmation.
Agreements == {"none", "proposed", "confirmed"}

\* The length of a transcript, and the same with one more entry.
Talk == 0 .. TalkCycle - 1
Longer(talk) == (talk + 1) % TalkCycle

\* loop, run: whether the session is linked to an imported Loop and to a run.
Row == [kept : BOOLEAN, status : Statuses, stage : Stages, agreed : Agreements,
        stop : BOOLEAN, repairs : {0, 1}, pid : Rounds \cup {Nobody},
        talk : Talk, offer : BOOLEAN, loop : BOOLEAN, run : BOOLEAN]

\* by: who wrote bundle.yml last; valid: whether its text passes validation.
File == [by : {"none", "loopora", "user"}, valid : BOOLEAN]
NoFile == [by |-> "none", valid |-> FALSE]
Text(who, valid) == [by |-> who, valid |-> valid]

\* What the agent answers: the phase it claims, whether checklist, evidence, improvement
\* judgement and language are complete, the bundle it attaches, whether it asks the user,
\* whether it says anything, and whether it offers to end without a Loop.
Output == [phase : {"clarifying", "agreement", "bundle", "blocked"}, complete : BOOLEAN,
           bundle : {"none", "valid", "invalid"}, asks : BOOLEAN, says : BOOLEAN,
           unfit : BOOLEAN]

ASSUME OutputAssumption == Outputs \subseteq Output

Silence == [phase |-> "blocked", complete |-> FALSE, bundle |-> "none", asks |-> FALSE,
            says |-> FALSE, unfit |-> FALSE]

Round == [pc : {"none", "loading", "executing", "reaped", "reading", "staging", "saying",
                "writing", "marking", "validating", "ending", "closing"},
          home : Procs, out : Output,
          stage : Stages, talk : Talk, tries : Nat,
          goal : {"none", "waiting_user", "ready", "failed", "repairing"}]
NoRound == [pc |-> "none", home |-> CHOOSE p \in Procs : TRUE, out |-> Silence,
            stage |-> "clarifying", talk |-> 0, tries |-> 0, goal |-> "none"]

Call == [pc : {"idle", "message", "notice", "start", "launch", "waits", "stop", "signal", "load",
               "sync", "import", "imported", "run", "ran", "delete"},
         op : {"none", "message", "cancel", "sync", "import", "loop", "delete"},
         arg : {"none", "confirm", "other", "skip", "ready", "failed"},
         seen : Row, round : Rounds \cup {Nobody}]

\* A created session waits for its first message; a revision session starts from a copy of
\* the bundle it revises, one made from a run stays linked to that run.
NewRow(run) ==
  [kept |-> TRUE, status |-> "idle", stage |-> "clarifying", agreed |-> "none",
   stop |-> FALSE, repairs |-> 0, pid |-> Nobody, talk |-> 0, offer |-> FALSE,
   loop |-> FALSE, run |-> run]

IdleCall == [pc |-> "idle", op |-> "none", arg |-> "none", seen |-> NewRow(FALSE),
             round |-> Nobody]

\* The same session after a first exchange that ended in a proposed agreement: the user's
\* message and the agent's question.
AskedRow == [NewRow(FALSE) EXCEPT !.status = "waiting_user", !.stage = "agreement_ready",
                                  !.agreed = "proposed", !.talk = Longer(Longer(0))]

Init ==
  /\ \/ \E run, seed \in BOOLEAN :
          /\ run => seed
          /\ row = NewRow(run)
          /\ file = IF seed THEN Text("loopora", TRUE) ELSE NoFile
     \/ row = AskedRow /\ file = NoFile
  /\ made = [said |-> row.talk, asked |-> 0]
  /\ round = [w \in Rounds |-> NoRound]
  /\ threads = [p \in Procs |-> Nobody]
  /\ call = [c \in Callers |-> IdleCall]
  /\ past = [crossed |-> FALSE, died |-> FALSE, synced |-> FALSE]

-----------------------------------------------------------------------------
(* The round: execute_alignment_session                                    *)

\* update_alignment_session on a session that is gone changes nothing.
Put(new) == row' = IF row.kept THEN new ELSE row
To(w, new) == round' = [round EXCEPT ![w] = new]
Failing(w) == [round[w] EXCEPT !.pc = "ending", !.goal = "failed", !.out = Silence,
                               !.stage = "clarifying", !.talk = 0]

\* run_alignment_executor: reads the session, prepares the invocation; the executor starts
\* the agent and records its process.  A session that is gone raises.
Invoke(w) ==
  /\ round[w].pc = "loading"
  /\ IF row.kept
     THEN /\ row' = [row EXCEPT !.pid = w]
          /\ To(w, [round[w] EXCEPT !.pc = "executing", !.tries = @ + 1])
     ELSE /\ UNCHANGED row
          /\ To(w, Failing(w))
  /\ UNCHANGED <<file, threads, call, made, past>>

\* The row without the pid of a child.
ChildGone == [row EXCEPT !.pid = Nobody]

\* The agent process ends by itself, is killed, or is idle for too long.
ChildEnds(w) ==
  /\ round[w].pc = "executing"
  /\ To(w, [round[w] EXCEPT !.pc = "reaped"])
  /\ UNCHANGED <<row, file, threads, call, made, past>>

\* Fault: the round polls only for a session that is gone.
StopSeenLate == ~row.kept

\* should_stop: a session that is gone reads as stopped.
StopSeen == row.stop \/ ~row.kept

\* The executor polls should_stop and terminates the agent process.
ExecutorStopped(w) ==
  /\ round[w].pc = "executing"
  /\ StopSeen
  /\ To(w, [Failing(w) EXCEPT !.pc = "reaped"])
  /\ UNCHANGED <<row, file, threads, call, made, past>>

\* Fault: the pid is cleared only after an answer, not in a finally clause.
ClearChildAnswered(w) ==
  /\ round[w].pc = "reaped"
  /\ \/ To(w, Failing(w)) /\ UNCHANGED row
     \/ /\ round[w].goal # "failed"
        /\ Put(ChildGone)
        /\ \E o \in Outputs : To(w, [round[w] EXCEPT !.pc = "reading", !.out = o])
  /\ UNCHANGED <<file, threads, call, made, past>>

\* The child is over before its pid is cleared, whatever came of it; then its answer is read,
\* or the executor fails.  (A request that resumed the agent's own session is first tried once
\* more without it: the round is still executing, with another child.)
ClearChild(w) ==
  /\ round[w].pc = "reaped"
  /\ Put(ChildGone)
  /\ \/ To(w, Failing(w))
     \/ /\ round[w].goal # "failed"
        /\ \E o \in Outputs : To(w, [round[w] EXCEPT !.pc = "reading", !.out = o])
  /\ UNCHANGED <<file, threads, call, made, past>>

ReadSession(w) ==
  /\ round[w].pc = "reading"
  /\ To(w, IF row.kept
           THEN [round[w] EXCEPT !.pc = "staging", !.stage = row.stage, !.talk = row.talk]
           ELSE Failing(w))
  /\ UNCHANGED <<row, file, threads, call, made, past>>

\* alignment_output_stage_plan.
StagedRow(out) ==
  CASE out.phase = "agreement" /\ out.complete ->
         [row EXCEPT !.stage = "agreement_ready", !.agreed = "proposed"]
    [] out.phase = "clarifying" \/ (out.phase = "agreement" /\ ~out.complete) ->
         [row EXCEPT !.stage = "clarifying"]
    [] OTHER -> row

\* An agreement, complete or blocked, always asks the user and drops the bundle.
StagedOutput(out) ==
  IF out.phase = "agreement" THEN [out EXCEPT !.asks = TRUE, !.says = TRUE, !.bundle = "none"]
                             ELSE out

\* Fault: a bundle is taken for its phase alone.
BundleAllowedAnytime(stage, out) == out.phase = "bundle" /\ out.complete

\* alignment_bundle_stage_error: a bundle is taken only at a confirmed stage.
BundleAllowed(stage, out) ==
  /\ stage \in ConfirmedStages
  /\ out.phase = "bundle"
  /\ out.complete

\* alignment_output_message_plan: a bundle that is not allowed becomes a question.
Gated(stage, out) ==
  IF out.bundle = "none" \/ BundleAllowed(stage, out) THEN out
  ELSE [out EXCEPT !.bundle = "none", !.asks = TRUE, !.says = TRUE]

\* alignment_executor_output_action.
Filed(r) ==
  CASE r.out.bundle # "none" -> [r EXCEPT !.pc = "writing"]
    [] r.out.bundle = "none" /\ (r.out.asks \/ (r.out.says /\ r.out.phase = "blocked")) ->
         [r EXCEPT !.pc = "ending", !.goal = "waiting_user"]
    [] OTHER -> [r EXCEPT !.pc = "ending", !.goal = "failed"]

ApplyOutputStage(w) ==
  LET r == round[w]
      staged == StagedRow(r.out)
      fresh == r.out.phase \in {"agreement", "clarifying"}
      stage == IF fresh THEN staged.stage ELSE r.stage
      out == Gated(stage, StagedOutput(r.out))
      next == [r EXCEPT !.out = out, !.stage = stage, !.talk = IF fresh THEN row.talk ELSE @]
  IN /\ r.pc = "staging"
     /\ IF row.kept
        THEN /\ row' = staged
             /\ To(w, IF out.says THEN [next EXCEPT !.pc = "saying"] ELSE Filed(next))
        ELSE /\ UNCHANGED row
             /\ To(w, Failing(w))
     /\ UNCHANGED <<file, threads, call, made, past>>

\* record_alignment_assistant_message: the transcript as the round read it, and one entry.
RecordAssistantMessage(w) ==
  LET r == round[w] IN
  /\ r.pc = "saying"
  /\ IF row.kept
     THEN /\ row' = [row EXCEPT !.talk = Longer(r.talk), !.offer = r.out.unfit]
          /\ made' = [made EXCEPT !.said = Longer(@)]
          /\ To(w, Filed(r))
     ELSE /\ UNCHANGED <<row, made>>
          /\ To(w, Failing(w))
  /\ UNCHANGED <<file, threads, call, past>>

\* write_and_validate_alignment_bundle: the text first, ...
WriteCandidate(w) ==
  /\ round[w].pc = "writing"
  /\ file' = IF row.kept THEN Text("loopora", round[w].out.bundle = "valid") ELSE file
  /\ To(w, IF row.kept THEN [round[w] EXCEPT !.pc = "marking"] ELSE Failing(w))
  /\ UNCHANGED <<row, threads, call, made, past>>

\* ... then the status, ...
MarkValidating(w) ==
  /\ round[w].pc = "marking"
  /\ Put([row EXCEPT !.status = "validating", !.stage = "compiling"])
  /\ To(w, IF row.kept THEN [round[w] EXCEPT !.pc = "validating"] ELSE Failing(w))
  /\ UNCHANGED <<file, threads, call, made, past>>

\* Fault: the repair attempt is never counted.
CandidateOutcomeAlways(valid, repairs) == IF valid THEN "ready" ELSE "repairing"

\* Fault: after its repair a bundle is taken as it is.
CandidateOutcomeLenient(valid, repairs) ==
  IF valid \/ repairs >= 1 THEN "ready" ELSE "repairing"

\* ... and the outcome: ready, one repair, or failed (alignment_bundle_candidate_outcome).
CandidateOutcome(valid, repairs) ==
  IF valid THEN "ready" ELSE IF repairs >= 1 THEN "failed" ELSE "repairing"

ValidateCandidate(w) ==
  LET valid == round[w].out.bundle = "valid" IN
  /\ round[w].pc = "validating"
  /\ IF row.kept
     THEN /\ file' = IF valid THEN Text("loopora", TRUE) ELSE file
          /\ To(w, [round[w] EXCEPT !.pc = "ending",
                                    !.goal = CandidateOutcome(valid, row.repairs)])
     ELSE /\ UNCHANGED file
          /\ To(w, Failing(w))
  /\ UNCHANGED <<row, threads, call, made, past>>

\* Fault: a failed round keeps the status it found.
EndedSilently(goal) ==
  CASE goal = "ready" -> [ChildGone EXCEPT !.status = "ready", !.stage = "ready"]
    [] goal = "repairing" -> [row EXCEPT !.status = "repairing", !.repairs = 1]
    [] goal = "failed" -> ChildGone
    [] OTHER -> [ChildGone EXCEPT !.status = goal]

\* apply_alignment_session_transition_plan and fail_alignment_session.
Ended(goal) ==
  CASE goal = "ready" -> [ChildGone EXCEPT !.status = "ready", !.stage = "ready"]
    [] goal = "repairing" -> [row EXCEPT !.status = "repairing", !.repairs = 1]
    [] OTHER -> [ChildGone EXCEPT !.status = goal]

EndRound(w) ==
  LET r == round[w] IN
  /\ r.pc = "ending"
  /\ Put(Ended(r.goal))
  /\ To(w, [NoRound EXCEPT !.pc = IF r.goal = "repairing" /\ row.kept THEN "loading"
                                                                      ELSE "closing",
                           !.home = r.home, !.tries = r.tries])
  /\ UNCHANGED <<file, threads, call, made, past>>

\* The finally clause: clears the pid again and takes the thread out of _threads; a CLI
\* command that carried out the round itself returns.
CloseRound(w) ==
  LET p == round[w].home IN
  /\ round[w].pc = "closing"
  /\ Put(ChildGone)
  /\ To(w, NoRound)
  /\ threads' = [threads EXCEPT ![p] = IF @ = w THEN Nobody ELSE @]
  /\ call' = [c \in Callers |-> IF call[c].pc = "waits" /\ call[c].round = w THEN IdleCall
                                                                           ELSE call[c]]
  /\ UNCHANGED <<file, made, past>>

-----------------------------------------------------------------------------
(* The callers.  Each operation begins with a check of the row it reads.   *)

Serving(c) == call[c].pc \notin {"idle", "waits"}

\* A call, other than a cancellation, that begins while another one is being served.
Crossing(op) == op # "cancel" /\ \E c \in Callers : Serving(c) /\ call[c].op # "cancel"

\* Bounds: no further call begins once two have crossed, and in one behaviour either calls
\* cross or a process dies.
Begin(c, pc, op, arg) ==
  /\ call[c].pc = "idle"
  /\ ~past.crossed
  /\ Crossing(op) => ~past.died
  /\ row.kept
  /\ call' = [call EXCEPT ![c] = [IdleCall EXCEPT !.pc = pc, !.op = op, !.arg = arg,
                          !.seen = IF op = "message" THEN row
                                   ELSE IF op = "cancel" THEN [@ EXCEPT !.pid = row.pid] ELSE @]]
  /\ past' = [past EXCEPT !.crossed = @ \/ Crossing(op)]

Go(c, pc) == call' = [call EXCEPT ![c].pc = pc, ![c].seen = IdleCall.seen]
Finish(c) == call' = [call EXCEPT ![c] = IdleCall]

\* Fault: a message is taken in the middle of a round.
BeginMessageAnytime(c, kind) ==
  /\ made.asked < MaxMessages
  /\ kind = "skip" => row.offer
  /\ Begin(c, "message", "message", kind)
  /\ made' = [made EXCEPT !.asked = @ + 1]
  /\ UNCHANGED <<row, file, round, threads>>

\* append_alignment_message.
BeginMessage(c, kind) ==
  /\ made.asked < MaxMessages
  /\ row.status \notin Active
  /\ kind = "skip" => row.offer
  /\ Begin(c, "message", "message", kind)
  /\ made' = [made EXCEPT !.asked = @ + 1]
  /\ UNCHANGED <<row, file, round, threads>>

\* alignment_user_message_stage_plan, on the session the call has read.
UserStage(seen, kind) ==
  IF kind = "skip" THEN [stage |-> "clarifying", agreed |-> "none"]
  ELSE IF seen.stage = "agreement_ready" THEN
    IF kind = "confirm" THEN [stage |-> "confirmed", agreed |-> "confirmed"]
                        ELSE [stage |-> "clarifying", agreed |-> "proposed"]
  ELSE CASE seen.status = "ready" -> [stage |-> "ready_review", agreed |-> seen.agreed]
         [] seen.status \in {"imported", "running_loop"} ->
              [stage |-> "clarifying", agreed |-> seen.agreed]
         [] seen.status = "failed" /\ seen.stage \notin ConfirmedStages ->
              [stage |-> "clarifying", agreed |-> row.agreed]
         [] OTHER -> [stage |-> row.stage, agreed |-> row.agreed]

\* Fault: a message leaves the repair attempts of the round before.
MessageRowKeepsRepairs(seen, kind) ==
  LET plan == UserStage(seen, kind) IN
  [row EXCEPT !.talk = Longer(seen.talk), !.stop = FALSE,
              !.stage = plan.stage, !.agreed = plan.agreed,
              !.status = IF kind = "skip" THEN "skipped" ELSE @]

\* apply_alignment_user_message: every round a message starts may repair once.
MessageRow(seen, kind) ==
  LET plan == UserStage(seen, kind) IN
  [row EXCEPT !.talk = Longer(seen.talk), !.stop = FALSE, !.repairs = 0,
              !.stage = plan.stage, !.agreed = plan.agreed,
              !.status = IF kind = "skip" THEN "skipped" ELSE @]

WriteMessage(c) ==
  LET me == call[c] IN
  /\ me.pc = "message"
  /\ IF row.kept
     THEN /\ row' = MessageRow(me.seen, me.arg)
          /\ made' = [made EXCEPT !.said = Longer(@)]
          /\ call' = [call EXCEPT ![c].pc = IF me.arg = "skip" THEN "notice" ELSE "start",
                                  ![c].seen = row']
     ELSE /\ UNCHANGED <<row, made>>
          /\ Finish(c)
  /\ UNCHANGED <<file, round, threads, past>>

\* append_alignment_notice_message: the transcript just read, and one entry.
WriteNotice(c) ==
  LET me == call[c] IN
  /\ me.pc = "notice"
  /\ IF row.kept
     THEN /\ row' = [row EXCEPT !.talk = Longer(me.seen.talk), !.offer = FALSE]
          /\ made' = [made EXCEPT !.said = Longer(@)]
          /\ IF me.op = "sync" THEN Go(c, "sync") ELSE Finish(c)
     ELSE /\ UNCHANGED <<row, made>>
          /\ Finish(c)
  /\ UNCHANGED <<file, round, threads, past>>

\* start_alignment_session_async and _sync: the row and the process's own thread are
\* checked, ...
CheckStart(c) ==
  /\ call[c].pc = "start"
  /\ IF row.kept /\ row.status \notin Active /\ threads[Home[c]] = Nobody
     THEN Go(c, "launch")
     ELSE Finish(c)
  /\ UNCHANGED <<row, file, round, threads, made, past>>

\* ... then the row is updated and the thread started.
RunningRow == [row EXCEPT !.status = "running", !.stop = FALSE, !.pid = Nobody]

Launch(c, w) ==
  /\ call[c].pc = "launch"
  /\ row.kept
  /\ round[w].pc = "none"
  /\ row' = RunningRow
  /\ To(w, [NoRound EXCEPT !.pc = "loading", !.home = Home[c]])
  /\ IF c \in Direct
     THEN /\ call' = [call EXCEPT ![c] = [IdleCall EXCEPT !.pc = "waits", !.round = w]]
          /\ UNCHANGED threads
     ELSE /\ Finish(c)
          /\ threads' = [threads EXCEPT ![Home[c]] = w]
  /\ UNCHANGED <<file, made, past>>

\* The session is gone, or the bound on rounds is reached.
LaunchRefused(c) ==
  /\ call[c].pc = "launch"
  /\ ~row.kept \/ \A w \in Rounds : round[w].pc # "none"
  /\ Finish(c)
  /\ UNCHANGED <<row, file, round, threads, made, past>>

\* cancel_alignment_session.  Bound: one cancellation at a time.
BeginCancel(c) ==
  /\ row.status \in Active
  /\ \A d \in Callers : call[d].op # "cancel"
  /\ Begin(c, "stop", "cancel", "none")
  /\ UNCHANGED <<row, file, round, threads, made>>

\* The flag, ...
RequestStop(c) ==
  /\ call[c].pc = "stop"
  /\ Put([row EXCEPT !.stop = TRUE])
  /\ IF call[c].seen.pid = Nobody THEN Finish(c)
                                  ELSE call' = [call EXCEPT ![c].pc = "signal"]
  /\ UNCHANGED <<file, round, threads, made, past>>

\* ... and a signal to the child that was recorded when the call read the row: its executor
\* fails if it still runs; nothing is checked again.
SignalChild(c) ==
  /\ call[c].pc = "signal"
  /\ Finish(c)
  /\ UNCHANGED <<row, file, round, threads, made, past>>

\* sync_alignment_bundle_from_file.
BeginSync(c) ==
  /\ made.asked < MaxMessages
  /\ row.status \in {"idle", "ready", "failed"}
  /\ Begin(c, "load", "sync", "none")
  /\ made' = [made EXCEPT !.asked = @ + 1]
  /\ UNCHANGED <<row, file, round, threads>>

LoadFile(c) ==
  /\ call[c].pc = "load"
  /\ file' = IF file.valid THEN Text("loopora", TRUE) ELSE file
  /\ IF row.kept
     THEN call' = [call EXCEPT ![c].pc = "notice", ![c].seen = row,
                               ![c].arg = IF file.valid THEN "ready" ELSE "failed"]
     ELSE Finish(c)
  /\ UNCHANGED <<row, round, threads, made, past>>

SyncedRow(result) ==
  IF result = "ready" THEN [row EXCEPT !.status = "ready", !.stage = "ready"]
                      ELSE [ChildGone EXCEPT !.status = "failed"]

WriteSync(c) ==
  /\ call[c].pc = "sync"
  /\ Put(SyncedRow(call[c].arg))
  /\ past' = [past EXCEPT !.synced = @ \/ call[c].arg = "ready"]
  /\ Finish(c)
  /\ UNCHANGED <<file, round, threads, made>>

\* import_alignment_bundle.
BeginImport(c) ==
  /\ row.status = "ready"
  /\ file # NoFile
  /\ Begin(c, "import", "import", "none")
  /\ UNCHANGED <<row, file, round, threads, made>>

\* The text is read, validated and imported; a failure is noted in the row's validation
\* and leaves the session ready.
ImportText(c) ==
  /\ call[c].pc = "import"
  /\ \/ /\ file.valid
        /\ Go(c, "imported")
     \/ Finish(c)
  /\ file' = IF file.valid THEN Text("loopora", TRUE) ELSE file
  /\ UNCHANGED <<row, round, threads, made, past>>

ImportedRow == [row EXCEPT !.status = "imported", !.loop = TRUE, !.run = FALSE]

WriteImported(c) ==
  /\ call[c].pc = "imported"
  /\ Put(ImportedRow)
  /\ \/ row.kept /\ Go(c, "run")
     \/ (~row.kept \/ call[c].op = "import") /\ Finish(c)
  /\ UNCHANGED <<file, round, threads, made, past>>

\* start_run: refused when the directory is busy, see RunService.
StartRun(c) ==
  /\ call[c].pc = "run"
  /\ Go(c, "ran") \/ Finish(c)
  /\ UNCHANGED <<row, file, round, threads, made, past>>

WriteRan(c) ==
  /\ call[c].pc = "ran"
  /\ Put([row EXCEPT !.status = "running_loop", !.run = TRUE])
  /\ past' = [past EXCEPT !.crossed = @ \/ row.status \in Active]
  /\ Finish(c)
  /\ UNCHANGED <<file, round, threads, made>>

\* start_agent_loop: a bound run is taken up again, or followed by the next one if it ended
\* without passing; no check of the session's status precedes that.
BeginLoop(c) ==
  /\ \/ row.run /\ Begin(c, "ran", "loop", "none")
     \/ row.run /\ Begin(c, "run", "loop", "none")
     \/ ~row.run /\ row.status = "ready" /\ file # NoFile
                    /\ Begin(c, "import", "loop", "none")
     \/ ~row.run /\ row.status = "imported" /\ row.loop
                    /\ Begin(c, "run", "loop", "none")
  /\ UNCHANGED <<row, file, round, threads, made>>

\* delete_alignment_session: the row and its events, then the session's directory.
BeginDelete(c) ==
  /\ row.status \notin Active
  /\ Begin(c, "delete", "delete", "none")
  /\ UNCHANGED <<row, file, round, threads, made>>

DeleteRow(c) ==
  /\ call[c].pc = "delete"
  /\ row' = [NewRow(FALSE) EXCEPT !.kept = FALSE]
  /\ file' = NoFile
  /\ Finish(c)
  /\ UNCHANGED <<round, threads, made, past>>

\* The user edits bundle.yml, which is what sync is for; an edit matters when a reload or an
\* import can read it.  Bound: one edit of each text Loopora wrote, and none after a crossing.
EditFile(valid) ==
  /\ row.kept
  /\ row.status \in {"idle", "ready", "failed"}
  /\ file.by # "user"
  /\ ~past.crossed
  /\ file' = Text("user", valid)
  /\ UNCHANGED <<row, round, threads, call, made, past>>

\* A process dies with its threads; nothing marks the session or looks for its round later.
Die(p) ==
  /\ p \in Mortal
  /\ ~past.died /\ ~past.crossed
  /\ \/ \E w \in Rounds : round[w].pc # "none" /\ round[w].home = p
     \/ \E c \in Callers : call[c].pc # "idle" /\ Home[c] = p
  /\ round' = [w \in Rounds |-> IF round[w].home = p THEN NoRound ELSE round[w]]
  /\ call' = [c \in Callers |-> IF Home[c] = p THEN IdleCall ELSE call[c]]
  /\ threads' = [threads EXCEPT ![p] = Nobody]
  /\ past' = [past EXCEPT !.died = TRUE]
  /\ UNCHANGED <<row, file, made>>

RoundStep(w) ==
  \/ Invoke(w) \/ ClearChild(w) \/ ReadSession(w) \/ ApplyOutputStage(w)
  \/ RecordAssistantMessage(w)
  \/ WriteCandidate(w) \/ MarkValidating(w) \/ ValidateCandidate(w)
  \/ EndRound(w) \/ CloseRound(w)

CallerStep(c) ==
  \/ \E kind \in {"confirm", "other", "skip"} : BeginMessage(c, kind)
  \/ WriteMessage(c) \/ WriteNotice(c) \/ CheckStart(c)
  \/ \E w \in Rounds : Launch(c, w)
  \/ LaunchRefused(c)
  \/ BeginCancel(c) \/ RequestStop(c) \/ SignalChild(c)
  \/ BeginSync(c) \/ LoadFile(c) \/ WriteSync(c)
  \/ BeginImport(c) \/ ImportText(c) \/ WriteImported(c) \/ StartRun(c) \/ WriteRan(c)
  \/ BeginLoop(c)
  \/ BeginDelete(c) \/ DeleteRow(c)

Next ==
  \/ \E w \in Rounds : RoundStep(w) \/ ChildEnds(w) \/ ExecutorStopped(w)
  \/ \E c \in Callers : CallerStep(c)
  \/ \E valid \in BOOLEAN : EditFile(valid)
  \/ \E p \in Procs : Die(p)

Spec == Init /\ [][Next]_vars

\* A live process goes on with its round, and its executor polls should_stop; nothing makes
\* an agent answer, a caller call or a user edit.
FairSpec ==
  /\ Spec
  /\ \A w \in Rounds : WF_vars(RoundStep(w)) /\ WF_vars(ExecutorStopped(w))

-----------------------------------------------------------------------------
(* Properties.  past.crossed: two calls, neither a cancellation, were      *)
(* served at once, or /loopora-run took up a run in the middle of a round. *)

TypeOK ==
  /\ row \in Row
  /\ file \in File
  /\ round \in [Rounds -> Round]
  /\ threads \in [Procs -> Rounds \cup {Nobody}]
  /\ call \in [Callers -> Call]
  /\ made \in [said : Talk, asked : 0 .. MaxMessages]
  /\ past \in [crossed : BOOLEAN, died : BOOLEAN, synced : BOOLEAN]

AtWork == {w \in Rounds : round[w].pc \notin {"none", "closing"}}

\* The status is all that keeps a second round, a reload, an import or a deletion away from
\* a round at work, in any process: it says "active" from before the round's first step
\* until after its last, whatever ends it, and only a death leaves it so for good.
StatusTellsTheRound ==
  ~past.crossed =>
    /\ Cardinality(AtWork) <= 1
    /\ AtWork # {} => row.kept /\ row.status \in Active
    /\ row.status \in Active /\ ~past.died => AtWork # {}

\* Unless the user brought a bundle of his own (sync), the agent's bundle is taken only
\* after an explicit confirmation of the agreement, however rounds, failures, repairs,
\* reviews and imports follow each other.
ConfirmedBeforeBundle ==
  ~past.crossed /\ ~past.synced /\ row.stage \in ConfirmedStages \cup {"ready"}
    => row.agreed = "confirmed"

\* Every transcript is written whole from a copy read earlier; no entry of the user, the
\* agent or a notice is overwritten.
NoEntryLost == ~past.crossed /\ row.kept => row.talk = made.said

\* A session is ready only over a bundle.yml that passed validation, unless the user has
\* edited the file since.
ReadyOverValidFile ==
  ~past.crossed /\ row.status = "ready" /\ file.by # "user" => file.valid

\* Each round may repair its bundle once: an invalid bundle fails the session only in the
\* second invocation of its round, whatever earlier rounds spent.
EveryRoundMayRepair ==
  ~past.crossed =>
    \A w \in Rounds :
      round[w].pc = "ending" /\ round[w].goal = "failed" /\ round[w].out.bundle = "invalid"
        => round[w].tries = 2

\* The pid a cancellation finds in the row is that of a child whose executor is at work, the
\* child running or just ended: no round leaves a pid behind, whatever ends it, and no crossing
\* call, repair or round of another process brings one back.  (The cancellation may carry that
\* pid on until its child is long gone.)
RecordedPidHasItsExecutor ==
  ~past.died /\ row.pid # Nobody => round[row.pid].pc \in {"executing", "reaped"}

\* A cancelled round ends, unless its process dies or a crossing message takes the
\* cancellation back.
CancelEndsTheRound ==
  row.stop /\ row.status \in Active
    ~> row.status \notin Active \/ past.crossed \/ past.died
=============================================================================
