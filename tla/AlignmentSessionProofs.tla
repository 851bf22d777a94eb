----------------------- MODULE AlignmentSessionProofs -----------------------
(***************************************************************************)
(* Proofs about one alignment session.  What the operations rely on is the *)
(* row's status, which each of them reads first: as long as no two calls   *)
(* are served at once, Calm is kept by every step.  It says of every round *)
(* and of every call what it still knows about the row and bundle.yml      *)
(* when it comes to write them.                                            *)
(***************************************************************************)
EXTENDS AlignmentSession, FiniteSetTheorems, TLAPS

-----------------------------------------------------------------------------
(* The inductive invariant.                                                *)

Resting == {"none", "closing"}
Filing == {"executing", "reaped", "reading", "staging", "saying", "writing", "marking",
           "validating"}

\* A call at one of these places has checked that no round is at work, and nothing has
\* started one since; one that takes up or follows a run has not checked.
Checked == {"message", "notice", "start", "launch", "load", "sync", "import", "imported",
            "delete"}
Busy(me) == me.pc \notin {"idle", "waits", "stop", "signal"}

\* The operation a call is serving, told by the place it has reached.
OpsAt(pc) ==
  CASE pc \in {"idle", "waits"} -> {"none"}
    [] pc \in {"stop", "signal"} -> {"cancel"}
    [] pc \in {"message", "start", "launch"} -> {"message"}
    [] pc = "notice" -> {"message", "sync"}
    [] pc \in {"load", "sync"} -> {"sync"}
    [] pc = "delete" -> {"delete"}
    [] OTHER -> {"import", "loop"}

\* The row s over the file f: what the last operation to write it left behind.
RowFine(s, f, said, synced) ==
  /\ ~synced /\ s.stage \in ConfirmedStages \cup {"ready"} => s.agreed = "confirmed"
  /\ ~synced /\ s.status = "ready"
       => s.agreed = "confirmed" /\ s.stage \in {"ready", "ready_review"}
  /\ s.status = "ready" /\ f.by # "user" => f.valid
  /\ s.kept => s.talk = said

\* What the round r knows of the row and the file: it has the whole transcript until it has
\* answered, carries a bundle only under a confirmed agreement, and counts its invocations
\* as the row counts its repairs.
RoundFine(r, s, f, said, synced) ==
  /\ r.pc \in {"staging", "saying"} => r.talk = said
  /\ r.pc = "staging" => r.stage = s.stage
  /\ \/ r.pc \in {"writing", "marking", "validating"}
     \/ r.pc = "saying" /\ r.out.bundle # "none"
     \/ r.pc = "ending" /\ r.goal = "ready"
     => synced \/ s.agreed = "confirmed"
  /\ r.pc = "loading" => r.tries = s.repairs
  /\ r.pc \in Filing => r.tries = s.repairs + 1
  /\ r.pc = "ending" =>
       /\ r.goal = "ready" => f.valid
       /\ r.goal = "repairing" => s.repairs = 0 /\ r.tries = 1
       /\ r.goal = "failed" /\ r.out.bundle = "invalid" => r.tries = 2

\* What the call me knows of them.
CallFine(me, s, f, said, synced) ==
  /\ me.op \in OpsAt(me.pc)
  /\ me.pc \in {"message", "notice"} => me.seen.talk = said
  /\ me.pc = "message" => me.seen.status = s.status
  /\ me.pc = "message" /\ ~synced /\ me.seen.status = "ready"
       => me.seen.agreed = "confirmed" /\ me.seen.stage \in {"ready", "ready_review"}
  /\ me.pc \in {"start", "launch"} => s.repairs = 0
  /\ me.pc \in {"notice", "sync"} /\ me.arg = "ready" /\ f.by # "user" => f.valid

OneCall == \A c, d \in Callers : Busy(call[c]) /\ Busy(call[d]) => c = d
OneRound == \A v, w \in AtWork : v = w
StatusHeld ==
  /\ AtWork # {} => row.kept /\ row.status \in Active
  /\ row.status \in Active /\ ~past.died => AtWork # {}
CheckHolds ==
  \A c \in Callers : call[c].pc \in Checked => AtWork = {} /\ row.status \notin Active
RoundsFine == \A w \in Rounds : RoundFine(round[w], row, file, made.said, past.synced)
CallsFine == \A c \in Callers : CallFine(call[c], row, file, made.said, past.synced)

Calm ==
  /\ OneCall
  /\ OneRound
  /\ StatusHeld
  /\ CheckHolds
  /\ RowFine(row, file, made.said, past.synced)
  /\ RoundsFine
  /\ CallsFine

\* Whatever crosses, a session that is gone has no child, and a round ends with a result.
GoneHasNoChild == ~row.kept => row.pid = Nobody
EndsWithResult == \A w \in Rounds : round[w].pc = "ending" => round[w].goal # "none"

IInv ==
  /\ TypeOK
  /\ EndsWithResult
  /\ GoneHasNoChild
  /\ RecordedPidHasItsExecutor
  /\ ~past.crossed => Calm

-----------------------------------------------------------------------------
(* Types.                                                                  *)

\* A transcript with one more entry is one.
LEMMA LongerIsTalk == \A t \in Talk : Longer(t) \in Talk
  BY AlignmentAssumption DEF Talk, Longer

LEMMA NewRowIsRow == \A run \in BOOLEAN : NewRow(run) \in Row
<1>1. 0 \in Talk
  BY AlignmentAssumption DEF Talk
<1> QED
  BY <1>1 DEF NewRow, Row, Statuses, Active, Stages, Agreements

LEMMA IdleCallIsCall == IdleCall \in Call
  BY NewRowIsRow DEF IdleCall, Call

LEMMA NoRoundIsRound == NoRound \in Round
<1>1. (CHOOSE p \in Procs : TRUE) \in Procs
  BY AlignmentAssumption DEF Procs
<1>2. 0 \in Talk
  BY AlignmentAssumption DEF Talk
<1> QED
  BY <1>1, <1>2 DEF NoRound, Round, Silence, Output, Stages

LEMMA FailingIsRound ==
  ASSUME NEW w \in Rounds, round[w] \in Round
  PROVE  Failing(w) \in Round
<1>1. 0 \in Talk
  BY AlignmentAssumption DEF Talk
<1> QED
  BY <1>1 DEF Failing, Round, Silence, Output, Stages

LEMMA InitTypes == Init => TypeOK
<1> SUFFICES ASSUME Init PROVE TypeOK
  OBVIOUS
<1>1. 0 \in Talk /\ Longer(Longer(0)) \in Talk
  BY LongerIsTalk, AlignmentAssumption DEF Talk
<1>2. AskedRow \in Row
  BY <1>1, NewRowIsRow DEF AskedRow, Row, Statuses, Active, Stages, ConfirmedStages, Agreements
<1>3. row \in Row
  BY <1>2, NewRowIsRow DEF Init
<1>5. file \in File
  <2>1. NoFile \in File /\ Text("loopora", TRUE) \in File
    BY DEF File, NoFile, Text
  <2> QED
    BY <2>1 DEF Init
<1>4. made \in [said : Talk, asked : 0 .. MaxMessages]
  BY <1>3, AlignmentAssumption DEF Init, Row
<1> QED
  BY <1>3, <1>4, <1>5, IdleCallIsCall, NoRoundIsRound DEF Init, TypeOK

\* The types and the results of rounds, one kind of step after another.
Typed == TypeOK /\ EndsWithResult

LEMMA RoundTypes ==
  ASSUME Typed, NEW w \in Rounds,
         \/ Invoke(w) \/ ReadSession(w) \/ RecordAssistantMessage(w) \/ WriteCandidate(w)
         \/ MarkValidating(w) \/ ValidateCandidate(w) \/ EndRound(w) \/ CloseRound(w)
         \/ ChildEnds(w) \/ ExecutorStopped(w)
  PROVE  Typed'
<1>1. /\ row \in Row /\ file \in File /\ round[w] \in Round /\ Failing(w) \in Round
      /\ round \in [Rounds -> Round] /\ made \in [said : Talk, asked : 0 .. MaxMessages]
      /\ Longer(round[w].talk) \in Talk /\ Longer(made.said) \in Talk
  BY FailingIsRound, LongerIsTalk DEF Typed, TypeOK, Round
<1>2. row' \in Row
  <2>1. ChildGone \in Row
    BY <1>1 DEF ChildGone, Row
  <2>2. CASE Invoke(w)
    BY <1>1, <2>2 DEF Invoke, Row
  <2>5. CASE RecordAssistantMessage(w)
    <3>1. round[w].out.unfit \in BOOLEAN
      BY <1>1 DEF Round, Output
    <3> QED
      BY <1>1, <2>5, <3>1 DEF RecordAssistantMessage, Row
  <2>6. CASE MarkValidating(w)
    <3>1. "validating" \in Statuses /\ "compiling" \in Stages
      BY DEF Statuses, Active, Stages, ConfirmedStages
    <3> QED
      BY <1>1, <2>6, <3>1 DEF MarkValidating, Put, Row
  <2>3. CASE CloseRound(w)
    BY <1>1, <2>1, <2>3 DEF CloseRound, Put
  <2>4. CASE EndRound(w)
    <3>1. round[w].goal # "none"
      BY <2>4 DEF EndRound, Typed, EndsWithResult
    <3>2. /\ {"ready", "repairing", "waiting_user", "failed"} \subseteq Statuses
          /\ "ready" \in Stages
      BY DEF Statuses, Active, Stages
    <3>3. round[w].goal \in {"ready", "repairing", "waiting_user", "failed"}
      BY <1>1, <3>1 DEF Round
    <3>4. Ended(round[w].goal) \in Row
      <4>1. CASE round[w].goal = "ready"
        BY <1>1, <2>1, <3>2, <4>1 DEF Ended, Row
      <4>2. CASE round[w].goal = "repairing"
        BY <1>1, <3>2, <4>2 DEF Ended, Row
      <4>3. CASE round[w].goal \in {"waiting_user", "failed"}
        BY <1>1, <2>1, <3>2, <4>3 DEF Ended, Row
      <4> QED
        BY <3>3, <4>1, <4>2, <4>3
    <3> QED
      BY <1>1, <2>4, <3>4 DEF EndRound, Put
  <2> QED
    BY <1>1, <2>2, <2>3, <2>4, <2>5, <2>6 DEF ReadSession, WriteCandidate, ValidateCandidate,
       ChildEnds, ExecutorStopped
<1>3. PICK r \in Round : To(w, r) /\ (r.pc = "ending" => r.goal # "none")
  <2> SUFFICES \E r \in Round : To(w, r) /\ (r.pc = "ending" => r.goal # "none")
    OBVIOUS
  <2>1. Failing(w).goal = "failed"
    BY <1>1 DEF Failing, Round
  <2>2. CASE Invoke(w)
    <3> DEFINE r == [round[w] EXCEPT !.pc = "executing", !.tries = @ + 1]
    <3>1. round[w].tries + 1 \in Nat
      BY <1>1 DEF Round
    <3>2. r \in Round /\ r.pc = "executing"
      BY <1>1, <3>1 DEF Round
    <3>3. To(w, r) \/ To(w, Failing(w))
      BY <2>2 DEF Invoke
    <3> HIDE DEF r
    <3> QED
      BY <1>1, <2>1, <3>2, <3>3
  <2>8. CASE ReadSession(w)
    <3> DEFINE r == [round[w] EXCEPT !.pc = "staging", !.stage = row.stage, !.talk = row.talk]
    <3>1. r \in Round /\ r.pc = "staging"
      BY <1>1 DEF Round, Row
    <3>2. To(w, r) \/ To(w, Failing(w))
      BY <2>8 DEF ReadSession
    <3> HIDE DEF r
    <3> QED
      BY <1>1, <2>1, <3>1, <3>2
  <2>3. CASE RecordAssistantMessage(w)
    <3>1. Filed(round[w]) \in Round
          /\ (Filed(round[w]).pc = "ending" => Filed(round[w]).goal # "none")
      BY <1>1, <2>3 DEF Filed, Round, RecordAssistantMessage
    <3> QED
      BY <1>1, <2>1, <2>3, <3>1 DEF RecordAssistantMessage
  <2>4. CASE WriteCandidate(w) \/ MarkValidating(w)
    BY <1>1, <2>1, <2>4 DEF WriteCandidate, MarkValidating, Round
  <2>5. CASE ValidateCandidate(w)
    <3>1. \A v \in BOOLEAN : CandidateOutcome(v, row.repairs) \in {"ready", "failed", "repairing"}
      BY DEF CandidateOutcome
    <3> DEFINE g == CandidateOutcome(round[w].out.bundle = "valid", row.repairs)
               r == [round[w] EXCEPT !.pc = "ending", !.goal = g]
    <3>2. g \in {"ready", "failed", "repairing"}
      BY <3>1
    <3>3. To(w, r) \/ To(w, Failing(w))
      BY <2>5 DEF ValidateCandidate
    <3> HIDE DEF g
    <3>4. r \in Round /\ r.goal # "none"
      BY <1>1, <3>2 DEF Round
    <3> HIDE DEF r
    <3> QED
      BY <1>1, <2>1, <3>3, <3>4
  <2>6. CASE EndRound(w)
    <3> DEFINE pc == IF round[w].goal = "repairing" /\ row.kept THEN "loading" ELSE "closing"
               r == [NoRound EXCEPT !.pc = pc, !.home = round[w].home, !.tries = round[w].tries]
    <3>1. r \in Round /\ r.pc # "ending"
      BY <1>1, NoRoundIsRound DEF Round
    <3>2. To(w, r)
      BY <2>6 DEF EndRound
    <3> HIDE DEF r
    <3> QED
      BY <3>1, <3>2
  <2>9. CASE CloseRound(w)
    BY <2>9, NoRoundIsRound DEF CloseRound, NoRound
  <2>7. CASE ChildEnds(w) \/ ExecutorStopped(w)
    <3>1. ASSUME NEW r \in Round
          PROVE  [r EXCEPT !.pc = "reaped"] \in Round /\ [r EXCEPT !.pc = "reaped"].pc = "reaped"
      BY DEF Round
    <3>2. \E r \in {round[w], Failing(w)} : To(w, [r EXCEPT !.pc = "reaped"])
      BY <2>7 DEF ChildEnds, ExecutorStopped
    <3> QED
      BY <1>1, <3>1, <3>2
  <2> QED
    BY <2>2, <2>3, <2>4, <2>5, <2>6, <2>7, <2>8, <2>9
<1>4. round' \in [Rounds -> Round] /\ EndsWithResult'
  BY <1>1, <1>3 DEF To, Typed, EndsWithResult
<1>5. file' \in File
  <2>1. \A valid \in BOOLEAN : Text("loopora", valid) \in File
    BY DEF File, Text
  <2> QED
    BY <1>1, <2>1 DEF Invoke, ReadSession, RecordAssistantMessage, WriteCandidate,
       MarkValidating, ValidateCandidate, EndRound, CloseRound, ChildEnds, ExecutorStopped
<1>6. made' \in [said : Talk, asked : 0 .. MaxMessages]
  BY <1>1 DEF Invoke, ReadSession, RecordAssistantMessage, WriteCandidate, MarkValidating,
     ValidateCandidate, EndRound, CloseRound, ChildEnds, ExecutorStopped
<1>7. /\ threads' \in [Procs -> Rounds \cup {Nobody}] /\ call' \in [Callers -> Call]
      /\ past' = past
  <2>1. threads \in [Procs -> Rounds \cup {Nobody}] /\ call \in [Callers -> Call]
    BY DEF Typed, TypeOK
  <2>2. CASE CloseRound(w)
    BY <2>1, <2>2, IdleCallIsCall DEF CloseRound
  <2> QED
    BY <2>1, <2>2 DEF Invoke, ReadSession, RecordAssistantMessage, WriteCandidate,
       MarkValidating, ValidateCandidate, EndRound, ChildEnds, ExecutorStopped
<1> QED
  BY <1>2, <1>4, <1>5, <1>6, <1>7 DEF Typed, TypeOK

\* The two steps whose round depends on what the agent answered.
LEMMA AnswerTypes ==
  ASSUME Typed, NEW w \in Rounds,
         ApplyOutputStage(w) \/ ClearChild(w)
  PROVE  Typed'
<1>1. /\ row \in Row /\ round[w] \in Round /\ Failing(w) \in Round /\ Failing(w).goal = "failed"
      /\ round \in [Rounds -> Round]
  BY FailingIsRound DEF Typed, TypeOK, Failing, Round
<1>2. CASE ClearChild(w)
  <2>1. row' \in Row
    BY <1>1, <1>2 DEF ClearChild, Put, ChildGone, Row
  <2>2. ASSUME NEW o \in Outputs
        PROVE  /\ [round[w] EXCEPT !.pc = "reading", !.out = o] \in Round
               /\ [round[w] EXCEPT !.pc = "reading", !.out = o].pc = "reading"
    <3>1. o \in Output
      BY OutputAssumption
    <3> QED
      BY <1>1, <3>1 DEF Round
  <2>3. \/ To(w, Failing(w))
        \/ \E o \in Outputs : To(w, [round[w] EXCEPT !.pc = "reading", !.out = o])
    BY <1>2 DEF ClearChild
  <2>4. PICK r \in Round : To(w, r) /\ (r.pc = "ending" => r.goal # "none")
    BY <1>1, <2>2, <2>3
  <2> QED
    BY <1>1, <1>2, <2>1, <2>4 DEF ClearChild, To, Typed, TypeOK, EndsWithResult
<1>3. CASE ApplyOutputStage(w)
  <2> DEFINE r == round[w]
             staged == StagedRow(r.out)
             fresh == r.out.phase \in {"agreement", "clarifying"}
             stage == IF fresh THEN staged.stage ELSE r.stage
             out == Gated(stage, StagedOutput(r.out))
             next == [r EXCEPT !.out = out, !.stage = stage,
                               !.talk = IF fresh THEN row.talk ELSE @]
  <2>1. staged \in Row
    <3>1. {"agreement_ready", "clarifying"} \subseteq Stages /\ "proposed" \in Agreements
      BY DEF Stages, Agreements
    <3> QED
      BY <1>1, <3>1 DEF StagedRow, Row
  <2>2. StagedOutput(r.out) \in Output
    BY <1>1 DEF StagedOutput, Round, Output
  <2>3. out \in Output
    BY <2>2 DEF Gated, Output
  <2>4. next \in Round /\ next.pc = "staging"
    BY <1>1, <1>3, <2>1, <2>3 DEF ApplyOutputStage, Round, Row
  <2>5. Filed(next) \in Round /\ (Filed(next).pc = "ending" => Filed(next).goal # "none")
    <3> HIDE DEF next
    <3> QED
      BY <2>4 DEF Filed, Round
  <2>6. [next EXCEPT !.pc = "saying"] \in Round /\ [next EXCEPT !.pc = "saying"].pc = "saying"
    <3> HIDE DEF next
    <3> QED
      BY <2>4 DEF Round
  <2>7. PICK n \in Round : To(w, n) /\ (n.pc = "ending" => n.goal # "none")
    <3> HIDE DEF next, out, staged
    <3> QED
      BY <1>1, <1>3, <2>5, <2>6 DEF ApplyOutputStage, next, out, staged, stage, fresh, r
  <2>8. row' \in Row
    BY <1>1, <1>3, <2>1 DEF ApplyOutputStage
  <2> QED
    BY <1>1, <1>3, <2>7, <2>8 DEF ApplyOutputStage, To, Typed, TypeOK, EndsWithResult
<1> QED
  BY <1>2, <1>3

\* A call begins, without a write to anything but what the user has asked.
LEMMA BeginTypes ==
  ASSUME Typed, NEW c \in Callers,
         \/ \E kind \in {"confirm", "other", "skip"} : BeginMessage(c, kind)
         \/ BeginCancel(c) \/ BeginSync(c) \/ BeginImport(c) \/ BeginLoop(c) \/ BeginDelete(c)
  PROVE  Typed'
<1>1. /\ row \in Row /\ call \in [Callers -> Call] /\ past.crossed \in BOOLEAN
      /\ past \in [crossed : BOOLEAN, died : BOOLEAN, synced : BOOLEAN]
      /\ made \in [said : Talk, asked : 0 .. MaxMessages]
  BY DEF Typed, TypeOK
<1>2. PICK pc \in {"message", "stop", "load", "import", "ran", "run", "delete"},
           op \in {"message", "cancel", "sync", "import", "loop", "delete"},
           arg \in {"none", "confirm", "other", "skip"} :
             Begin(c, pc, op, arg)
  <2>1. CASE \E kind \in {"confirm", "other", "skip"} : BeginMessage(c, kind)
    BY <2>1 DEF BeginMessage
  <2>2. CASE BeginCancel(c) \/ BeginSync(c)
    BY <2>2 DEF BeginCancel, BeginSync
  <2>3. CASE BeginImport(c) \/ BeginDelete(c)
    BY <2>3 DEF BeginImport, BeginDelete
  <2>4. CASE BeginLoop(c)
    BY <2>4 DEF BeginLoop
  <2> QED
    BY <2>1, <2>2, <2>3, <2>4
<1>3. /\ call' \in [Callers -> Call]
      /\ past' \in [crossed : BOOLEAN, died : BOOLEAN, synced : BOOLEAN]
  <2>1. \A s \in Row : [IdleCall EXCEPT !.pc = pc, !.op = op, !.arg = arg, !.seen = s] \in Call
    BY IdleCallIsCall DEF Call
  <2>2. IdleCall.seen \in Row
    BY IdleCallIsCall DEF Call
  <2>3. PICK s \in Row :
          [IdleCall EXCEPT !.pc = pc, !.op = op, !.arg = arg,
             !.seen = IF op = "message" THEN row
                      ELSE IF op = "cancel" THEN [@ EXCEPT !.pid = row.pid] ELSE @]
            = [IdleCall EXCEPT !.pc = pc, !.op = op, !.arg = arg, !.seen = s]
    <3>1. [IdleCall.seen EXCEPT !.pid = row.pid] \in Row
      BY <1>1, <2>2 DEF Row
    <3> QED
      BY <1>1, <2>2, <3>1, IdleCallIsCall DEF Call
  <2>4. Crossing(op) \in BOOLEAN
    BY DEF Crossing
  <2> QED
    BY <1>1, <1>2, <2>1, <2>3, <2>4 DEF Begin
<1>4. made' \in [said : Talk, asked : 0 .. MaxMessages]
  <2>1. made.asked < MaxMessages
          => [made EXCEPT !.asked = @ + 1] \in [said : Talk, asked : 0 .. MaxMessages]
    BY <1>1, AlignmentAssumption
  <2> QED
    BY <1>1, <2>1 DEF BeginMessage, BeginCancel, BeginSync, BeginImport, BeginLoop, BeginDelete
<1>5. UNCHANGED <<row, file, round, threads>>
  BY DEF BeginMessage, BeginCancel, BeginSync, BeginImport, BeginLoop, BeginDelete
<1> QED
  BY <1>1, <1>3, <1>4, <1>5 DEF Typed, TypeOK, EndsWithResult

\* The calls that write the row: a message, a notice, a reload, an import, a run, the stop
\* flag, a deletion.
LEMMA MessageIsRow ==
  ASSUME row \in Row, NEW seen \in Row,
         NEW kind \in {"none", "confirm", "other", "skip", "ready", "failed"}
  PROVE  MessageRow(seen, kind) \in Row
<1>1. Longer(seen.talk) \in Talk
  BY LongerIsTalk DEF Row
<1>2. UserStage(seen, kind).stage \in Stages /\ UserStage(seen, kind).agreed \in Agreements
  <2>1. /\ {"clarifying", "confirmed", "ready_review"} \subseteq Stages
        /\ {"none", "confirmed", "proposed"} \subseteq Agreements
    BY DEF Stages, ConfirmedStages, Agreements
  <2>2. /\ row.stage \in Stages /\ row.agreed \in Agreements
        /\ seen.agreed \in Agreements
    BY DEF Row
  <2> QED
    BY <2>1, <2>2 DEF UserStage
<1>3. (IF kind = "skip" THEN "skipped" ELSE row.status) \in Statuses
  BY DEF Row, Statuses
<1> DEFINE st == UserStage(seen, kind).stage
           ag == UserStage(seen, kind).agreed
<1> HIDE DEF st, ag
<1>4. [row EXCEPT !.talk = Longer(seen.talk), !.stop = FALSE, !.repairs = 0, !.stage = st,
                  !.agreed = ag, !.status = IF kind = "skip" THEN "skipped" ELSE @] \in Row
  BY <1>1, <1>2, <1>3 DEF Row, st, ag
<1> QED
  BY <1>4 DEF MessageRow, st, ag

LEMMA CallerRowTypes ==
  ASSUME Typed, NEW c \in Callers,
         \/ WriteMessage(c) \/ WriteNotice(c) \/ WriteSync(c) \/ WriteImported(c) \/ WriteRan(c)
         \/ RequestStop(c) \/ DeleteRow(c) \/ \E w \in Rounds : Launch(c, w)
  PROVE  row' \in Row
<1>1. row \in Row /\ call[c] \in Call /\ call[c].seen \in Row
  BY DEF Typed, TypeOK, Call
<1>2. {"ready", "failed", "imported", "running_loop", "running"} \subseteq Statuses
      /\ "ready" \in Stages
  BY DEF Statuses, Active, Stages
<1>3. CASE WriteMessage(c)
  BY <1>1, <1>3, MessageIsRow DEF WriteMessage, Call
<1>4. CASE WriteNotice(c)
  <2>1. Longer(call[c].seen.talk) \in Talk
    BY <1>1, LongerIsTalk DEF Row
  <2> QED
    BY <1>1, <1>4, <2>1 DEF WriteNotice, Row
<1>5. CASE WriteSync(c)
  BY <1>1, <1>2, <1>5 DEF WriteSync, Put, SyncedRow, ChildGone, Row
<1>6. CASE WriteImported(c)
  BY <1>1, <1>2, <1>6 DEF WriteImported, Put, ImportedRow, Row
<1>7. CASE WriteRan(c)
  BY <1>1, <1>2, <1>7 DEF WriteRan, Put, Row
<1>8. CASE RequestStop(c)
  BY <1>1, <1>8 DEF RequestStop, Put, Row
<1>9. CASE DeleteRow(c)
  BY <1>9, NewRowIsRow DEF DeleteRow, Row
<1>10. CASE \E w \in Rounds : Launch(c, w)
  BY <1>1, <1>2, <1>10 DEF Launch, RunningRow, Row
<1> QED
  BY <1>3, <1>4, <1>5, <1>6, <1>7, <1>8, <1>9, <1>10

LEMMA CallTypes ==
  ASSUME Typed, NEW c \in Callers,
         \/ WriteMessage(c) \/ WriteNotice(c) \/ CheckStart(c) \/ LaunchRefused(c)
         \/ \E w \in Rounds : Launch(c, w)
         \/ RequestStop(c) \/ SignalChild(c) \/ LoadFile(c) \/ WriteSync(c) \/ ImportText(c)
         \/ WriteImported(c) \/ StartRun(c) \/ WriteRan(c) \/ DeleteRow(c)
  PROVE  Typed'
<1>1. /\ row \in Row /\ file \in File /\ call \in [Callers -> Call]
      /\ round \in [Rounds -> Round] /\ threads \in [Procs -> Rounds \cup {Nobody}]
      /\ past \in [crossed : BOOLEAN, died : BOOLEAN, synced : BOOLEAN]
      /\ made \in [said : Talk, asked : 0 .. MaxMessages]
      /\ call[c] \in Call /\ Home[c] \in Procs
  BY DEF Typed, TypeOK, Procs
<1>2. row' \in Row
  BY <1>1, CallerRowTypes DEF CheckStart, LaunchRefused, SignalChild, LoadFile, ImportText,
     StartRun
<1>3. call' \in [Callers -> Call]
  <2>1. Finish(c) => call' \in [Callers -> Call]
    BY <1>1, IdleCallIsCall DEF Finish
  <2>2. ASSUME NEW pc \in {"sync", "launch", "imported", "run", "ran"}, Go(c, pc)
        PROVE  call' \in [Callers -> Call]
    <3>1. IdleCall.seen \in Row
      BY IdleCallIsCall DEF Call
    <3>2. [call[c] EXCEPT !.pc = pc, !.seen = IdleCall.seen] \in Call
      BY <1>1, <3>1 DEF Call
    <3> QED
      BY <1>1, <2>2, <3>2 DEF Go
  <2>3. CASE WriteMessage(c)
    BY <1>1, <1>2, <2>1, <2>3 DEF WriteMessage, Call
  <2>4. CASE WriteNotice(c) \/ CheckStart(c) \/ LaunchRefused(c) \/ SignalChild(c)
    BY <2>1, <2>2, <2>4 DEF WriteNotice, CheckStart, LaunchRefused, SignalChild
  <2>9. CASE RequestStop(c)
    <3>1. [call[c] EXCEPT !.pc = "signal"] \in Call
      BY <1>1 DEF Call
    <3> QED
      BY <1>1, <2>1, <2>9, <3>1 DEF RequestStop
  <2>5. CASE \E w \in Rounds : Launch(c, w)
    <3>1. \A w \in Rounds : [IdleCall EXCEPT !.pc = "waits", !.round = w] \in Call
      BY IdleCallIsCall DEF Call
    <3> QED
      BY <1>1, <2>1, <2>5, <3>1 DEF Launch
  <2>6. CASE LoadFile(c)
    BY <1>1, <2>1, <2>6 DEF LoadFile, Call
  <2>7. CASE WriteSync(c) \/ ImportText(c) \/ WriteImported(c)
    BY <2>1, <2>2, <2>7 DEF WriteSync, ImportText, WriteImported
  <2>8. CASE StartRun(c) \/ WriteRan(c) \/ DeleteRow(c)
    BY <2>1, <2>2, <2>8 DEF StartRun, WriteRan, DeleteRow
  <2> QED
    BY <2>3, <2>4, <2>5, <2>6, <2>7, <2>8, <2>9
<1>4. file' \in File
  <2>1. Text("loopora", TRUE) \in File /\ NoFile \in File
    BY DEF File, Text, NoFile
  <2> QED
    BY <1>1, <2>1 DEF WriteMessage, WriteNotice, CheckStart, LaunchRefused, Launch, RequestStop,
       SignalChild, LoadFile, WriteSync, ImportText, WriteImported, StartRun, WriteRan, DeleteRow
<1>5. made' \in [said : Talk, asked : 0 .. MaxMessages]
  <2>1. Longer(made.said) \in Talk
    BY <1>1, LongerIsTalk
  <2> QED
    BY <1>1, <2>1 DEF WriteMessage, WriteNotice, CheckStart, LaunchRefused, Launch, RequestStop,
       SignalChild, LoadFile, WriteSync, ImportText, WriteImported, StartRun, WriteRan, DeleteRow
<1>6. past' \in [crossed : BOOLEAN, died : BOOLEAN, synced : BOOLEAN]
  <2>1. CASE WriteSync(c)
    BY <1>1, <2>1 DEF WriteSync
  <2>2. CASE WriteRan(c)
    BY <1>1, <2>2 DEF WriteRan
  <2> QED
    BY <1>1, <2>1, <2>2 DEF WriteMessage, WriteNotice, CheckStart, LaunchRefused, Launch,
       RequestStop, SignalChild, LoadFile, ImportText, WriteImported, StartRun, DeleteRow
<1>7. round' \in [Rounds -> Round] /\ EndsWithResult'
      /\ threads' \in [Procs -> Rounds \cup {Nobody}]
  <2>1. CASE \E w \in Rounds : Launch(c, w)
    <3>1. PICK w \in Rounds : Launch(c, w)
      BY <2>1
    <3>2. [NoRound EXCEPT !.pc = "loading", !.home = Home[c]] \in Round
          /\ [NoRound EXCEPT !.pc = "loading", !.home = Home[c]].pc = "loading"
      BY <1>1, NoRoundIsRound DEF Round
    <3> QED
      BY <1>1, <3>1, <3>2 DEF Launch, To, Typed, EndsWithResult
  <2> QED
    BY <1>1, <2>1 DEF WriteMessage, WriteNotice, CheckStart, LaunchRefused, RequestStop,
       SignalChild, LoadFile, WriteSync, ImportText, WriteImported, StartRun, WriteRan,
       DeleteRow, Typed,
       EndsWithResult
<1> QED
  BY <1>2, <1>3, <1>4, <1>5, <1>6, <1>7 DEF Typed, TypeOK

LEMMA DeathTypes ==
  ASSUME Typed, (\E p \in Procs : Die(p)) \/ \E valid \in BOOLEAN : EditFile(valid)
  PROVE  Typed'
<1>1. CASE \E p \in Procs : Die(p)
  <2>1. NoRound.pc = "none"
    BY DEF NoRound
  <2>2. PICK p \in Procs : Die(p)
    BY <1>1
  <2>3. round' \in [Rounds -> Round] /\ EndsWithResult'
    BY <2>1, <2>2, NoRoundIsRound DEF Die, Typed, TypeOK, EndsWithResult
  <2>4. call' \in [Callers -> Call]
    BY <2>2, IdleCallIsCall DEF Die, Typed, TypeOK
  <2>5. /\ threads' \in [Procs -> Rounds \cup {Nobody}]
        /\ past' \in [crossed : BOOLEAN, died : BOOLEAN, synced : BOOLEAN]
    BY <2>2 DEF Die, Typed, TypeOK
  <2> QED
    BY <2>2, <2>3, <2>4, <2>5 DEF Die, Typed, TypeOK
<1>2. CASE \E valid \in BOOLEAN : EditFile(valid)
  <2>1. \A valid \in BOOLEAN : Text("user", valid) \in File
    BY DEF File, Text
  <2> QED
    BY <1>2, <2>1 DEF EditFile, Typed, TypeOK, EndsWithResult
<1> QED
  BY <1>1, <1>2

LEMMA NextTypes == Typed /\ [Next]_vars => Typed'
<1> SUFFICES ASSUME Typed, [Next]_vars PROVE Typed'
  OBVIOUS
<1>1. CASE UNCHANGED vars
  BY <1>1 DEF vars, Typed, TypeOK, EndsWithResult
<1>2. CASE Next
  BY <1>2, RoundTypes, AnswerTypes, BeginTypes, CallTypes, DeathTypes
  DEF Next, RoundStep, CallerStep
<1> QED
  BY <1>1, <1>2

-----------------------------------------------------------------------------
(* The child of a round.                                                   *)

Child == GoneHasNoChild /\ RecordedPidHasItsExecutor

\* An executor is at work in these places.
InExecutor == {"executing", "reaped"}

\* A step that starts no child and leaves the ones at work alone.
LEMMA ChildStays ==
  ASSUME Typed, Typed', Child,
         row'.pid \in {row.pid, Nobody},
         row'.kept \/ row'.pid = Nobody,
         past.died => past.died',
         \A w \in Rounds : round[w].pc \in InExecutor => round'[w].pc \in InExecutor
  PROVE  Child'
<1>1. row.pid \in Rounds \cup {Nobody}
  BY DEF Typed, TypeOK, Row
<1> QED
  BY <1>1 DEF Child, GoneHasNoChild, RecordedPidHasItsExecutor, InExecutor

LEMMA RoundChild ==
  ASSUME Typed, Typed', Child, NEW w \in Rounds,
         RoundStep(w) \/ ChildEnds(w) \/ ExecutorStopped(w)
  PROVE  Child'
<1>1. /\ row \in Row /\ round[w] \in Round /\ round \in [Rounds -> Round] /\ row' \in Row
      /\ ~row.kept => row.pid = Nobody
  BY DEF Typed, TypeOK, Child, GoneHasNoChild
<1>2. CASE Invoke(w)
  <2>1. CASE row.kept
    <3>1. [round[w] EXCEPT !.pc = "executing", !.tries = @ + 1].pc = "executing"
      BY <1>1 DEF Round
    <3>2. row'.pid = w /\ row'.kept
      BY <1>1, <1>2, <2>1 DEF Invoke, Row
    <3>3. round'[w].pc = "executing"
      BY <1>1, <1>2, <2>1, <3>1 DEF Invoke, To
    <3> QED
      BY <3>2, <3>3 DEF Child, GoneHasNoChild, RecordedPidHasItsExecutor
  <2>2. CASE ~row.kept
    BY <1>1, <1>2, <2>2 DEF Invoke, Child, GoneHasNoChild, RecordedPidHasItsExecutor
  <2> QED
    BY <2>1, <2>2
<1>3. CASE ClearChild(w)
  <2>1. row'.pid = Nobody
    BY <1>1, <1>3 DEF ClearChild, Put, ChildGone, Row
  <2> QED
    BY <2>1 DEF Child, GoneHasNoChild, RecordedPidHasItsExecutor
<1>5. CASE ChildEnds(w) \/ ExecutorStopped(w)
  <2>1. UNCHANGED <<row, past>>
        /\ \E r \in {round[w], Failing(w)} : To(w, [r EXCEPT !.pc = "reaped"])
    BY <1>5 DEF ChildEnds, ExecutorStopped
  <2>2. \A r \in Round : [r EXCEPT !.pc = "reaped"].pc \in InExecutor
    BY DEF Round, InExecutor
  <2>3. \A v \in Rounds : round[v].pc \in InExecutor => round'[v].pc \in InExecutor
    BY <1>1, <2>1, <2>2, FailingIsRound DEF To
  <2> QED
    BY <1>1, <2>1, <2>3, ChildStays
<1>4. CASE \/ ReadSession(w) \/ ApplyOutputStage(w) \/ RecordAssistantMessage(w)
           \/ WriteCandidate(w) \/ MarkValidating(w) \/ ValidateCandidate(w)
           \/ EndRound(w) \/ CloseRound(w)
  <2>1. row'.pid \in {row.pid, Nobody} /\ row'.kept = row.kept
    <3>1. CASE ReadSession(w) \/ WriteCandidate(w) \/ ValidateCandidate(w)
      BY <3>1 DEF ReadSession, WriteCandidate, ValidateCandidate
    <3>2. CASE ApplyOutputStage(w)
      <4>1. StagedRow(round[w].out).pid = row.pid /\ StagedRow(round[w].out).kept = row.kept
        BY <1>1 DEF StagedRow, Row
      <4> QED
        BY <1>1, <3>2, <4>1 DEF ApplyOutputStage
    <3>3. CASE RecordAssistantMessage(w) \/ MarkValidating(w) \/ CloseRound(w)
      BY <1>1, <3>3 DEF RecordAssistantMessage, MarkValidating, CloseRound, Put, ChildGone, Row
    <3>4. CASE EndRound(w)
      <4>1. Ended(round[w].goal).pid \in {row.pid, Nobody} /\ Ended(round[w].goal).kept = row.kept
        BY <1>1 DEF Ended, ChildGone, Row
      <4> QED
        BY <1>1, <3>4, <4>1 DEF EndRound, Put
    <3> QED
      BY <1>4, <3>1, <3>2, <3>3, <3>4
  <2>2. row'.kept \/ row'.pid = Nobody
    BY <1>1, <2>1 DEF Row
  <2>3. round[w].pc \notin InExecutor /\ (\E r : To(w, r)) /\ past' = past
    BY <1>4 DEF InExecutor, ReadSession, ApplyOutputStage, RecordAssistantMessage, WriteCandidate,
       MarkValidating, ValidateCandidate, EndRound, CloseRound
  <2>4. \A v \in Rounds : round[v].pc \in InExecutor => round'[v].pc \in InExecutor
    BY <1>1, <2>3 DEF To
  <2> QED
    BY <2>1, <2>2, <2>3, <2>4, ChildStays
<1> QED
  BY <1>2, <1>3, <1>4, <1>5 DEF RoundStep

LEMMA CallerChild ==
  ASSUME Typed, Typed', Child, NEW c \in Callers, CallerStep(c)
  PROVE  Child'
<1>1. row \in Row /\ round \in [Rounds -> Round] /\ (~row.kept => row.pid = Nobody)
      /\ NoRound \in Round
  BY NoRoundIsRound DEF Typed, TypeOK, Child, GoneHasNoChild
<1>2. CASE WriteMessage(c)
  BY <1>1, <1>2, ChildStays DEF WriteMessage, MessageRow, Row
<1>3. CASE WriteNotice(c) \/ RequestStop(c)
  BY <1>1, <1>3, ChildStays DEF WriteNotice, RequestStop, Put, Row
<1>4. CASE \E w \in Rounds : Launch(c, w)
  <2>1. PICK w \in Rounds : Launch(c, w)
    BY <1>4
  <2>2. row'.pid = Nobody /\ row'.kept /\ past' = past
    BY <1>1, <2>1 DEF Launch, RunningRow, Row
  <2>3. \A v \in Rounds : round[v].pc \in InExecutor => round'[v].pc \in InExecutor
    BY <1>1, <2>1 DEF Launch, To, InExecutor
  <2> QED
    BY <2>2, <2>3, ChildStays
<1>5. CASE WriteSync(c)
  <2>1. row'.pid \in {row.pid, Nobody} /\ row'.kept = row.kept
    BY <1>1, <1>5 DEF WriteSync, Put, SyncedRow, ChildGone, Row
  <2>2. past.died' = past.died /\ round' = round
    BY <1>5 DEF WriteSync, Typed, TypeOK
  <2> QED
    BY <1>1, <2>1, <2>2, ChildStays
<1>6. CASE WriteImported(c)
  BY <1>1, <1>6, ChildStays DEF WriteImported, Put, ImportedRow, Row
<1>7. CASE WriteRan(c)
  <2>1. row'.pid = row.pid /\ row'.kept = row.kept
    BY <1>1, <1>7 DEF WriteRan, Put, Row
  <2>2. past.died' = past.died /\ round' = round
    BY <1>7 DEF WriteRan, Typed, TypeOK
  <2> QED
    BY <1>1, <2>1, <2>2, ChildStays
<1>8. CASE DeleteRow(c)
  <2>1. row'.pid = Nobody
    BY <1>8 DEF DeleteRow, NewRow
  <2> QED
    BY <1>8, <2>1, ChildStays DEF DeleteRow
<1>9. CASE \/ \E kind \in {"confirm", "other", "skip"} : BeginMessage(c, kind)
           \/ BeginCancel(c) \/ BeginSync(c) \/ BeginImport(c) \/ BeginLoop(c) \/ BeginDelete(c)
  <2>1. UNCHANGED <<row, round>>
    BY <1>9 DEF BeginMessage, BeginCancel, BeginSync, BeginImport, BeginLoop, BeginDelete
  <2>2. past.died' = past.died
    BY <1>9 DEF BeginMessage, BeginCancel, BeginSync, BeginImport, BeginLoop, BeginDelete,
       Begin, Typed, TypeOK
  <2> QED
    BY <1>1, <2>1, <2>2, ChildStays
<1>10. CASE \/ CheckStart(c) \/ LaunchRefused(c) \/ SignalChild(c) \/ LoadFile(c)
            \/ ImportText(c) \/ StartRun(c)
  BY <1>10 DEF CheckStart, LaunchRefused, SignalChild, LoadFile, ImportText, StartRun, Child,
     GoneHasNoChild, RecordedPidHasItsExecutor
<1> QED
  BY <1>2, <1>3, <1>4, <1>5, <1>6, <1>7, <1>8, <1>9, <1>10 DEF CallerStep

LEMMA NextChild == Typed /\ Typed' /\ Child /\ [Next]_vars => Child'
<1> SUFFICES ASSUME Typed, Typed', Child, [Next]_vars PROVE Child'
  OBVIOUS
<1>1. CASE UNCHANGED vars
  BY <1>1 DEF vars, Child, GoneHasNoChild, RecordedPidHasItsExecutor
<1>2. CASE \E p \in Procs : Die(p)
  <2>1. past.died' /\ row' = row
    BY <1>2 DEF Die, Typed, TypeOK
  <2> QED
    BY <2>1 DEF Child, GoneHasNoChild, RecordedPidHasItsExecutor
<1>3. CASE \E valid \in BOOLEAN : EditFile(valid)
  BY <1>3 DEF EditFile, Child, GoneHasNoChild, RecordedPidHasItsExecutor
<1> QED
  BY <1>1, <1>2, <1>3, RoundChild, CallerChild DEF Next

-----------------------------------------------------------------------------
(* Steps of a round at work.                                               *)

LEMMA RestingIsFine ==
  ASSUME NEW r, NEW s, NEW f, NEW said, NEW synced, r.pc \in Resting
  PROVE  RoundFine(r, s, f, said, synced)
  BY DEF RoundFine, Resting, Filing

\* A call that has checked nothing knows nothing.
LEMMA UncheckedIsFine ==
  ASSUME NEW me, NEW s, NEW f, NEW said, NEW synced, me.op \in OpsAt(me.pc), me.pc \notin Checked
  PROVE  CallFine(me, s, f, said, synced)
  BY DEF CallFine, Checked

LEMMA AtWorkIs == \A w \in Rounds : w \in AtWork <=> round[w].pc \notin Resting
  BY DEF AtWork, Resting

LEMMA AtWorkIsThen == \A w \in Rounds : w \in AtWork' <=> round'[w].pc \notin Resting
  BY DEF AtWork, Resting

\* A failing round has nothing left to know.
LEMMA FailingIsFine ==
  ASSUME NEW w \in Rounds, round[w] \in Round, NEW s, NEW f, NEW said, NEW synced
  PROVE  RoundFine(Failing(w), s, f, said, synced) /\ Failing(w).pc = "ending"
<1>1. /\ Failing(w).pc = "ending" /\ Failing(w).goal = "failed"
      /\ Failing(w).out.bundle = "none"
  BY DEF Failing, Silence, Round
<1> QED
  BY <1>1 DEF RoundFine, Filing

\* A round's own step: no call that has checked the row is being served, no other round is
\* at work, so what the round knows after it is all there is to show.
LEMMA RoundCalm ==
  ASSUME Typed, Calm, NEW w \in AtWork, NEW r, To(w, r), call' = call, past' = past,
         RowFine(row', file', made'.said, past.synced), row'.kept,
         r.pc \in Resting <=> row'.status \notin Active,
         r.pc \notin Resting => RoundFine(r, row', file', made'.said, past.synced)
  PROVE  Calm'
<1>1. w \in Rounds /\ round[w].pc \notin Resting /\ round \in [Rounds -> Round]
  BY AtWorkIs DEF AtWork, Typed, TypeOK
<1>2. round'[w] = r /\ \A v \in Rounds \ {w} : round'[v] = round[v] /\ round[v].pc \in Resting
  BY <1>1, AtWorkIs DEF To, Calm, OneRound
<1>3. AtWork' \subseteq {w} /\ (w \in AtWork' <=> r.pc \notin Resting)
  BY <1>1, <1>2, AtWorkIsThen DEF AtWork
<1>4. \A c \in Callers : call[c].pc \notin Checked /\ call[c].op \in OpsAt(call[c].pc)
  BY DEF Calm, CheckHolds, CallsFine, CallFine
<1>5. RoundsFine'
  <2>1. ASSUME NEW v \in Rounds PROVE RoundFine(round'[v], row', file', made'.said, past'.synced)
    <3>1. CASE round'[v].pc \in Resting
      BY <3>1, RestingIsFine
    <3>2. CASE round'[v].pc \notin Resting
      BY <1>2, <3>2
    <3> QED
      BY <3>1, <3>2
  <2> QED
    BY <2>1 DEF RoundsFine
<1>6. CallsFine'
  BY <1>4, UncheckedIsFine DEF CallsFine
<1>7. OneCall' /\ CheckHolds'
  BY <1>4 DEF Calm, OneCall, CheckHolds, Busy
<1>8. OneRound' /\ StatusHeld'
  BY <1>3 DEF OneRound, StatusHeld
<1> QED
  BY <1>5, <1>6, <1>7, <1>8 DEF Calm

\* What a step of a round at work starts from.
LEMMA RoundStarts ==
  ASSUME Typed, Calm, NEW w \in Rounds, round[w].pc \notin Resting
  PROVE  /\ w \in AtWork /\ row.kept /\ row.status \in Active
         /\ RowFine(row, file, made.said, past.synced)
         /\ RoundFine(round[w], row, file, made.said, past.synced)
         /\ row \in Row /\ round[w] \in Round /\ file \in File
         /\ past.synced \in BOOLEAN
         /\ made \in [said : Talk, asked : 0 .. MaxMessages]
  BY AtWorkIs DEF Calm, StatusHeld, RoundsFine, Typed, TypeOK

\* The row's pid is of no concern.
LEMMA ChildGoneIsFine ==
  ASSUME row \in Row
  PROVE  /\ ChildGone \in Row
         /\ \A f, said, synced :
              RowFine(row, f, said, synced) => RowFine(ChildGone, f, said, synced)
         /\ \A r, f, said, synced :
              RoundFine(r, row, f, said, synced) => RoundFine(r, ChildGone, f, said, synced)
         /\ ChildGone.status = row.status /\ ChildGone.kept = row.kept
         /\ ChildGone.repairs = row.repairs /\ ChildGone.stage = row.stage
         /\ ChildGone.talk = row.talk /\ ChildGone.agreed = row.agreed
<1>1. /\ ChildGone \in Row
      /\ ChildGone.status = row.status /\ ChildGone.kept = row.kept
      /\ ChildGone.repairs = row.repairs /\ ChildGone.stage = row.stage
      /\ ChildGone.talk = row.talk /\ ChildGone.agreed = row.agreed
  BY DEF ChildGone, Row
<1> QED
  BY <1>1 DEF RowFine, RoundFine

LEMMA InvocationCalm ==
  ASSUME Typed, Calm, NEW w \in Rounds,
         \/ Invoke(w) \/ ChildEnds(w) \/ ExecutorStopped(w) \/ ClearChild(w)
         \/ ReadSession(w)
  PROVE  Calm'
<1>1. round[w].pc \in {"loading", "executing", "reaped", "reading"}
  BY DEF Invoke, ChildEnds, ExecutorStopped, ClearChild, ReadSession
<1>2. round[w].pc \notin Resting
  BY <1>1 DEF Resting
<1>3. /\ w \in AtWork /\ row.kept /\ row.status \in Active
      /\ RowFine(row, file, made.said, past.synced)
      /\ RoundFine(round[w], row, file, made.said, past.synced)
      /\ row \in Row /\ round[w] \in Round
  BY <1>2, RoundStarts
<1>4. CASE Invoke(w)
  <2> DEFINE r == [round[w] EXCEPT !.pc = "executing", !.tries = @ + 1]
             s == [row EXCEPT !.pid = w]
  <2>1. To(w, r) /\ row' = s /\ UNCHANGED <<file, call, made, past>>
    BY <1>3, <1>4 DEF Invoke
  <2>2. r.pc = "executing" /\ r.tries = round[w].tries + 1
    BY <1>3 DEF Round
  <2>3. /\ s.status = row.status /\ s.kept = row.kept /\ s.repairs = row.repairs
        /\ s.stage = row.stage /\ s.talk = row.talk /\ s.agreed = row.agreed
    BY <1>3 DEF Row
  <2>4. round[w].tries = row.repairs
    BY <1>3, <1>4 DEF Invoke, RoundFine
  <2> HIDE DEF r, s
  <2>5. RoundFine(r, s, file, made.said, past.synced) /\ r.pc \notin Resting
    BY <2>2, <2>3, <2>4 DEF RoundFine, Resting
  <2>6. RowFine(s, file, made.said, past.synced)
    BY <1>3, <2>3 DEF RowFine
  <2> QED
    BY <1>3, <2>1, <2>3, <2>5, <2>6, RoundCalm
<1>5. CASE ReadSession(w)
  <2> DEFINE r == [round[w] EXCEPT !.pc = "staging", !.stage = row.stage, !.talk = row.talk]
  <2>1. To(w, r) /\ UNCHANGED <<row, file, call, made, past>>
    BY <1>3, <1>5 DEF ReadSession
  <2>2. r.pc = "staging" /\ r.tries = round[w].tries /\ r.stage = row.stage /\ r.talk = row.talk
    BY <1>3 DEF Round
  <2>3. row.talk = made.said /\ round[w].tries = row.repairs + 1
    BY <1>3, <1>5 DEF ReadSession, RoundFine, RowFine, Filing
  <2> HIDE DEF r
  <2>4. RoundFine(r, row, file, made.said, past.synced) /\ r.pc \notin Resting
    BY <2>2, <2>3 DEF RoundFine, Resting
  <2> QED
    BY <1>3, <2>1, <2>4, RoundCalm
<1>6. CASE ChildEnds(w) \/ ExecutorStopped(w)
  <2>1. PICK q \in {round[w], Failing(w)} : To(w, [q EXCEPT !.pc = "reaped"])
    BY <1>6 DEF ChildEnds, ExecutorStopped
  <2>2. UNCHANGED <<row, file, call, made, past>>
    BY <1>6 DEF ChildEnds, ExecutorStopped
  <2> DEFINE r == [q EXCEPT !.pc = "reaped"]
  <2>3. r.pc = "reaped" /\ r.tries = round[w].tries
    BY <1>3, FailingIsRound DEF Failing, Round
  <2>4. round[w].tries = row.repairs + 1
    BY <1>3, <1>6 DEF ChildEnds, ExecutorStopped, RoundFine, Filing
  <2> HIDE DEF r
  <2>5. r.pc \notin Resting /\ RoundFine(r, row, file, made.said, past.synced)
    BY <2>3, <2>4 DEF RoundFine, Resting
  <2>6. To(w, r)
    BY <2>1 DEF r
  <2> QED
    BY <1>3, <2>2, <2>5, <2>6, RoundCalm
<1>7. CASE ClearChild(w)
  <2>1. row' = ChildGone /\ UNCHANGED <<file, call, made, past>>
    BY <1>3, <1>7 DEF ClearChild, Put
  <2>2. CASE To(w, Failing(w))
    <3>1. Failing(w).pc \notin Resting
          /\ RoundFine(Failing(w), row', file', made'.said, past.synced)
      BY <1>3, FailingIsFine DEF Resting
    <3> QED
      BY <1>3, <2>1, <2>2, <3>1, RoundCalm, ChildGoneIsFine
  <2>3. CASE ~To(w, Failing(w))
    <3>1. PICK o \in Outputs : To(w, [round[w] EXCEPT !.pc = "reading", !.out = o])
      BY <1>7, <2>3 DEF ClearChild
    <3> DEFINE r == [round[w] EXCEPT !.pc = "reading", !.out = o]
    <3>2. r.pc = "reading" /\ r.tries = round[w].tries
      BY <1>3 DEF Round
    <3>3. round[w].tries = row.repairs + 1
      BY <1>3, <1>7 DEF ClearChild, RoundFine, Filing
    <3> HIDE DEF r
    <3>4. r.pc \notin Resting /\ RoundFine(r, ChildGone, file, made.said, past.synced)
      BY <1>3, <3>2, <3>3, ChildGoneIsFine DEF RoundFine, Resting
    <3>5. To(w, r)
      BY <3>1 DEF r
    <3> QED
      BY <1>3, <2>1, <3>4, <3>5, RoundCalm, ChildGoneIsFine
  <2> QED
    BY <2>2, <2>3
<1> QED
  BY <1>4, <1>5, <1>6, <1>7

\* What comes after the answer: the bundle is written, or the round ends.
LEMMA FiledIsFine ==
  ASSUME NEW r \in Round, NEW s, NEW f, NEW said, NEW synced, r.pc \in {"staging", "saying"},
         r.tries = s.repairs + 1, r.out.bundle # "none" => synced \/ s.agreed = "confirmed"
  PROVE  RoundFine(Filed(r), s, f, said, synced) /\ Filed(r).pc \notin Resting
<1>1. CASE r.out.bundle # "none"
  <2>1. Filed(r) = [r EXCEPT !.pc = "writing"]
    BY <1>1 DEF Filed
  <2>2. Filed(r).pc = "writing" /\ Filed(r).tries = r.tries /\ Filed(r).out = r.out
    BY <2>1 DEF Round
  <2> QED
    BY <1>1, <2>2 DEF RoundFine, Resting
<1>2. CASE r.out.bundle = "none"
  <2>1. Filed(r).pc = "ending" /\ Filed(r).goal \in {"waiting_user", "failed"}
        /\ Filed(r).out = r.out
    BY <1>2 DEF Filed, Round
  <2> QED
    BY <1>2, <2>1 DEF RoundFine, Resting, Filing
<1> QED
  BY <1>1, <1>2

\* A bundle that passes the gate does so at a confirmed stage of the row just read.
LEMMA StageCalm ==
  ASSUME Typed, Calm, NEW w \in Rounds, ApplyOutputStage(w)
  PROVE  Calm'
<1> DEFINE r == round[w]
           staged == StagedRow(r.out)
           fresh == r.out.phase \in {"agreement", "clarifying"}
           stage == IF fresh THEN staged.stage ELSE r.stage
           out == Gated(stage, StagedOutput(r.out))
           talk == IF fresh THEN row.talk ELSE r.talk
           next == [r EXCEPT !.out = out, !.stage = stage, !.talk = talk]
<1>1. r.pc = "staging" /\ r.pc \notin Resting
  BY DEF ApplyOutputStage, Resting
<1>2. /\ w \in AtWork /\ row.kept /\ row.status \in Active
      /\ RowFine(row, file, made.said, past.synced)
      /\ RoundFine(r, row, file, made.said, past.synced)
      /\ row \in Row /\ r \in Round /\ past.synced \in BOOLEAN
  BY <1>1, RoundStarts
<1>3. r.talk = made.said /\ r.stage = row.stage /\ r.tries = row.repairs + 1
      /\ row.talk = made.said
  BY <1>1, <1>2 DEF RoundFine, RowFine, Filing
<1>4. /\ staged \in Row
      /\ staged.status = row.status /\ staged.kept = row.kept /\ staged.repairs = row.repairs
      /\ staged.talk = row.talk
      /\ \/ staged.stage \in {"agreement_ready", "clarifying"}
         \/ staged.stage = row.stage /\ staged.agreed = row.agreed
  <2>1. {"agreement_ready", "clarifying"} \subseteq Stages /\ "proposed" \in Agreements
    BY DEF Stages, Agreements
  <2>2. CASE r.out.phase = "agreement" /\ r.out.complete
    <3>1. staged = [row EXCEPT !.stage = "agreement_ready", !.agreed = "proposed"]
      BY <2>2 DEF StagedRow
    <3> HIDE DEF staged
    <3> QED
      BY <1>2, <2>1, <3>1 DEF Row
  <2>3. CASE r.out.phase = "clarifying" \/ (r.out.phase = "agreement" /\ ~r.out.complete)
    BY <1>2, <2>1, <2>3 DEF StagedRow, Row
  <2>4. CASE r.out.phase \notin {"agreement", "clarifying"}
    BY <1>2, <2>4 DEF StagedRow
  <2>5. r.out.complete \in BOOLEAN
    BY <1>2 DEF Round, Output
  <2> QED
    BY <2>2, <2>3, <2>4, <2>5
<1>5. RowFine(staged, file, made.said, past.synced)
  <2>1. row.status # "ready"
    BY <1>2 DEF Active
  <2> HIDE DEF staged
  <2> QED
    BY <1>2, <1>4, <2>1 DEF RowFine, ConfirmedStages
<1>6. out.bundle # "none" => past.synced \/ staged.agreed = "confirmed"
  <2> HAVE out.bundle # "none"
  <2>1. r.out \in Output /\ StagedOutput(r.out) \in Output
    BY <1>2 DEF StagedOutput, Round, Output
  <2>2. BundleAllowed(stage, StagedOutput(r.out)) /\ StagedOutput(r.out).bundle # "none"
    BY <2>1 DEF Gated, Output
  <2>3. r.out.phase = "bundle"
    BY <2>1, <2>2 DEF StagedOutput, BundleAllowed, Output
  <2>4. stage = row.stage /\ staged = row
    BY <1>3, <2>3 DEF StagedRow
  <2>5. row.stage \in ConfirmedStages
    <3> HIDE DEF stage
    <3> QED
      BY <2>2, <2>4 DEF BundleAllowed
  <2> QED
    BY <1>2, <2>4, <2>5 DEF RowFine
<1>7. out \in Output /\ stage \in Stages /\ talk \in Talk /\ talk = made.said
  <2>1. StagedOutput(r.out) \in Output
    BY <1>2 DEF StagedOutput, Round, Output
  <2>2. out \in Output
    BY <2>1 DEF Gated, Output
  <2>3. stage \in Stages
    BY <1>2, <1>4 DEF Round, Row
  <2> QED
    BY <1>2, <1>3, <2>2, <2>3 DEF Round, Row
<1>8. /\ next \in Round /\ next.pc = "staging" /\ next.talk = made.said
      /\ next.tries = row.repairs + 1 /\ next.out = out
  <2> HIDE DEF out, stage, talk
  <2> QED
    BY <1>1, <1>2, <1>3, <1>7 DEF Round
<1>9. /\ UNCHANGED <<file, call, made, past>> /\ row' = staged
      /\ To(w, IF out.says THEN [next EXCEPT !.pc = "saying"] ELSE Filed(next))
  BY <1>2 DEF ApplyOutputStage
<1> HIDE DEF staged, out, talk, next
<1>10. /\ RoundFine(Filed(next), staged, file, made.said, past.synced)
       /\ Filed(next).pc \notin Resting
  BY <1>4, <1>6, <1>8, FiledIsFine
<1>11. /\ RoundFine([next EXCEPT !.pc = "saying"], staged, file, made.said, past.synced)
       /\ [next EXCEPT !.pc = "saying"].pc \notin Resting
  <2> DEFINE n == [next EXCEPT !.pc = "saying"]
  <2>1. n.pc = "saying" /\ n.talk = next.talk /\ n.tries = next.tries /\ n.out = next.out
    BY <1>8 DEF Round
  <2> HIDE DEF n
  <2>2. RoundFine(n, staged, file, made.said, past.synced) /\ n.pc \notin Resting
    BY <1>4, <1>6, <1>8, <2>1 DEF RoundFine, Resting
  <2> QED
    BY <2>2 DEF n
<1> QED
  BY <1>2, <1>4, <1>5, <1>9, <1>10, <1>11, RoundCalm

LEMMA AnswerCalm ==
  ASSUME Typed, Calm, NEW w \in Rounds, RecordAssistantMessage(w)
  PROVE  Calm'
<1> DEFINE r == round[w]
           s == [row EXCEPT !.talk = Longer(r.talk), !.offer = r.out.unfit]
<1>1. r.pc = "saying" /\ r.pc \notin Resting
  BY DEF RecordAssistantMessage, Resting
<1>2. /\ w \in AtWork /\ row.kept /\ row.status \in Active
      /\ RowFine(row, file, made.said, past.synced)
      /\ RoundFine(r, row, file, made.said, past.synced)
      /\ row \in Row /\ r \in Round
      /\ made \in [said : Talk, asked : 0 .. MaxMessages]
  BY <1>1, RoundStarts
<1>3. /\ row' = s /\ To(w, Filed(r)) /\ UNCHANGED <<file, call, past>>
      /\ made' = [made EXCEPT !.said = Longer(@)]
  BY <1>2 DEF RecordAssistantMessage
<1>4. /\ s.status = row.status /\ s.kept = row.kept /\ s.repairs = row.repairs
      /\ s.stage = row.stage /\ s.agreed = row.agreed /\ s.talk = Longer(r.talk)
  BY <1>2 DEF Row
<1>5. r.talk = made.said /\ r.tries = row.repairs + 1
      /\ (r.out.bundle # "none" => past.synced \/ row.agreed = "confirmed")
  BY <1>1, <1>2 DEF RoundFine, Filing
<1>6. made'.said = Longer(made.said)
  BY <1>2, <1>3
<1> HIDE DEF s
<1>7. RowFine(s, file, made'.said, past.synced)
  BY <1>2, <1>4, <1>5, <1>6 DEF RowFine
<1>8. /\ RoundFine(Filed(r), s, file, made'.said, past.synced)
      /\ Filed(r).pc \notin Resting
  BY <1>1, <1>2, <1>4, <1>5, FiledIsFine
<1> QED
  BY <1>2, <1>3, <1>4, <1>7, <1>8, RoundCalm

\* The candidate: written, marked, validated, all under the agreement the gate asked for.
LEMMA CandidateCalm ==
  ASSUME Typed, Calm, NEW w \in Rounds,
         WriteCandidate(w) \/ MarkValidating(w) \/ ValidateCandidate(w)
  PROVE  Calm'
<1>1. round[w].pc \in {"writing", "marking", "validating"} /\ round[w].pc \notin Resting
  BY DEF WriteCandidate, MarkValidating, ValidateCandidate, Resting
<1>2. /\ w \in AtWork /\ row.kept /\ row.status \in Active
      /\ RowFine(row, file, made.said, past.synced)
      /\ RoundFine(round[w], row, file, made.said, past.synced)
      /\ row \in Row /\ round[w] \in Round
  BY <1>1, RoundStarts
<1>3. /\ past.synced \/ row.agreed = "confirmed"
      /\ round[w].tries = row.repairs + 1
      /\ row.status # "ready" /\ row.talk = made.said
  BY <1>1, <1>2 DEF RoundFine, RowFine, Filing, Active
<1>4. CASE WriteCandidate(w)
  <2> DEFINE r == [round[w] EXCEPT !.pc = "marking"]
  <2>1. To(w, r) /\ UNCHANGED <<row, call, made, past>>
    BY <1>2, <1>4 DEF WriteCandidate
  <2>2. r.pc = "marking" /\ r.tries = round[w].tries
    BY <1>2 DEF Round
  <2> HIDE DEF r
  <2>3. r.pc \notin Resting /\ RoundFine(r, row, file', made.said, past.synced)
    BY <1>3, <2>2 DEF RoundFine, Resting
  <2>4. RowFine(row, file', made.said, past.synced)
    BY <1>2, <1>3 DEF RowFine
  <2> QED
    BY <1>2, <2>1, <2>3, <2>4, RoundCalm
<1>5. CASE MarkValidating(w)
  <2> DEFINE r == [round[w] EXCEPT !.pc = "validating"]
             s == [row EXCEPT !.status = "validating", !.stage = "compiling"]
  <2>1. To(w, r) /\ row' = s /\ UNCHANGED <<file, call, made, past>>
    BY <1>2, <1>5 DEF MarkValidating, Put
  <2>2. r.pc = "validating" /\ r.tries = round[w].tries
    BY <1>2 DEF Round
  <2>3. /\ s.status = "validating" /\ s.stage = "compiling" /\ s.kept = row.kept
        /\ s.agreed = row.agreed /\ s.talk = row.talk /\ s.repairs = row.repairs
    BY <1>2 DEF Row
  <2> HIDE DEF r, s
  <2>4. r.pc \notin Resting /\ RoundFine(r, s, file, made.said, past.synced)
    BY <1>3, <2>2, <2>3 DEF RoundFine, Resting
  <2>5. RowFine(s, file, made.said, past.synced) /\ s.status \in Active
    BY <1>2, <1>3, <2>3 DEF RowFine, Active
  <2> QED
    BY <1>2, <2>1, <2>3, <2>4, <2>5, RoundCalm
<1>6. CASE ValidateCandidate(w)
  <2> DEFINE valid == round[w].out.bundle = "valid"
             goal == CandidateOutcome(valid, row.repairs)
             r == [round[w] EXCEPT !.pc = "ending", !.goal = goal]
  <2>1. /\ To(w, r) /\ UNCHANGED <<row, call, made, past>>
        /\ file' = IF valid THEN Text("loopora", TRUE) ELSE file
    BY <1>2, <1>6 DEF ValidateCandidate
  <2>2. /\ goal \in {"ready", "failed", "repairing"}
        /\ goal = "ready" => valid
        /\ goal = "failed" => row.repairs = 1
        /\ goal = "repairing" => row.repairs = 0
    BY <1>2 DEF CandidateOutcome, Row
  <2>3. goal = "ready" => file'.valid
    BY <2>1, <2>2 DEF Text
  <2> HIDE DEF goal
  <2>4. r.pc = "ending" /\ r.tries = round[w].tries /\ r.goal = goal
    BY <1>2, <2>2 DEF Round
  <2> HIDE DEF r
  <2>5. r.pc \notin Resting /\ RoundFine(r, row, file', made.said, past.synced)
    BY <1>3, <2>2, <2>3, <2>4 DEF RoundFine, Resting, Filing
  <2>6. RowFine(row, file', made.said, past.synced)
    BY <1>2, <1>3 DEF RowFine
  <2> QED
    BY <1>2, <2>1, <2>5, <2>6, RoundCalm
<1> QED
  BY <1>4, <1>5, <1>6

\* The end of a round: its status takes the row out of the active ones, or a repair begins.
LEMMA EndCalm ==
  ASSUME Typed, Calm, NEW w \in Rounds, EndRound(w)
  PROVE  Calm'
<1> DEFINE goal == round[w].goal
           pc == IF goal = "repairing" /\ row.kept THEN "loading" ELSE "closing"
           r == [NoRound EXCEPT !.pc = pc, !.home = round[w].home, !.tries = round[w].tries]
           s == Ended(goal)
<1>1. round[w].pc = "ending" /\ round[w].pc \notin Resting
  BY DEF EndRound, Resting
<1>2. /\ w \in AtWork /\ row.kept /\ row.status \in Active
      /\ RowFine(row, file, made.said, past.synced)
      /\ RoundFine(round[w], row, file, made.said, past.synced)
      /\ row \in Row /\ round[w] \in Round
  BY <1>1, RoundStarts
<1>3. To(w, r) /\ row' = s /\ UNCHANGED <<file, call, made, past>>
  BY <1>2 DEF EndRound, Put
<1>4. /\ goal = "ready" => file.valid /\ (past.synced \/ row.agreed = "confirmed")
      /\ goal = "repairing" => row.repairs = 0 /\ round[w].tries = 1
      /\ goal \in {"waiting_user", "ready", "failed", "repairing"}
  BY <1>1, <1>2 DEF RoundFine, Typed, EndsWithResult, Round
<1>5. r.pc = pc /\ r.tries = round[w].tries
  BY <1>2, NoRoundIsRound DEF Round
<1>6. /\ s.status = goal /\ s.kept = row.kept /\ s.agreed = row.agreed /\ s.talk = row.talk
      /\ s.stage = IF goal = "ready" THEN "ready" ELSE row.stage
      /\ s.repairs = IF goal = "repairing" THEN 1 ELSE row.repairs
  BY <1>2, <1>4, ChildGoneIsFine DEF Ended, Row
<1> HIDE DEF r, s, goal
<1>7. r.pc \in Resting <=> goal # "repairing"
  BY <1>2, <1>5 DEF Resting
<1>8. r.pc \notin Resting => RoundFine(r, s, file, made.said, past.synced)
  BY <1>2, <1>4, <1>5, <1>6, <1>7 DEF RoundFine, Filing, goal
<1>9. RowFine(s, file, made.said, past.synced)
  BY <1>2, <1>4, <1>6 DEF RowFine, ConfirmedStages, Active
<1>10. goal # "repairing" <=> s.status \notin Active
  BY <1>4, <1>6 DEF Active
<1> QED
  BY <1>2, <1>3, <1>6, <1>7, <1>8, <1>9, <1>10, RoundCalm

-----------------------------------------------------------------------------
(* Steps of the callers, and the rest.                                     *)

\* Nothing a round or a call knows of the row is written.
SameFields(s, t) ==
  /\ s.kept = t.kept /\ s.status = t.status /\ s.stage = t.stage /\ s.agreed = t.agreed
  /\ s.repairs = t.repairs /\ s.talk = t.talk

LEMMA SameFieldsAreFine ==
  ASSUME NEW s, NEW t, SameFields(s, t), NEW f, NEW said, NEW synced
  PROVE  /\ RowFine(s, f, said, synced) => RowFine(t, f, said, synced)
         /\ \A r : RoundFine(r, s, f, said, synced) => RoundFine(r, t, f, said, synced)
         /\ \A me : CallFine(me, s, f, said, synced) => CallFine(me, t, f, said, synced)
<1>1. RowFine(s, f, said, synced) => RowFine(t, f, said, synced)
  BY DEF SameFields, RowFine
<1>2. \A r : RoundFine(r, s, f, said, synced) => RoundFine(r, t, f, said, synced)
  BY DEF SameFields, RoundFine
<1>3. \A me : CallFine(me, s, f, said, synced) => CallFine(me, t, f, said, synced)
  BY DEF SameFields, CallFine
<1> QED
  BY <1>1, <1>2, <1>3

LEMMA IdleIsFine ==
  \A s, f, said, synced : CallFine(IdleCall, s, f, said, synced) /\ IdleCall.pc \notin Checked
                          /\ ~Busy(IdleCall)
  BY DEF CallFine, IdleCall, OpsAt, Checked, Busy

\* A cancellation that has left its flag and will signal a child.
Signalling(me) == me.pc = "signal" /\ me.op = "cancel"

LEMMA SignallingIsFine ==
  \A me, s, f, said, synced :
    Signalling(me) => CallFine(me, s, f, said, synced) /\ me.pc \notin Checked /\ ~Busy(me)
  BY DEF Signalling, CallFine, OpsAt, Checked, Busy

\* Calls become idle or signal, and rounds rest, the row saying what it said: the shape of a
\* cancellation, of the end of a round and of a death.
LEMMA IdlingCalm ==
  ASSUME Typed, Calm,
         SameFields(row, row'), file' = file, made' = made, past'.synced = past.synced,
         past.died => past'.died,
         \A c \in Callers : call'[c] \in {call[c], IdleCall} \/ Signalling(call'[c]),
         \A w \in Rounds : round'[w] = round[w] \/ round'[w].pc \in Resting,
         AtWork' = AtWork \/ past'.died
  PROVE  Calm'
<1>1. AtWork' \subseteq AtWork
  BY AtWorkIs, AtWorkIsThen DEF AtWork
<1>2. RowFine(row, file, made.said, past.synced)'
  BY SameFieldsAreFine DEF Calm
<1>3. RoundsFine'
  BY SameFieldsAreFine, RestingIsFine DEF Calm, RoundsFine
<1>4. CallsFine'
  BY SameFieldsAreFine, IdleIsFine, SignallingIsFine DEF Calm, CallsFine
<1>5. OneCall'
  BY IdleIsFine, SignallingIsFine DEF Calm, OneCall
<1>6. OneRound'
  BY <1>1 DEF Calm, OneRound
<1>7. StatusHeld'
  BY <1>1 DEF Calm, StatusHeld, SameFields
<1>8. CheckHolds'
  BY <1>1, IdleIsFine, SignallingIsFine DEF Calm, CheckHolds, SameFields
<1> QED
  BY <1>2, <1>3, <1>4, <1>5, <1>6, <1>7, <1>8 DEF Calm

LEMMA CloseCalm ==
  ASSUME Typed, Calm, NEW w \in Rounds, CloseRound(w)
  PROVE  Calm'
<1>1. row \in Row /\ round \in [Rounds -> Round] /\ round[w].pc = "closing"
  BY DEF Typed, TypeOK, CloseRound
<1>2. SameFields(row, row')
  BY <1>1, ChildGoneIsFine DEF CloseRound, Put, SameFields
<1>3. /\ \A c \in Callers : call'[c] \in {call[c], IdleCall}
      /\ UNCHANGED <<file, made, past>>
  BY DEF CloseRound
<1>4. /\ round'[w].pc \in Resting /\ round[w].pc \in Resting
      /\ \A v \in Rounds \ {w} : round'[v] = round[v]
  BY <1>1 DEF CloseRound, To, NoRound, Resting
<1>5. AtWork' = AtWork
  BY <1>4, AtWorkIs, AtWorkIsThen DEF AtWork
<1> QED
  BY <1>2, <1>3, <1>4, <1>5, IdlingCalm

LEMMA StopCalm ==
  ASSUME Typed, Calm, NEW c \in Callers, RequestStop(c) \/ SignalChild(c)
  PROVE  Calm'
<1>1. row \in Row /\ call \in [Callers -> Call]
  BY DEF Typed, TypeOK
<1>2. SameFields(row, row')
  BY <1>1 DEF RequestStop, SignalChild, Put, SameFields, Row
<1>3. /\ \A d \in Callers : call'[d] \in {call[d], IdleCall} \/ Signalling(call'[d])
      /\ UNCHANGED <<file, made, past, round>>
  <2>1. UNCHANGED <<file, made, past, round>>
    BY DEF RequestStop, SignalChild
  <2>2. CASE Finish(c)
    BY <1>1, <2>1, <2>2 DEF Finish
  <2>3. CASE ~Finish(c)
    <3>1. call[c].pc = "stop" /\ call' = [call EXCEPT ![c].pc = "signal"]
      BY <2>3 DEF RequestStop, SignalChild
    <3>2. call[c].op = "cancel" /\ call[c] \in Call
      BY <1>1, <3>1 DEF Calm, CallsFine, CallFine, OpsAt
    <3>3. Signalling(call'[c])
      BY <1>1, <3>1, <3>2 DEF Signalling, Call
    <3> QED
      BY <1>1, <2>1, <3>1, <3>3
  <2> QED
    BY <2>2, <2>3
<1> QED
  BY <1>2, <1>3, IdlingCalm DEF AtWork

LEMMA DeathCalm ==
  ASSUME Typed, Calm, NEW p \in Procs, Die(p)
  PROVE  Calm'
<1>1. /\ SameFields(row, row') /\ file' = file /\ made' = made
      /\ past'.synced = past.synced /\ past'.died
  BY DEF Die, SameFields, Typed, TypeOK
<1>2. \A c \in Callers : call'[c] \in {call[c], IdleCall}
  BY DEF Die
<1>3. \A w \in Rounds : round'[w] = round[w] \/ round'[w].pc \in Resting
  BY DEF Die, NoRound, Resting
<1> QED
  BY <1>1, <1>2, <1>3, IdlingCalm

\* A user's edit takes the file out of Loopora's hands.
LEMMA EditCalm ==
  ASSUME Typed, Calm, NEW valid \in BOOLEAN, EditFile(valid)
  PROVE  Calm'
<1>1. /\ row.status \notin Active /\ file'.by = "user"
      /\ UNCHANGED <<row, round, call, made, past>>
  BY DEF EditFile, Active, Text
<1>2. AtWork = {}
  BY <1>1 DEF Calm, StatusHeld
<1>3. RoundsFine'
  BY <1>1, <1>2, AtWorkIs, RestingIsFine DEF RoundsFine
<1>4. RowFine(row, file, made.said, past.synced)'
  BY <1>1 DEF Calm, RowFine
<1>5. CallsFine'
  BY <1>1 DEF Calm, CallsFine, CallFine
<1> QED
  BY <1>1, <1>3, <1>4, <1>5 DEF Calm, OneCall, OneRound, StatusHeld, CheckHolds, AtWork

\* A call that begins alone: it reads the row, and if it checks the status no round is at
\* work.
LEMMA BeginCalm ==
  ASSUME Typed, Calm, NEW c \in Callers, NEW pc, NEW op, NEW arg, Begin(c, pc, op, arg),
         ~past'.crossed, UNCHANGED <<row, file, round>>, made'.said = made.said,
         arg \notin {"ready", "failed"}, op \in OpsAt(pc),
         pc \in {"message", "stop", "load", "import", "ran", "run", "delete"},
         pc \in Checked => row.status \notin Active
  PROVE  Calm'
<1> DEFINE me == [IdleCall EXCEPT !.pc = pc, !.op = op, !.arg = arg,
               !.seen = IF op = "message" THEN row
                        ELSE IF op = "cancel" THEN [@ EXCEPT !.pid = row.pid] ELSE @]
<1>1. /\ row \in Row /\ call \in [Callers -> Call] /\ row.kept
      /\ call[c].pc = "idle" /\ past \in [crossed : BOOLEAN, died : BOOLEAN, synced : BOOLEAN]
  BY DEF Typed, TypeOK, Begin
<1>2. call' = [call EXCEPT ![c] = me] /\ past' = [past EXCEPT !.crossed = @ \/ Crossing(op)]
  BY DEF Begin
<1>3. ~Crossing(op) /\ past'.synced = past.synced /\ past'.died = past.died
  BY <1>1, <1>2
<1>4. me.pc = pc /\ me.op = op /\ me.arg = arg /\ (op = "message" => me.seen = row)
  BY IdleCallIsCall DEF Call
<1>5. call'[c] = me /\ \A d \in Callers \ {c} : call'[d] = call[d]
  BY <1>1, <1>2
<1> HIDE DEF me
<1>6. CallFine(me, row', file', made'.said, past'.synced)
  <2>1. RowFine(row, file, made.said, past.synced)
    BY DEF Calm
  <2>2. pc = "message" => op = "message"
    BY DEF OpsAt
  <2> QED
    BY <1>1, <1>3, <1>4, <2>1, <2>2 DEF CallFine, RowFine
<1>7. CallsFine'
  BY <1>3, <1>5, <1>6 DEF CallsFine, Calm
<1>8. OneCall'
  <2>1. ASSUME NEW d \in Callers \ {c}, pc # "stop" PROVE ~Busy(call[d])
    <3>1. call[d].op \in OpsAt(call[d].pc)
      BY DEF Calm, CallsFine, CallFine
    <3>2. op # "cancel"
      BY <2>1 DEF OpsAt
    <3>3. call[d].pc \in {"idle", "waits"} \/ call[d].op = "cancel"
      BY <1>3, <3>2 DEF Crossing, Serving
    <3> QED
      BY <3>1, <3>3 DEF OpsAt, Busy
  <2>2. pc = "stop" => ~Busy(me)
    BY <1>4 DEF Busy
  <2> QED
    BY <1>5, <2>1, <2>2 DEF OneCall, Calm
<1>9. CheckHolds'
  <2>1. pc \in Checked => AtWork = {}
    BY DEF Calm, StatusHeld
  <2> QED
    BY <1>4, <1>5, <2>1 DEF CheckHolds, Calm, AtWork
<1>10. RoundsFine' /\ RowFine(row, file, made.said, past.synced)' /\ OneRound' /\ StatusHeld'
  BY <1>3 DEF Calm, RoundsFine, OneRound, StatusHeld, AtWork
<1> QED
  BY <1>7, <1>8, <1>9, <1>10 DEF Calm

LEMMA BeginningCalm ==
  ASSUME Typed, Calm, NEW c \in Callers, ~past'.crossed,
         \/ \E kind \in {"confirm", "other", "skip"} : BeginMessage(c, kind)
         \/ BeginCancel(c) \/ BeginSync(c) \/ BeginImport(c) \/ BeginLoop(c) \/ BeginDelete(c)
  PROVE  Calm'
<1>1. UNCHANGED <<row, file, round>> /\ made'.said = made.said
  BY DEF BeginMessage, BeginCancel, BeginSync, BeginImport, BeginLoop, BeginDelete, Typed, TypeOK
<1>2. {"idle", "ready", "failed", "imported"} \cap Active = {}
  BY DEF Active
<1>3. CASE \E kind \in {"confirm", "other", "skip"} : BeginMessage(c, kind)
  BY <1>1, <1>3, BeginCalm DEF BeginMessage, OpsAt
<1>4. CASE BeginCancel(c)
  BY <1>1, <1>4, BeginCalm DEF BeginCancel, OpsAt, Checked
<1>5. CASE BeginSync(c)
  BY <1>1, <1>2, <1>5, BeginCalm DEF BeginSync, OpsAt
<1>6. CASE BeginImport(c)
  BY <1>1, <1>2, <1>6, BeginCalm DEF BeginImport, OpsAt
<1>7. CASE BeginLoop(c)
  <2>1. CASE Begin(c, "ran", "loop", "none")
    BY <1>1, <2>1, BeginCalm DEF OpsAt, Checked
  <2>2. CASE Begin(c, "run", "loop", "none")
    BY <1>1, <2>2, BeginCalm DEF OpsAt, Checked
  <2>3. CASE row.status = "ready" /\ Begin(c, "import", "loop", "none")
    BY <1>1, <1>2, <2>3, BeginCalm DEF OpsAt
  <2> QED
    BY <1>7, <2>1, <2>2, <2>3 DEF BeginLoop
<1>8. CASE BeginDelete(c)
  BY <1>1, <1>8, BeginCalm DEF BeginDelete, OpsAt
<1> QED
  BY <1>3, <1>4, <1>5, <1>6, <1>7, <1>8

\* A step of the one call being served, with no round at work before or after it: what the
\* call knows of what it wrote is all there is to show.
LEMMA CallCalm ==
  ASSUME Typed, Calm, NEW c \in Callers, Busy(call[c]), AtWork = {}, NEW me,
         call' = [call EXCEPT ![c] = me], round' = round, row'.status \notin Active,
         RowFine(row', file', made'.said, past'.synced),
         CallFine(me, row', file', made'.said, past'.synced)
  PROVE  Calm'
<1>1. call'[c] = me /\ \A d \in Callers \ {c} : call'[d] = call[d]
  BY DEF Typed, TypeOK
<1>2. \A d \in Callers \ {c} : ~Busy(call[d])
  BY DEF Calm, OneCall
<1>3. \A d \in Callers \ {c} : call[d].op \in OpsAt(call[d].pc) /\ call[d].pc \notin Checked
  BY <1>2 DEF Calm, CallsFine, CallFine, Busy, Checked
<1>4. AtWork' = {}
  BY DEF AtWork
<1>5. CallsFine'
  BY <1>1, <1>3, UncheckedIsFine DEF CallsFine
<1>6. RoundsFine'
  BY AtWorkIs, RestingIsFine DEF RoundsFine
<1>7. OneCall'
  BY <1>1, <1>2 DEF OneCall
<1>8. OneRound' /\ StatusHeld' /\ CheckHolds'
  BY <1>4 DEF OneRound, StatusHeld, CheckHolds
<1> QED
  BY <1>5, <1>6, <1>7, <1>8 DEF Calm

\* What a call that has checked the row starts from.
LEMMA CallStarts ==
  ASSUME Typed, Calm, NEW c \in Callers, call[c].pc \in Checked
  PROVE  /\ Busy(call[c]) /\ AtWork = {} /\ row.status \notin Active
         /\ RowFine(row, file, made.said, past.synced)
         /\ CallFine(call[c], row, file, made.said, past.synced)
         /\ row \in Row /\ call[c] \in Call /\ call \in [Callers -> Call]
         /\ call[c].seen \in Row
         /\ made \in [said : Talk, asked : 0 .. MaxMessages]
         /\ past \in [crossed : BOOLEAN, died : BOOLEAN, synced : BOOLEAN]
<1>1. Busy(call[c])
  BY DEF Busy, Checked
<1>2. call[c] \in Call /\ call[c].seen \in Row
  BY DEF Typed, TypeOK, Call
<1> QED
  BY <1>1, <1>2 DEF Calm, CheckHolds, CallsFine, Typed, TypeOK

\* A call that ends there, having written a row it knows.
LEMMA FinishCalm ==
  ASSUME Typed, Calm, NEW c \in Callers, Busy(call[c]), AtWork = {}, Finish(c), round' = round,
         row'.status \notin Active, RowFine(row', file', made'.said, past'.synced)
  PROVE  Calm'
  BY CallCalm, IdleIsFine DEF Finish

\* A message answers the row it read: the agreement it confirms, or reviews, is that row's.
LEMMA UserStageIsFine ==
  ASSUME row \in Row, NEW seen \in Row, NEW kind, NEW f, NEW said, NEW synced,
         RowFine(row, f, said, synced), seen.status = row.status,
         ~synced /\ seen.status = "ready"
           => seen.agreed = "confirmed" /\ seen.stage \in {"ready", "ready_review"}
  PROVE  LET plan == UserStage(seen, kind) IN
           /\ ~synced /\ plan.stage \in ConfirmedStages \cup {"ready"} => plan.agreed = "confirmed"
           /\ ~synced /\ row.status = "ready" /\ kind # "skip"
                => plan.agreed = "confirmed" /\ plan.stage \in {"ready", "ready_review"}
<1> DEFINE plan == UserStage(seen, kind)
<1>1. CASE kind = "skip"
  BY <1>1 DEF UserStage, ConfirmedStages
<1>2. CASE kind # "skip" /\ seen.stage = "agreement_ready"
  BY <1>2 DEF UserStage, ConfirmedStages
<1>3. CASE kind # "skip" /\ seen.stage # "agreement_ready" /\ seen.status = "ready"
  <2>1. plan = [stage |-> "ready_review", agreed |-> seen.agreed]
    BY <1>3 DEF UserStage
  <2> QED
    BY <1>3, <2>1
<1>4. CASE kind # "skip" /\ seen.stage # "agreement_ready" /\ seen.status # "ready"
  <2>1. plan.stage = "clarifying" \/ (plan.stage = row.stage /\ plan.agreed = row.agreed)
    BY <1>4 DEF UserStage
  <2>2. plan.stage = "clarifying" => plan.stage \notin ConfirmedStages \cup {"ready"}
    BY DEF ConfirmedStages
  <2> HIDE DEF plan
  <2>3. ~synced /\ plan.stage \in ConfirmedStages \cup {"ready"} => plan.agreed = "confirmed"
    BY <2>1, <2>2 DEF RowFine
  <2> QED
    BY <1>4, <2>3 DEF plan
<1> QED
  BY <1>1, <1>2, <1>3, <1>4

LEMMA MessageCalm ==
  ASSUME Typed, Calm, NEW c \in Callers, WriteMessage(c)
  PROVE  Calm'
<1>1. call[c].pc = "message" /\ call[c].pc \in Checked /\ UNCHANGED <<file, round, past>>
  BY DEF WriteMessage, Checked
<1>2. /\ Busy(call[c]) /\ AtWork = {} /\ row.status \notin Active
      /\ RowFine(row, file, made.said, past.synced)
      /\ CallFine(call[c], row, file, made.said, past.synced)
      /\ row \in Row /\ call[c] \in Call /\ call[c].seen \in Row
      /\ made \in [said : Talk, asked : 0 .. MaxMessages]
  BY <1>1, CallStarts
<1>3. CASE ~row.kept
  BY <1>1, <1>2, <1>3, FinishCalm DEF WriteMessage
<1>4. CASE row.kept
  <2> DEFINE seen == call[c].seen
             kind == call[c].arg
             plan == UserStage(seen, kind)
             me == [call[c] EXCEPT !.pc = IF kind = "skip" THEN "notice" ELSE "start",
                                   !.seen = row']
  <2>1. /\ row' = MessageRow(seen, kind) /\ made' = [made EXCEPT !.said = Longer(@)]
        /\ call' = [call EXCEPT ![c].pc = IF kind = "skip" THEN "notice" ELSE "start",
                                ![c].seen = row']
    BY <1>4 DEF WriteMessage
  <2>2. call' = [call EXCEPT ![c] = me]
    BY <2>1 DEF Typed, TypeOK
  <2>3. seen.talk = made.said /\ made'.said = Longer(made.said) /\ call[c].op = "message"
    BY <1>1, <1>2, <2>1 DEF CallFine, OpsAt
  <2>4. /\ row'.kept /\ row'.talk = made'.said /\ row'.repairs = 0
        /\ row'.stage = plan.stage /\ row'.agreed = plan.agreed
        /\ row'.status = IF kind = "skip" THEN "skipped" ELSE row.status
    <3> HIDE DEF plan
    <3>1. row' = [row EXCEPT !.talk = Longer(seen.talk), !.stop = FALSE, !.repairs = 0,
                             !.stage = plan.stage, !.agreed = plan.agreed,
                             !.status = IF kind = "skip" THEN "skipped" ELSE @]
      BY <2>1 DEF MessageRow, plan
    <3> QED
      BY <1>2, <1>4, <2>3, <3>1 DEF Row
  <2>5. /\ ~past.synced /\ plan.stage \in ConfirmedStages \cup {"ready"}
             => plan.agreed = "confirmed"
        /\ ~past.synced /\ row.status = "ready" /\ kind # "skip"
             => plan.agreed = "confirmed" /\ plan.stage \in {"ready", "ready_review"}
    BY <1>1, <1>2, UserStageIsFine DEF CallFine
  <2>6. me.pc \in {"notice", "start"} /\ me.op = "message" /\ me.arg = kind /\ me.seen = row'
        /\ (me.pc = "notice" => kind = "skip")
    BY <1>2, <2>3 DEF Call
  <2> HIDE DEF me, plan, kind, seen
  <2>7. RowFine(row', file', made'.said, past'.synced)
    BY <1>1, <1>2, <2>4, <2>5 DEF RowFine
  <2>8. row'.status \notin Active
    BY <1>2, <2>4 DEF Active
  <2>9. CallFine(me, row', file', made'.said, past'.synced)
    BY <2>4, <2>6 DEF CallFine, OpsAt
  <2> QED
    BY <1>1, <1>2, <2>2, <2>7, <2>8, <2>9, CallCalm
<1> QED
  BY <1>3, <1>4

LEMMA NoticeCalm ==
  ASSUME Typed, Calm, NEW c \in Callers, WriteNotice(c)
  PROVE  Calm'
<1>1. call[c].pc = "notice" /\ call[c].pc \in Checked /\ UNCHANGED <<file, round, past>>
  BY DEF WriteNotice, Checked
<1>2. /\ Busy(call[c]) /\ AtWork = {} /\ row.status \notin Active
      /\ RowFine(row, file, made.said, past.synced)
      /\ CallFine(call[c], row, file, made.said, past.synced)
      /\ row \in Row /\ call[c] \in Call
      /\ made \in [said : Talk, asked : 0 .. MaxMessages]
  BY <1>1, CallStarts
<1>3. CASE ~row.kept
  BY <1>1, <1>2, <1>3, FinishCalm DEF WriteNotice
<1>4. CASE row.kept
  <2> DEFINE me == [call[c] EXCEPT !.pc = "sync", !.seen = IdleCall.seen]
  <2>1. /\ row' = [row EXCEPT !.talk = Longer(call[c].seen.talk), !.offer = FALSE]
        /\ made' = [made EXCEPT !.said = Longer(@)]
        /\ IF call[c].op = "sync" THEN Go(c, "sync") ELSE Finish(c)
    BY <1>4 DEF WriteNotice
  <2>2. call[c].seen.talk = made.said
    BY <1>1, <1>2 DEF CallFine
  <2>3. /\ row'.kept /\ row'.talk = made'.said /\ row'.status = row.status
        /\ row'.stage = row.stage /\ row'.agreed = row.agreed
    BY <1>2, <1>4, <2>1, <2>2 DEF Row
  <2>4. RowFine(row', file', made'.said, past'.synced)
    BY <1>1, <1>2, <2>3 DEF RowFine
  <2>5. Go(c, "sync") => call' = [call EXCEPT ![c] = me]
    BY DEF Go, Typed, TypeOK
  <2>6. me.pc = "sync" /\ me.op = call[c].op /\ me.arg = call[c].arg
    BY <1>2 DEF Call
  <2> HIDE DEF me
  <2>7. call[c].op = "sync" => CallFine(me, row', file', made'.said, past'.synced)
    BY <1>1, <1>2, <2>6 DEF CallFine, OpsAt
  <2> QED
    BY <1>1, <1>2, <2>1, <2>3, <2>4, <2>5, <2>7, CallCalm, FinishCalm
<1> QED
  BY <1>3, <1>4

\* The check of a start, its refusal, and its launch.
LEMMA StartCalm ==
  ASSUME Typed, Calm, NEW c \in Callers, CheckStart(c) \/ LaunchRefused(c)
  PROVE  Calm'
<1>1. /\ call[c].pc \in {"start", "launch"} /\ call[c].pc \in Checked
      /\ UNCHANGED <<row, file, round, made, past>>
  BY DEF CheckStart, LaunchRefused, Checked
<1>2. /\ Busy(call[c]) /\ AtWork = {} /\ row.status \notin Active
      /\ RowFine(row, file, made.said, past.synced)
      /\ CallFine(call[c], row, file, made.said, past.synced)
      /\ call[c] \in Call
  BY <1>1, CallStarts
<1>3. CASE Finish(c)
  BY <1>1, <1>2, <1>3, FinishCalm
<1>4. CASE Go(c, "launch")
  <2> DEFINE me == [call[c] EXCEPT !.pc = "launch", !.seen = IdleCall.seen]
  <2>1. call' = [call EXCEPT ![c] = me]
    BY <1>4 DEF Go, Typed, TypeOK
  <2>2. me.pc = "launch" /\ me.op = "message"
    BY <1>1, <1>2 DEF Call, CallFine, OpsAt
  <2> HIDE DEF me
  <2>3. CallFine(me, row', file', made'.said, past'.synced)
    BY <1>1, <1>2, <2>2 DEF CallFine, OpsAt
  <2> QED
    BY <1>1, <1>2, <2>1, <2>3, CallCalm
<1> QED
  BY <1>3, <1>4 DEF CheckStart, LaunchRefused

LEMMA LaunchCalm ==
  ASSUME Typed, Calm, NEW c \in Callers, NEW w \in Rounds, Launch(c, w)
  PROVE  Calm'
<1> DEFINE r == [NoRound EXCEPT !.pc = "loading", !.home = Home[c]]
           me == IF c \in Direct THEN [IdleCall EXCEPT !.pc = "waits", !.round = w] ELSE IdleCall
<1>1. /\ call[c].pc = "launch" /\ call[c].pc \in Checked /\ row.kept
      /\ UNCHANGED <<file, made, past>> /\ row' = RunningRow /\ To(w, r)
  BY DEF Launch, Checked
<1>2. /\ Busy(call[c]) /\ AtWork = {} /\ row.status \notin Active
      /\ RowFine(row, file, made.said, past.synced)
      /\ CallFine(call[c], row, file, made.said, past.synced)
      /\ row \in Row /\ call[c] \in Call /\ call \in [Callers -> Call]
  BY <1>1, CallStarts
<1>3. call' = [call EXCEPT ![c] = me]
  BY DEF Launch, Finish
<1>4. me.op \in OpsAt(me.pc) /\ me.pc \notin Checked /\ ~Busy(me)
  BY IdleCallIsCall DEF Call, IdleCall, OpsAt, Checked, Busy
<1>5. r.pc = "loading" /\ r.tries = 0
  BY NoRoundIsRound DEF Round, NoRound
<1>6. /\ row'.kept /\ row'.status = "running" /\ row'.repairs = 0 /\ row'.talk = row.talk
      /\ row'.stage = row.stage /\ row'.agreed = row.agreed
  BY <1>1, <1>2 DEF RunningRow, Row, CallFine
<1> HIDE DEF r, me
<1>7. RowFine(row', file', made'.said, past'.synced) /\ row'.status \in Active
  BY <1>1, <1>2, <1>6 DEF RowFine, Active
<1>8. RoundFine(r, row', file', made'.said, past'.synced)
  BY <1>5, <1>6 DEF RoundFine, Filing
<1>9. round'[w] = r /\ \A v \in Rounds \ {w} : round'[v] = round[v] /\ round[v].pc \in Resting
  BY <1>1, <1>2, AtWorkIs DEF To, Typed, TypeOK
<1>10. AtWork' = {w}
  BY <1>5, <1>9, AtWorkIsThen DEF AtWork, Resting
<1>11. RoundsFine'
  BY <1>8, <1>9, RestingIsFine DEF RoundsFine
<1>12. call'[c] = me /\ \A d \in Callers \ {c} : call'[d] = call[d] /\ ~Busy(call[d])
  BY <1>2, <1>3 DEF Calm, OneCall
<1>13. \A d \in Callers : call'[d].op \in OpsAt(call'[d].pc) /\ call'[d].pc \notin Checked
                          /\ ~Busy(call'[d])
  <2>1. \A d \in Callers \ {c} : call[d].op \in OpsAt(call[d].pc) /\ call[d].pc \notin Checked
    BY <1>12 DEF Calm, CallsFine, CallFine, Busy, Checked
  <2> QED
    BY <1>4, <1>12, <2>1
<1>14. CallsFine' /\ OneCall' /\ CheckHolds'
  BY <1>13, UncheckedIsFine DEF CallsFine, OneCall, CheckHolds
<1>15. OneRound' /\ StatusHeld'
  BY <1>6, <1>7, <1>10 DEF OneRound, StatusHeld
<1> QED
  BY <1>7, <1>11, <1>14, <1>15 DEF Calm

\* A reload of bundle.yml.
LEMMA LoadCalm ==
  ASSUME Typed, Calm, NEW c \in Callers, LoadFile(c)
  PROVE  Calm'
<1>1. call[c].pc = "load" /\ call[c].pc \in Checked /\ UNCHANGED <<row, round, made, past>>
      /\ file' = IF file.valid THEN Text("loopora", TRUE) ELSE file
  BY DEF LoadFile, Checked
<1>2. /\ Busy(call[c]) /\ AtWork = {} /\ row.status \notin Active
      /\ RowFine(row, file, made.said, past.synced)
      /\ CallFine(call[c], row, file, made.said, past.synced)
      /\ row \in Row /\ call[c] \in Call
  BY <1>1, CallStarts
<1>3. file.valid => file'.valid
  BY <1>1 DEF Text
<1>4. RowFine(row', file', made'.said, past'.synced)
  BY <1>1, <1>2, <1>3 DEF RowFine
<1>5. CASE ~row.kept
  BY <1>1, <1>2, <1>4, <1>5, FinishCalm DEF LoadFile
<1>6. CASE row.kept
  <2> DEFINE arg == IF file.valid THEN "ready" ELSE "failed"
             me == [call[c] EXCEPT !.pc = "notice", !.seen = row, !.arg = arg]
  <2>1. call' = [call EXCEPT ![c] = me]
    BY <1>6 DEF LoadFile, Typed, TypeOK
  <2>2. me.pc = "notice" /\ me.op = "sync" /\ me.arg = arg /\ me.seen = row
    BY <1>1, <1>2 DEF Call, CallFine, OpsAt
  <2> HIDE DEF me
  <2>3. row.talk = made.said
    BY <1>2, <1>6 DEF RowFine
  <2>4. CallFine(me, row', file', made'.said, past'.synced)
    BY <1>1, <1>3, <2>2, <2>3 DEF CallFine, OpsAt
  <2> QED
    BY <1>1, <1>2, <1>4, <2>1, <2>4, CallCalm
<1> QED
  BY <1>5, <1>6

LEMMA SyncCalm ==
  ASSUME Typed, Calm, NEW c \in Callers, WriteSync(c)
  PROVE  Calm'
<1>1. call[c].pc = "sync" /\ call[c].pc \in Checked /\ UNCHANGED <<file, round, made>>
      /\ Finish(c) /\ Put(SyncedRow(call[c].arg))
  BY DEF WriteSync, Checked
<1>2. /\ Busy(call[c]) /\ AtWork = {} /\ row.status \notin Active
      /\ RowFine(row, file, made.said, past.synced)
      /\ CallFine(call[c], row, file, made.said, past.synced)
      /\ row \in Row /\ past \in [crossed : BOOLEAN, died : BOOLEAN, synced : BOOLEAN]
  BY <1>1, CallStarts
<1>3. (past.synced => past'.synced) /\ (call[c].arg = "ready" => past'.synced)
  BY <1>2 DEF WriteSync
<1>4. CASE ~row.kept
  <2>1. RowFine(row', file', made'.said, past'.synced) /\ row' = row
    BY <1>1, <1>2, <1>3, <1>4 DEF RowFine, Put
  <2> QED
    BY <1>1, <1>2, <2>1, FinishCalm
<1>5. CASE row.kept /\ call[c].arg = "ready"
  <2>1. /\ row'.status = "ready" /\ row'.talk = row.talk
    BY <1>1, <1>2, <1>5 DEF Put, SyncedRow, Row
  <2>2. RowFine(row', file', made'.said, past'.synced)
    BY <1>1, <1>2, <1>3, <1>5, <2>1 DEF RowFine, CallFine
  <2> QED
    BY <1>1, <1>2, <2>1, <2>2, FinishCalm DEF Active
<1>6. CASE row.kept /\ call[c].arg # "ready"
  <2>1. /\ row'.status = "failed" /\ row'.talk = row.talk /\ row'.kept = row.kept
        /\ row'.stage = row.stage /\ row'.agreed = row.agreed
    BY <1>1, <1>2, <1>6, ChildGoneIsFine DEF Put, SyncedRow, Row
  <2>2. RowFine(row', file', made'.said, past'.synced)
    BY <1>1, <1>2, <1>3, <1>6, <2>1 DEF RowFine
  <2> QED
    BY <1>1, <1>2, <2>1, <2>2, FinishCalm DEF Active
<1> QED
  BY <1>4, <1>5, <1>6

\* An import and the run it starts.
LEMMA ImportCalm ==
  ASSUME Typed, Calm, NEW c \in Callers, ImportText(c) \/ WriteImported(c)
  PROVE  Calm'
<1>1. call[c].pc \in {"import", "imported"} /\ call[c].pc \in Checked
      /\ UNCHANGED <<round, made, past>>
  BY DEF ImportText, WriteImported, Checked
<1>2. /\ Busy(call[c]) /\ AtWork = {} /\ row.status \notin Active
      /\ RowFine(row, file, made.said, past.synced)
      /\ CallFine(call[c], row, file, made.said, past.synced)
      /\ row \in Row /\ call[c] \in Call
  BY <1>1, CallStarts
<1>3. RowFine(row', file', made'.said, past'.synced) /\ row'.status \notin Active
  <2>1. CASE ImportText(c)
    <3>1. row' = row /\ (file.valid => file'.valid) /\ (~file.valid => file' = file)
      BY <2>1 DEF ImportText, Text
    <3> QED
      BY <1>1, <1>2, <3>1 DEF RowFine
  <2>2. CASE WriteImported(c)
    <3>1. /\ row'.status \in {row.status, "imported"} /\ row'.talk = row.talk
          /\ row'.kept = row.kept /\ row'.stage = row.stage /\ row'.agreed = row.agreed
          /\ file' = file
      BY <1>2, <2>2 DEF WriteImported, Put, ImportedRow, Row
    <3> QED
      BY <1>1, <1>2, <3>1 DEF RowFine, Active
  <2> QED
    BY <2>1, <2>2
<1>4. ASSUME NEW pc \in {"imported", "run"}, Go(c, pc) PROVE Calm'
  <2> DEFINE me == [call[c] EXCEPT !.pc = pc, !.seen = IdleCall.seen]
  <2>1. call' = [call EXCEPT ![c] = me]
    BY <1>4 DEF Go, Typed, TypeOK
  <2>2. me.pc = pc /\ me.op \in {"import", "loop"}
    BY <1>1, <1>2 DEF Call, CallFine, OpsAt
  <2> HIDE DEF me
  <2>3. CallFine(me, row', file', made'.said, past'.synced)
    BY <2>2 DEF CallFine, OpsAt
  <2> QED
    BY <1>1, <1>2, <1>3, <2>1, <2>3, CallCalm
<1>5. CASE Finish(c)
  BY <1>1, <1>2, <1>3, <1>5, FinishCalm
<1> QED
  BY <1>4, <1>5 DEF ImportText, WriteImported

\* The two steps that check nothing: whatever round is at work goes on, and a row that is not
\* active has none.
LEMMA RunCalm ==
  ASSUME Typed, Calm, NEW c \in Callers, StartRun(c)
  PROVE  Calm'
<1>1. call[c].pc = "run" /\ UNCHANGED <<row, file, round, made, past>>
  BY DEF StartRun
<1>2. call \in [Callers -> Call] /\ call[c] \in Call /\ call[c].op \in {"import", "loop"}
  BY <1>1 DEF Typed, TypeOK, Calm, CallsFine, CallFine, OpsAt
<1>3. /\ call'[c].op \in OpsAt(call'[c].pc) /\ call'[c].pc \notin Checked
      /\ \A d \in Callers \ {c} : call'[d] = call[d]
  <2>1. CASE Go(c, "ran")
    BY <1>2, <2>1 DEF Go, OpsAt, Checked, Call
  <2>2. CASE Finish(c)
    BY <1>2, <2>2 DEF Finish, IdleCall, OpsAt, Checked
  <2> QED
    BY <2>1, <2>2 DEF StartRun
<1>4. CallsFine'
  BY <1>1, <1>3, UncheckedIsFine DEF CallsFine, Calm
<1>5. OneCall'
  <2>1. Busy(call[c])
    BY <1>1 DEF Busy
  <2> QED
    BY <1>3, <2>1 DEF Calm, OneCall
<1>6. CheckHolds'
  BY <1>1, <1>3 DEF Calm, CheckHolds, AtWork
<1> QED
  BY <1>1, <1>4, <1>5, <1>6 DEF Calm, OneRound, StatusHeld, RoundsFine, AtWork

LEMMA RanCalm ==
  ASSUME Typed, Calm, NEW c \in Callers, WriteRan(c), ~past'.crossed
  PROVE  Calm'
<1>1. /\ call[c].pc = "ran" /\ UNCHANGED <<file, round, made>> /\ Finish(c)
      /\ Put([row EXCEPT !.status = "running_loop", !.run = TRUE])
  BY DEF WriteRan
<1>2. row \in Row /\ past \in [crossed : BOOLEAN, died : BOOLEAN, synced : BOOLEAN]
      /\ RowFine(row, file, made.said, past.synced)
  BY DEF Typed, TypeOK, Calm
<1>3. row.status \notin Active /\ past'.synced = past.synced
  BY <1>2 DEF WriteRan
<1>4. AtWork = {} /\ Busy(call[c])
  BY <1>1, <1>3 DEF Calm, StatusHeld, Busy
<1>5. /\ row'.status \in {row.status, "running_loop"} /\ row'.talk = row.talk
      /\ row'.kept = row.kept /\ row'.stage = row.stage /\ row'.agreed = row.agreed
  BY <1>1, <1>2 DEF Put, Row
<1>6. RowFine(row', file', made'.said, past'.synced) /\ row'.status \notin Active
  BY <1>1, <1>2, <1>3, <1>5 DEF RowFine, Active
<1> QED
  BY <1>1, <1>4, <1>6, FinishCalm

LEMMA DeleteCalm ==
  ASSUME Typed, Calm, NEW c \in Callers, DeleteRow(c)
  PROVE  Calm'
<1>1. /\ call[c].pc = "delete" /\ call[c].pc \in Checked /\ UNCHANGED <<round, made, past>>
      /\ Finish(c)
  BY DEF DeleteRow, Checked
<1>2. Busy(call[c]) /\ AtWork = {}
  BY <1>1, CallStarts
<1>3. row'.status = "idle" /\ row'.stage = "clarifying" /\ ~row'.kept
  BY DEF DeleteRow, NewRow
<1>4. RowFine(row', file', made'.said, past'.synced) /\ row'.status \notin Active
  BY <1>3 DEF RowFine, Active, ConfirmedStages
<1> QED
  BY <1>1, <1>2, <1>4, FinishCalm

-----------------------------------------------------------------------------
(* The invariant, and what it says.                                        *)

LEMMA InitCalm == Init => Child /\ Calm
<1> SUFFICES ASSUME Init PROVE Child /\ Calm
  OBVIOUS
<1>1. /\ \A w \in Rounds : round[w] = NoRound
      /\ \A c \in Callers : call[c] = IdleCall
      /\ made.said = row.talk /\ past.synced = FALSE
  BY DEF Init
<1>2. NoRound.pc = "none" /\ NoRound.pc \in Resting
  BY DEF NoRound, Resting
<1>3. AtWork = {}
  BY <1>1, <1>2 DEF AtWork
<1>4. /\ row.kept /\ row.pid = Nobody
      /\ row.status \in {"idle", "waiting_user"}
      /\ row.stage \in {"clarifying", "agreement_ready"}
  <2>1. AskedRow.kept /\ AskedRow.pid = Nobody /\ AskedRow.status = "waiting_user"
        /\ AskedRow.stage = "agreement_ready"
    BY DEF AskedRow, NewRow
  <2>2. \A run \in BOOLEAN : NewRow(run).kept /\ NewRow(run).pid = Nobody
          /\ NewRow(run).status = "idle" /\ NewRow(run).stage = "clarifying"
    BY DEF NewRow
  <2> QED
    BY <2>1, <2>2 DEF Init
<1>5. RowFine(row, file, made.said, past.synced)
  BY <1>1, <1>4 DEF RowFine, ConfirmedStages
<1>6. RoundsFine /\ CallsFine
  BY <1>1, <1>2, RestingIsFine, IdleIsFine DEF RoundsFine, CallsFine
<1>7. OneCall /\ CheckHolds
  BY <1>1, IdleIsFine DEF OneCall, CheckHolds
<1>8. OneRound /\ StatusHeld
  BY <1>3, <1>4 DEF OneRound, StatusHeld, Active
<1> QED
  BY <1>4, <1>5, <1>6, <1>7, <1>8 DEF Child, GoneHasNoChild, RecordedPidHasItsExecutor, Calm

\* A crossing is never taken back.
LEMMA CrossedStays == Typed /\ [Next]_vars /\ past.crossed => past'.crossed
<1> SUFFICES ASSUME Typed, [Next]_vars, past.crossed PROVE past'.crossed
  OBVIOUS
<1>1. past \in [crossed : BOOLEAN, died : BOOLEAN, synced : BOOLEAN]
  BY DEF Typed, TypeOK
<1>2. CASE UNCHANGED vars
  BY <1>2 DEF vars
<1>3. ASSUME NEW w \in Rounds,
             RoundStep(w) \/ ChildEnds(w) \/ ExecutorStopped(w)
      PROVE  past'.crossed
  BY <1>3 DEF RoundStep, Invoke, ReadSession, ApplyOutputStage, RecordAssistantMessage,
     WriteCandidate, MarkValidating, ValidateCandidate, EndRound, CloseRound, ChildEnds,
     ExecutorStopped, ClearChild
<1>4. ASSUME NEW c \in Callers, CallerStep(c) PROVE past'.crossed
  <2>1. CASE WriteSync(c)
    BY <1>1, <2>1 DEF WriteSync
  <2>2. CASE WriteRan(c)
    BY <1>1, <2>2 DEF WriteRan
  <2>3. CASE ~WriteSync(c) /\ ~WriteRan(c)
    BY <1>4, <2>3 DEF CallerStep, Begin, BeginMessage, BeginCancel, BeginSync, BeginImport,
       BeginLoop, BeginDelete, WriteMessage, WriteNotice, CheckStart, Launch, LaunchRefused,
       RequestStop, SignalChild, LoadFile, ImportText, WriteImported, StartRun, DeleteRow
  <2> QED
    BY <2>1, <2>2, <2>3
<1>5. CASE (\E valid \in BOOLEAN : EditFile(valid)) \/ \E p \in Procs : Die(p)
  BY <1>5 DEF EditFile, Die
<1> QED
  BY <1>2, <1>3, <1>4, <1>5 DEF Next

LEMMA NextCalm == Typed /\ Calm /\ [Next]_vars /\ ~past'.crossed => Calm'
<1> SUFFICES ASSUME Typed, Calm, [Next]_vars, ~past'.crossed PROVE Calm'
  OBVIOUS
<1>1. CASE UNCHANGED vars
  BY <1>1 DEF vars, Calm, OneCall, OneRound, StatusHeld, CheckHolds, RoundsFine, CallsFine, AtWork
<1>2. ASSUME NEW w \in Rounds,
             RoundStep(w) \/ ChildEnds(w) \/ ExecutorStopped(w)
      PROVE  Calm'
  BY <1>2, InvocationCalm, StageCalm, AnswerCalm, CandidateCalm, EndCalm, CloseCalm DEF RoundStep
<1>3. ASSUME NEW c \in Callers, CallerStep(c) PROVE Calm'
  BY <1>3, BeginningCalm, MessageCalm, NoticeCalm, StartCalm, LaunchCalm, StopCalm, LoadCalm,
     SyncCalm, ImportCalm, RunCalm, RanCalm, DeleteCalm DEF CallerStep
<1> QED
  BY <1>1, <1>2, <1>3, EditCalm, DeathCalm DEF Next

THEOREM InvariantHolds == Spec => []IInv
<1>1. IInv <=> Typed /\ Child /\ (~past.crossed => Calm)
  BY DEF IInv, Typed, Child
<1>2. Init => IInv
  <2>1. Init => EndsWithResult
    BY DEF Init, EndsWithResult, NoRound
  <2> QED
    BY <1>1, <2>1, InitTypes, InitCalm DEF Typed
<1>3. IInv /\ [Next]_vars => IInv'
  <2> SUFFICES ASSUME IInv, [Next]_vars PROVE IInv'
    OBVIOUS
  <2>1. Typed' /\ Child'
    BY <1>1, NextTypes, NextChild
  <2>2. ~past'.crossed => Calm'
    BY <1>1, NextCalm, CrossedStays
  <2> QED
    BY <2>1, <2>2 DEF IInv, Typed, Child
<1> QED
  BY <1>2, <1>3, PTL DEF Spec

\* The row, the file, the rounds and the calls keep their types.
THEOREM SessionTypes == Spec => []TypeOK
<1>1. IInv => TypeOK
  BY DEF IInv
<1> QED
  BY <1>1, InvariantHolds, PTL

\* Two rounds are never at work at once, and the status is active exactly while one is, in
\* whatever process: the guards every operation puts on the status (append_alignment_message,
\* import_alignment_bundle, delete_alignment_session) are enough as long as calls do not cross.
THEOREM StatusGuardsTheRound == Spec => []StatusTellsTheRound
<1>1. IInv => StatusTellsTheRound
  <2> SUFFICES ASSUME IInv, ~past.crossed
               PROVE  /\ Cardinality(AtWork) <= 1
                      /\ AtWork # {} => row.kept /\ row.status \in Active
                      /\ row.status \in Active /\ ~past.died => AtWork # {}
    BY DEF StatusTellsTheRound
  <2>1. OneRound /\ StatusHeld
    BY DEF IInv, Calm
  <2>2. Cardinality(AtWork) <= 1
    <3>1. CASE AtWork = {}
      BY <3>1, FS_EmptySet
    <3>2. CASE AtWork # {}
      <4>1. PICK w : AtWork = {w}
        BY <2>1, <3>2 DEF OneRound
      <4>2. Cardinality({w}) = 1
        BY FS_Singleton
      <4> QED
        BY <4>1, <4>2
    <3> QED
      BY <3>1, <3>2
  <2> QED
    BY <2>1, <2>2 DEF StatusHeld
<1> QED
  BY <1>1, InvariantHolds, PTL

\* The stage gate holds over every exchange: a bundle of the agent's is never behind the
\* session's stage without the user's explicit confirmation (alignment_bundle_stage_error).
THEOREM BundleNeedsConfirmation == Spec => []ConfirmedBeforeBundle
<1>1. IInv => ConfirmedBeforeBundle
  BY DEF IInv, Calm, RowFine, ConfirmedBeforeBundle
<1> QED
  BY <1>1, InvariantHolds, PTL

\* No transcript entry is overwritten by a copy read before it was written.
THEOREM TranscriptIsWhole == Spec => []NoEntryLost
<1>1. IInv => NoEntryLost
  BY DEF IInv, Calm, RowFine, NoEntryLost
<1> QED
  BY <1>1, InvariantHolds, PTL

\* A session is ready only over a text that passed validation.
THEOREM ReadyIsValidated == Spec => []ReadyOverValidFile
<1>1. IInv => ReadyOverValidFile
  BY DEF IInv, Calm, RowFine, ReadyOverValidFile
<1> QED
  BY <1>1, InvariantHolds, PTL

\* An invalid bundle fails the session in the second invocation of its round, neither before
\* its repair nor after a further one (alignment_bundle_candidate_outcome).
THEOREM RepairsAreOnePerRound == Spec => []EveryRoundMayRepair
<1>1. IInv => EveryRoundMayRepair
  BY DEF IInv, Calm, RoundsFine, RoundFine, EveryRoundMayRepair
<1> QED
  BY <1>1, InvariantHolds, PTL

\* No round leaves the pid of its child behind, whatever ended it and however the calls cross:
\* a pid is recorded only while its executor is at work (stream_process clears it in a
\* finally clause).
THEOREM PidsEndWithExecutors == Spec => []RecordedPidHasItsExecutor
<1>1. IInv => RecordedPidHasItsExecutor
  BY DEF IInv
<1> QED
  BY <1>1, InvariantHolds, PTL
=============================================================================
