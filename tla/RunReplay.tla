----------------------------- MODULE RunReplay ------------------------------
(***************************************************************************)
(* What a reader of a run's stream makes of it: replay (events/replay.py), *)
(* the current-step projection, the runner's step cursor                   *)
(* (engine/advance_policy.py) and the guard of a submission                *)
(* (engine/step_submission_guard.py).  All are functions of a sequence of  *)
(* events; who reads which sequence, and when, is the business of the      *)
(* modules that use them.  Of an event only its type, step and iteration   *)
(* are read here, and the status of a VerdictIssued.                       *)
(***************************************************************************)
EXTENDS Naturals, Sequences, FiniteSets

CONSTANTS Strategy,  \* the step ids of the strategy, in their order
          GroupOf    \* parallel_group of a step id, NoGroup for none

NoGroup == "no_group"
NoStep == "no_step"

StepIds == {Strategy[k] : k \in DOMAIN Strategy}

ASSUME StrategyAssumption ==
  /\ Strategy \in Seq(StepIds)
  /\ Cardinality(StepIds) = Len(Strategy)
  /\ NoStep \notin StepIds
  /\ DOMAIN GroupOf = StepIds

-----------------------------------------------------------------------------
(* replay_run_snapshot                                                     *)

Ended == {"closed", "stopped", "failed"}
EndOf == [t \in {"RunClosed", "RunStopped", "RunFailed"} |->
            CASE t = "RunClosed" -> "closed" [] t = "RunStopped" -> "stopped"
              [] OTHER -> "failed"]

\* pending: whether a pending actor is recorded (one adapter per run; a pause without
\* an actor records the system's).
EmptySnapshot == [lifecycle |-> "created", step |-> NoStep, iter |-> 0, pending |-> FALSE]

\* An ended run takes no further handler but the verdict's, which is not kept here.
Apply(s, e) ==
  IF s.lifecycle \in Ended THEN s
  ELSE CASE e.type \in {"RunStarted", "RunResumed"} ->
              [s EXCEPT !.lifecycle = "running", !.pending = FALSE]
         [] e.type = "RunPausedForActor" ->
              [s EXCEPT !.lifecycle = "awaiting_actor", !.pending = TRUE]
         [] e.type = "StepInstructionIssued" ->
              [lifecycle |-> "awaiting_actor", step |-> e.step, iter |-> e.iter, pending |-> TRUE]
         [] e.type = "IterationStarted" -> [s EXCEPT !.iter = e.iter]
         [] e.type = "StepCommitted" -> [s EXCEPT !.step = NoStep, !.pending = FALSE]
         [] e.type \in DOMAIN EndOf ->
              [s EXCEPT !.lifecycle = EndOf[e.type], !.step = NoStep, !.pending = FALSE]
         [] OTHER -> s

Snapshot(events) ==
  LET after[k \in 0 .. Len(events)] ==
        IF k = 0 THEN EmptySnapshot ELSE Apply(after[k - 1], events[k])
  IN after[Len(events)]

\* current_step_projection: somebody has been told to do this step.
Claimable(s) == s.step # NoStep /\ s.pending

-----------------------------------------------------------------------------
(* engine/advance_policy.py                                                *)

Committed(events, iter, step) ==
  \E k \in DOMAIN events :
    events[k].type = "StepCommitted" /\ events[k].iter = iter /\ events[k].step = step

\* Fault: what was done in an earlier iteration counts in this one.
CursorOfAnyIteration(events, projection, iter, fallback) ==
  LET done == {k \in DOMAIN Strategy : \E i \in 0 .. iter : Committed(events, i, Strategy[k])}
  IN IF Claimable(projection) /\ projection.iter = iter /\ projection.step \in StepIds
     THEN CHOOSE k \in DOMAIN Strategy : Strategy[k] = projection.step
     ELSE IF done # {} THEN 1 + CHOOSE k \in done : \A j \in done : j <= k
     ELSE fallback

IndexOf(step) == CHOOSE k \in DOMAIN Strategy : Strategy[k] = step

\* Fault: the step somebody was told to do counts as done.
CursorPastClaimed(events, projection, iter, fallback) ==
  LET done == {k \in DOMAIN Strategy : Committed(events, iter, Strategy[k])}
  IN IF Claimable(projection) /\ projection.iter = iter /\ projection.step \in StepIds
     THEN IndexOf(projection.step) + 1
     ELSE IF done # {} THEN 1 + CHOOSE k \in done : \A j \in done : j <= k
     ELSE fallback

\* The index of the step to do next, from the events and a projection read after them.
Cursor(events, projection, iter, fallback) ==
  LET done == {k \in DOMAIN Strategy : Committed(events, iter, Strategy[k])}
  IN IF Claimable(projection) /\ projection.iter = iter /\ projection.step \in StepIds
     THEN IndexOf(projection.step)
     ELSE IF done # {} THEN 1 + CHOOSE k \in done : \A j \in done : j <= k
     ELSE fallback

-----------------------------------------------------------------------------
(* engine/step_submission_guard.py                                         *)

\* The newest instruction for the step that lets siblings run (can_spawn_parallel); a
\* control's step is in no group.
OpenParallelInstruction(events, iter, step) ==
  \E k \in DOMAIN events :
    /\ events[k].type = "StepInstructionIssued"
    /\ events[k].iter = iter /\ events[k].step = step
    /\ step \in StepIds /\ GroupOf[step] # NoGroup

\* Fault: the step may have been committed already.
SubmittableAgain(events, projection, iter, step) ==
  Claimable(projection) =>
    \/ projection.step = step /\ projection.iter = iter
    \/ OpenParallelInstruction(events, iter, step)

Submittable(events, projection, iter, step) ==
  /\ ~Committed(events, iter, step)
  /\ Claimable(projection) =>
       \/ projection.step = step /\ projection.iter = iter
       \/ OpenParallelInstruction(events, iter, step)
=============================================================================
