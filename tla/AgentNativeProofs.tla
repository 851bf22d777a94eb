-------------------------- MODULE AgentNativeProofs ---------------------------
(***************************************************************************)
(* What the agent-native plane keeps for every strategy, number of         *)
(* iterations and number of CLI processes: a step is committed once, in    *)
(* the order of the strategy, the row ends with its stream, state.json     *)
(* never takes the run back, the steps of a parallel group see the same    *)
(* inputs, and a committed pass ends the run.                              *)
(*                                                                         *)
(* A process knows at each place what it read and did.  Most of that stays *)
(* true while others run, for the stream only grows: who may do a step,    *)
(* may do it ever after.  That a step is not yet committed stays true only *)
(* for the holder of submit.lock, or while no call has crossed another.    *)
(***************************************************************************)
EXTENDS AgentNative, FiniteSetTheorems, TLAPS

-----------------------------------------------------------------------------
(* Numbers and the strategy                                                *)

\* The first element of a set of numbers.
LEMMA FirstOf ==
  ASSUME NEW S \in SUBSET Nat, S # {}
  PROVE  \E m \in S : \A k \in S : m <= k
<1>1. PICK m \in S : \A k \in S : ~(<<k, m>> \in OpToRel(<, Nat))
  BY NatLessThanWellFounded, WFMin
<1>2. \A k \in S : ~(k < m)
  BY <1>1 DEF OpToRel
<1>3. QED
  BY <1>2

\* A set of positions that is not empty has a last one.
LEMMA LastOf ==
  ASSUME NEW n \in Nat, NEW S \in SUBSET (1 .. n), S # {}
  PROVE  \E m \in S : \A k \in S : k <= m
<1> DEFINE Bounds == {u \in Nat : \A k \in S : k <= u}
<1>1. n \in Bounds
  OBVIOUS
<1>2. PICK u \in Bounds : \A v \in Bounds : ~(v < u)
  <2>1. PICK u \in Bounds : \A v \in Bounds : ~(<<v, u>> \in OpToRel(<, Nat))
    <3> HIDE DEF Bounds
    <3>1. Bounds \subseteq Nat
      BY DEF Bounds
    <3>2. QED
      BY <1>1, <3>1, NatLessThanWellFounded, WFMin
  <2>2. QED
    BY <2>1 DEF OpToRel
<1>3. u \in S
  <2>1. SUFFICES ASSUME u \notin S
                 PROVE  FALSE
    OBVIOUS
  <2>2. u - 1 \in Nat /\ \A k \in S : k <= u - 1
    <3>1. u \in Nat /\ \A k \in S : k \in Nat /\ 1 <= k /\ k <= u /\ k # u
      BY <2>1
    <3> HIDE DEF Bounds
    <3>2. PICK k \in S : TRUE
      OBVIOUS
    <3>3. u - 1 \in Nat
      BY <3>1, <3>2
    <3>4. ASSUME NEW j \in S PROVE j <= u - 1
      BY <3>1
    <3>5. QED
      BY <3>3, <3>4
  <2>3. QED
    BY <1>2, <2>2
<1>4. QED
  BY <1>3

\* No step occurs twice in the strategy.
LEMMA PlacesAreOwn ==
  \A i, k \in 1 .. Len(Strategy) : Strategy[i] = Strategy[k] => i = k
<1>1. Len(Strategy) \in Nat /\ Strategy \in [1 .. Len(Strategy) -> StepIds]
  BY StrategyAssumption
<1>2. Strategy \in Surjection(1 .. Len(Strategy), StepIds)
  BY <1>1 DEF Surjection, StepIds
<1>3. IsFiniteSet(1 .. Len(Strategy)) /\ Cardinality(1 .. Len(Strategy)) = Len(Strategy)
  <2>1. 1 \in Int /\ Len(Strategy) \in Int
    BY <1>1
  <2>2. /\ IsFiniteSet(1 .. Len(Strategy))
        /\ Cardinality(1 .. Len(Strategy)) =
             IF 1 > Len(Strategy) THEN 0 ELSE Len(Strategy) - 1 + 1
    BY <2>1, FS_Interval
  <2>3. QED
    BY <1>1, <2>2
<1>4. Cardinality(1 .. Len(Strategy)) = Cardinality(StepIds)
  BY <1>3, StrategyAssumption
<1>5. Strategy \in Injection(1 .. Len(Strategy), StepIds)
  BY <1>2, <1>3, <1>4, FS_SurjSameCardinalityImpliesInj
<1>6. QED
  BY <1>5 DEF Injection, IsInjective

LEMMA IndexIsPlace ==
  /\ \A s \in StepIds : IndexOf(s) \in 1 .. Len(Strategy) /\ Strategy[IndexOf(s)] = s
  /\ \A k \in 1 .. Len(Strategy) : Strategy[k] \in StepIds /\ IndexOf(Strategy[k]) = k
<1>1. DOMAIN Strategy = 1 .. Len(Strategy)
  BY StrategyAssumption
<1>2. \A s \in StepIds : IndexOf(s) \in 1 .. Len(Strategy) /\ Strategy[IndexOf(s)] = s
  BY <1>1 DEF IndexOf, StepIds
<1>3. \A k \in 1 .. Len(Strategy) : Strategy[k] \in StepIds
  BY <1>1 DEF StepIds
<1>4. QED
  BY <1>2, <1>3, PlacesAreOwn

-----------------------------------------------------------------------------
(* The replay of a stream is a recursive function; that it exists, and     *)
(* goes on with the next event, is shown by the least place where it would *)
(* not.                                                                    *)

\* g holds the replay of every prefix of events up to its n-th.
Replays(g, events, n) ==
  g = [k \in 0 .. n |-> IF k = 0 THEN EmptySnapshot ELSE Apply(g[k - 1], events[k])]

\* Two streams agree up to their n-th event.
Agree(events, longer, n) == \A k \in 1 .. n : longer[k] = events[k]

LEMMA ReplayExists ==
  ASSUME NEW events, NEW n \in Nat
  PROVE  \E g : Replays(g, events, n)
<1> DEFINE Bad == {k \in Nat : ~\E g : Replays(g, events, k)}
<1>1. SUFFICES Bad = {}
  OBVIOUS
<1>2. SUFFICES ASSUME Bad # {} PROVE FALSE
  OBVIOUS
<1>3. PICK m \in Bad : \A k \in Bad : m <= k
  <2>1. Bad \in SUBSET Nat
    OBVIOUS
  <2> HIDE DEF Bad
  <2>2. QED
    BY <1>2, <2>1, FirstOf
<1>4. m \in Nat /\ ~\E g : Replays(g, events, m)
  OBVIOUS
<1>5. CASE m = 0
  <2> DEFINE g == [k \in 0 .. 0 |-> EmptySnapshot]
  <2>1. Replays(g, events, 0)
    BY DEF Replays
  <2>2. QED
    BY <1>4, <1>5, <2>1
<1>6. CASE m # 0
  <2>1. m - 1 \in Nat /\ m - 1 \notin Bad
    BY <1>3, <1>4, <1>6
  <2>2. PICK g : Replays(g, events, m - 1)
    BY <2>1
  <2> DEFINE h == [k \in 0 .. m |->
                     IF k = 0 THEN EmptySnapshot ELSE Apply(g[k - 1], events[k])]
  <2>3. \A k \in 0 .. m : k # 0 => k - 1 \in 0 .. m - 1
    BY <1>4
  <2>4. \A k \in 0 .. m - 1 : h[k] = g[k]
    <3>1. g = [k \in 0 .. m - 1 |->
                 IF k = 0 THEN EmptySnapshot ELSE Apply(g[k - 1], events[k])]
      BY <2>2 DEF Replays
    <3>2. \A k \in 0 .. m - 1 :
            g[k] = IF k = 0 THEN EmptySnapshot ELSE Apply(g[k - 1], events[k])
      BY <3>1
    <3>3. \A k \in 0 .. m - 1 : k \in 0 .. m
      BY <1>4
    <3>4. QED
      BY <3>2, <3>3
  <2>5. h = [k \in 0 .. m |->
               IF k = 0 THEN EmptySnapshot ELSE Apply(h[k - 1], events[k])]
    BY <2>3, <2>4
  <2>6. Replays(h, events, m)
    BY <2>5 DEF Replays
  <2>7. QED
    BY <1>4, <2>6
<1>7. QED
  BY <1>5, <1>6

\* The replays of two streams agree as long as the streams do.
LEMMA ReplaysAgree ==
  ASSUME NEW events, NEW longer, NEW n \in Nat, NEW m \in Nat, n <= m,
         Agree(events, longer, n), NEW g, NEW h, Replays(g, events, n), Replays(h, longer, m)
  PROVE  g[n] = h[n]
<1> DEFINE Bad == {k \in 0 .. n : g[k] # h[k]}
<1>1. /\ \A k \in 0 .. n :
           g[k] = IF k = 0 THEN EmptySnapshot ELSE Apply(g[k - 1], events[k])
      /\ \A k \in 0 .. m :
           h[k] = IF k = 0 THEN EmptySnapshot ELSE Apply(h[k - 1], longer[k])
  <2>1. g = [k \in 0 .. n |-> IF k = 0 THEN EmptySnapshot ELSE Apply(g[k - 1], events[k])]
    BY DEF Replays
  <2>2. h = [k \in 0 .. m |-> IF k = 0 THEN EmptySnapshot ELSE Apply(h[k - 1], longer[k])]
    BY DEF Replays
  <2>3. QED
    BY <2>1, <2>2
<1>2. SUFFICES ASSUME Bad # {} PROVE FALSE
  OBVIOUS
<1>3. PICK b \in Bad : \A k \in Bad : b <= k
  <2>1. Bad \in SUBSET Nat
    OBVIOUS
  <2> HIDE DEF Bad
  <2>2. QED
    BY <1>2, <2>1, FirstOf
<1>4. b \in 0 .. n /\ b \in 0 .. m /\ g[b] # h[b]
  OBVIOUS
<1>5. b # 0
  BY <1>1, <1>4
<1>6. b - 1 \in 0 .. n /\ b \in 1 .. n /\ b - 1 \notin Bad
  BY <1>3, <1>4, <1>5
<1>7. g[b - 1] = h[b - 1]
  BY <1>6
<1> HIDE DEF Bad
<1>8. longer[b] = events[b]
  BY <1>6 DEF Agree
<1>9. g[b] = Apply(g[b - 1], events[b]) /\ h[b] = Apply(h[b - 1], longer[b])
  BY <1>1, <1>4, <1>5
<1>10. QED
  BY <1>4, <1>7, <1>8, <1>9

LEMMA SnapshotIs ==
  ASSUME NEW events, Len(events) \in Nat, NEW g, Replays(g, events, Len(events))
  PROVE  Snapshot(events) = g[Len(events)]
<1> DEFINE h == CHOOSE x : Replays(x, events, Len(events))
<1>1. Snapshot(events) = h[Len(events)]
  BY DEF Snapshot, Replays
<1>2. Replays(h, events, Len(events))
  <2>1. \E x : Replays(x, events, Len(events))
    OBVIOUS
  <2>2. QED
    BY <2>1
<1> HIDE DEF h
<1>3. h[Len(events)] = g[Len(events)]
  BY <1>2, ReplaysAgree DEF Agree
<1>4. QED
  BY <1>1, <1>3

\* Of no events nothing is replayed, and one more event is one more to apply.
LEMMA SnapshotOfNone ==
  Snapshot(<<>>) = EmptySnapshot
<1>1. Len(<<>>) = 0
  OBVIOUS
<1>2. PICK g : Replays(g, <<>>, 0)
  BY ReplayExists
<1>3. g[0] = EmptySnapshot
  BY <1>2 DEF Replays
<1>4. QED
  BY <1>1, <1>2, <1>3, SnapshotIs

LEMMA SnapshotOfOneMore ==
  ASSUME NEW S, NEW events \in Seq(S), NEW e
  PROVE  Snapshot(Append(events, e)) = Apply(Snapshot(events), e)
<1>1. events \in Seq(S \cup {e}) /\ e \in S \cup {e}
  OBVIOUS
<1>2. PICK n \in Nat, m \in Nat, longer \in {Append(events, e)} :
        n = Len(events) /\ m = n + 1
  <2>1. Len(events) \in Nat /\ Len(events) + 1 \in Nat
    BY <1>1
  <2>2. QED
    BY <2>1
<1>3. /\ n <= m /\ m \in 0 .. m /\ m # 0 /\ m - 1 = n /\ Len(longer) = m /\ longer[m] = e
      /\ \A k \in 1 .. n : longer[k] = events[k]
  BY <1>1, <1>2
<1>4. PICK g, h : Replays(g, events, n) /\ Replays(h, longer, m)
  BY ReplayExists
<1>5. Snapshot(events) = g[n] /\ Snapshot(longer) = h[m]
  BY <1>2, <1>3, <1>4, SnapshotIs
<1>6. g[n] = h[n]
  <2>1. Agree(events, longer, n)
    BY <1>3 DEF Agree
  <2>2. QED
    BY <1>3, <1>4, <2>1, ReplaysAgree
<1>7. h[m] = Apply(h[n], e)
  <2>1. h = [k \in 0 .. m |-> IF k = 0 THEN EmptySnapshot ELSE Apply(h[k - 1], longer[k])]
    BY <1>4 DEF Replays
  <2>2. h[m] = IF m = 0 THEN EmptySnapshot ELSE Apply(h[m - 1], longer[m])
    BY <1>3, <2>1
  <2>3. QED
    BY <1>3, <2>2
<1>8. QED
  BY <1>2, <1>5, <1>6, <1>7

-----------------------------------------------------------------------------
(* Types and places                                                        *)

EventTypes == {"RunCreated", "RunPausedForActor", "RunClosed", "RunFailed", "RunStopped",
               "IterationStarted", "IterationCompleted", "StepInstructionIssued",
               "StepCommitted", "EvidenceAccepted"}

Events == [type : EventTypes, step : StepIds \cup {NoStep}, iter : 0 .. MaxIters,
           passed : BOOLEAN]

Preparing == {"prepare", "prepare_row"}
Telling == {"start_find", "start", "pause", "issue"}
Claiming == {"row", "load", "refresh", "events", "plan"} \cup Telling
Closing == {"complete_find", "complete"}
Writing == {"write", "flush"}
Guarding == {"guard_events", "guard"}
Recording == {"evidence", "after"}
Submitting == {"submit_load", "commit"} \cup Guarding \cup Recording

Places == {"idle", "lock", "advance", "exhaust", "pass", "passed"} \cup Preparing
            \cup Claiming \cup Closing \cup Writing \cup Submitting

Process == [call : {"none", "prepare", "next", "submit"}, pc : Places,
            then : Places \cup {"return"}, st : State, step : StepIds \cup {NoStep},
            seen : Nat, view : View, passed : BOOLEAN]

Kinds == {"absent", "empty", "torn", "state"}

Pasts == [faults : Nat, cut : BOOLEAN, crossed : BOOLEAN, dropped : BOOLEAN,
          refused : BOOLEAN]

Types ==
  /\ log \in Seq(Events)
  /\ row \in {"queued"} \cup DOMAIN StatusEvent
  /\ file \in [kind : Kinds, st : State]
  /\ lock \in Cli \cup {None}
  /\ handed \subseteq View
  /\ cli \in [Cli -> Process]
  /\ past \in Pasts

\* A process that brings a pass to its end.
Passing(me) == me.pc = "pass" \/ (me.pc \in Closing /\ me.then = "pass")

\* A process that has the result of the claimed step, or has recorded it.
Bringing(me) == me.pc \in Guarding \cup {"commit"} \cup Recording \/ Passing(me)

\* Where a process goes next, and the step it has in hand.
Fits(me) ==
  /\ me.pc = "idle" <=> me.call = "none"
  /\ me.pc \in Writing => me.then \in {"row", "refresh", "return", "events", "passed"}
  /\ me.pc \in Closing => me.then \in {"advance", "pass"}
  /\ me.pc \in Guarding => me.then \in {"guard_events", "commit"}
  /\ me.pc \in Telling => me.step \in StepIds
  /\ (me.pc = "lock" \/ me.pc \in Submitting \/ Passing(me)) => me.call = "submit"
  /\ Bringing(me) => me.step = me.view.step /\ me.st.iter = me.view.iter

PlacesFit == \A c \in Cli : Fits(cli[c])

\* A view that is handed out names a step; the claimed one is of the state's iteration.
ViewsFit ==
  /\ \A v \in handed : v.step \in StepIds
  /\ \A c \in Cli : cli[c].call = "submit" => cli[c].view.step \in StepIds
  /\ \A st \in {file.st} \cup {cli[c].st : c \in Cli} :
       st.active # NoView => st.active.step \in StepIds /\ st.active.iter = st.iter

\* submit.lock is held from the first read of the state to the end of the process.
LockHeld ==
  \A c \in Cli : (cli[c].call = "submit" /\ cli[c].pc # "lock") => lock = c

\* A guard that has read the events has read every commit; past it there is none of the
\* step.
GuardsHold ==
  \A c \in Cli : LET me == cli[c] IN
    /\ me.seen <= Len(log)
    /\ me.pc = "guard" =>
         \A k \in DOMAIN log : k > me.seen => log[k].type # "StepCommitted"
    /\ me.pc = "commit" => ~Committed(log, me.view.iter, me.view.step)

CommittedOnce ==
  \A j, k \in DOMAIN log :
    (log[j].type = "StepCommitted" /\ log[k].type = "StepCommitted"
       /\ log[j].step = log[k].step /\ log[j].iter = log[k].iter) => j = k

EndedOnce ==
  /\ \A j, k \in DOMAIN log :
       (log[j].type \in DOMAIN EndOf /\ log[k].type \in DOMAIN EndOf) => j = k
  /\ \A k \in DOMAIN log : log[k].type \in DOMAIN EndOf =>
       RowTerminal /\ log[k].type = StatusEvent[row]
  /\ RowTerminal => \E k \in DOMAIN log : log[k].type \in DOMAIN EndOf

-----------------------------------------------------------------------------
(* The order of the steps                                                  *)

\* The iterations whose order is kept: all while no claim has run beside another call,
\* and the first.
Kept(crossed, i) == i = 0 \/ ~crossed

Finished(events, i) == \A s \in StepIds : Committed(events, i, s)

FinishedBefore(events, crossed, i) ==
  \A j \in 0 .. MaxIters : (j < i /\ Kept(crossed, j)) => Finished(events, j)

\* Every step up to a place of the strategy is committed.
DoneBefore(events, i, place) ==
  \A s \in StepIds : IndexOf(s) < place => Committed(events, i, s)

\* It is the turn of a step: those before it are committed.
Turn(events, crossed, i, step) ==
  /\ FinishedBefore(events, crossed, i)
  /\ Kept(crossed, i) => DoneBefore(events, i, IndexOf(step))

\* What a state promises: it has come as far as it says.
Reached(events, crossed, st) ==
  /\ FinishedBefore(events, crossed, st.iter)
  /\ Kept(crossed, st.iter) => DoneBefore(events, st.iter, st.index)
  /\ st.active # NoView => Turn(events, crossed, st.iter, st.active.step)

StatesReached ==
  /\ Reached(log, past.crossed, file.st)
  /\ \A c \in Cli : Reached(log, past.crossed, cli[c].st)

Through(me) ==
  (me.pc \in Closing /\ me.then = "advance") \/ me.pc \in {"advance", "exhaust"}

\* Whoever holds a view may commit its step; a process knows whose turn it is, what it
\* has committed, and that an iteration it leaves is finished.
TurnsKept ==
  /\ \A v \in handed : Turn(log, past.crossed, v.iter, v.step)
  /\ \A c \in Cli : LET me == cli[c] IN
       /\ me.call = "submit" => Turn(log, past.crossed, me.view.iter, me.view.step)
       /\ me.pc \in Telling => Turn(log, past.crossed, me.st.iter, me.step)
       /\ (me.pc \in Recording \/ Passing(me)) => Committed(log, me.view.iter, me.view.step)
       /\ (Through(me) /\ Kept(past.crossed, me.st.iter)) => Finished(log, me.st.iter)

Snapshots == [lifecycle : {"created", "running", "awaiting_actor"} \cup Ended,
              step : StepIds \cup {NoStep}, iter : 0 .. MaxIters, pending : BOOLEAN]

\* What the replay makes of the stream: when somebody has been told to do a step, it is
\* its turn.
Told(now, events, crossed) ==
  /\ now \in Snapshots
  /\ now.lifecycle \in Ended => now.step = NoStep
  /\ now.step # NoStep => now.pending /\ Turn(events, crossed, now.iter, now.step)

ToldInTurn == Told(Snapshot(log), log, past.crossed)

\* While no claim has run beside another call, a process that claims is alone with the
\* submissions that wait for the lock ...
Apart ==
  ~past.crossed => \A c, d \in Cli :
    c # d => \/ cli[c].pc = "idle" \/ cli[d].pc = "idle"
             \/ cli[c].call = "submit" /\ cli[d].call = "submit"

\* ... and the step somebody is told to do is not yet committed, nor is the one a process
\* is about to tell of, and no one has been told of a step of another iteration.
Open(now, events) == now.step # NoStep => ~Committed(events, now.iter, now.step)

Tells(me, now, events) ==
  /\ me.pc = "plan" => \A k \in DOMAIN events : k > me.seen => events[k].type # "StepCommitted"
  /\ me.pc \in Telling =>
       /\ ~Committed(events, me.st.iter, me.step)
       /\ now.step # NoStep => now.iter = me.st.iter

ToldOnce ==
  ~past.crossed =>
    /\ Open(Snapshot(log), log)
    /\ \A c \in Cli : Tells(cli[c], Snapshot(log), log)

OnceInv ==
  Types /\ PlacesFit /\ ViewsFit /\ LockHeld /\ GuardsHold /\ CommittedOnce /\ EndedOnce

OrderInv ==
  /\ StatesReached /\ TurnsKept /\ ToldInTurn /\ Apart /\ ToldOnce
  /\ CommitsFollowTheStrategy

-----------------------------------------------------------------------------
(* Types                                                                   *)

LEMMA ViewIs ==
  /\ NoView \in View
  /\ \A v \in View : v.step \in StepIds \cup {NoStep} /\ v.iter \in 0 .. MaxIters
  /\ NoView.step = NoStep
BY NativeAssumption DEF NoView, View

LEMMA DefaultIs ==
  /\ DefaultState \in State
  /\ DefaultState.iter = 0 /\ DefaultState.index = 1 /\ DefaultState.active = NoView
<1>1. Len(Strategy) \in Nat
  BY StrategyAssumption
<1>2. QED
  BY <1>1, ViewIs, NativeAssumption DEF DefaultState, State

LEMMA StateIs ==
  ASSUME NEW st \in State
  PROVE  /\ st.iter \in 0 .. MaxIters /\ st.index \in 1 .. Len(Strategy) + 1
         /\ st.active \in View
BY DEF State

LEMMA UnclaimedIs ==
  ASSUME NEW st \in State
  PROVE  LET now == [st EXCEPT !.active = NoView] IN
         /\ now \in State
         /\ now.iter = st.iter /\ now.index = st.index /\ now.active = NoView
BY ViewIs DEF State

LEMMA DoneIs ==
  ASSUME NEW st \in State
  PROVE  LET now == [st EXCEPT !.done = TRUE] IN
         /\ now \in State
         /\ now.iter = st.iter /\ now.index = st.index /\ now.active = st.active
BY DEF State

LEMMA NextIterationIs ==
  ASSUME NEW st \in State, st.iter + 1 < MaxIters
  PROVE  LET now == NextIterationState(st) IN
         /\ now \in State
         /\ now.iter = st.iter + 1 /\ now.index = 1 /\ now.active = NoView
<1>1. st.iter \in Nat /\ MaxIters \in Nat /\ st.done \in BOOLEAN
  BY NativeAssumption DEF State
<1>2. st.iter + 1 \in 0 .. MaxIters
  BY <1>1
<1>3. QED
  BY <1>1, <1>2, DefaultIs DEF NextIterationState, State

LEMMA SubmittedIs ==
  ASSUME NEW st \in State, NEW step \in StepIds
  PROVE  LET now == SubmittedState(st, step) IN
         /\ now \in State
         /\ now.iter = st.iter /\ now.index = IndexOf(step) + 1 /\ now.active = NoView
<1>1. IndexOf(step) \in 1 .. Len(Strategy) /\ Len(Strategy) \in Nat
  BY IndexIsPlace, StrategyAssumption
<1>2. IndexOf(step) + 1 \in 1 .. Len(Strategy) + 1
  BY <1>1
<1>3. DefaultState.snapshot \in [group : {GroupOf[s] : s \in StepIds} \cup {NoGroup},
                                 iter : Nat, inputs : SUBSET StepIds]
  BY DEF DefaultState
<1>4. QED
  BY <1>2, <1>3, ViewIs DEF SubmittedState, State

LEMMA ClaimedIs ==
  ASSUME NEW st \in State, NEW step \in StepIds
  PROVE  LET now == ClaimedState(st, step) IN
         /\ now \in State
         /\ now.iter = st.iter /\ now.index = st.index
         /\ now.active.step = step /\ now.active.iter = st.iter
<1> DEFINE Taken == [group : {GroupOf[s] : s \in StepIds} \cup {NoGroup},
                         iter : Nat, inputs : SUBSET StepIds]
<1>1. SnapshotFor(st, step) \in Taken
  <2>1. DefaultState.snapshot \in Taken
    BY DEF DefaultState
  <2>2. st.snapshot \in Taken /\ st.iter \in Nat /\ st.results \in SUBSET StepIds
    BY NativeAssumption DEF State
  <2>3. QED
    BY <2>1, <2>2 DEF SnapshotFor
<1>2. PICK snapshot \in Taken : snapshot = SnapshotFor(st, step)
  BY <1>1
<1>3. st.results \in SUBSET StepIds /\ st.iter \in 0 .. MaxIters
  BY DEF State
<1>4. PICK view \in View :
        /\ view = [step |-> step, iter |-> st.iter,
                   inputs |-> IF GroupOf[step] = NoGroup THEN st.results ELSE snapshot.inputs]
        /\ view.step = step /\ view.iter = st.iter
  <2> DEFINE inputs == IF GroupOf[step] = NoGroup THEN st.results ELSE snapshot.inputs
  <2>1. inputs \in SUBSET StepIds
    BY <1>3
  <2> HIDE DEF inputs
  <2>2. [step |-> step, iter |-> st.iter, inputs |-> inputs] \in View
    BY <1>3, <2>1 DEF View
  <2>3. QED
    BY <2>2 DEF inputs
<1>5. ClaimedState(st, step) = [st EXCEPT !.snapshot = snapshot, !.active = view]
  BY <1>2, <1>4 DEF ClaimedState
<1>6. [st EXCEPT !.snapshot = snapshot, !.active = view] \in State
  BY DEF State
<1>7. QED
  BY <1>4, <1>5, <1>6 DEF State

-----------------------------------------------------------------------------
(* Steps                                                                   *)

LEMMA CursorIs ==
  ASSUME NEW events, NEW now, NEW i, NEW fallback
  PROVE  LET next == Cursor(events, now, i, fallback) IN
         IF Claimable(now) /\ now.iter = i /\ now.step \in StepIds THEN next = IndexOf(now.step)
         ELSE \/ /\ next = fallback
                 /\ \A j \in DOMAIN Strategy : ~Committed(events, i, Strategy[j])
              \/ \E k \in DOMAIN Strategy :
                   /\ next = k + 1 /\ Committed(events, i, Strategy[k])
                   /\ \A j \in DOMAIN Strategy : Committed(events, i, Strategy[j]) => j <= k
<1> DEFINE done == {k \in DOMAIN Strategy : Committed(events, i, Strategy[k])}
<1>1. CASE Claimable(now) /\ now.iter = i /\ now.step \in StepIds
  BY <1>1 DEF Cursor
<1>2. CASE ~(Claimable(now) /\ now.iter = i /\ now.step \in StepIds)
  <2>1. CASE done = {}
    BY <1>2, <2>1 DEF Cursor
  <2>2. CASE done # {}
    <3> DEFINE last == CHOOSE k \in done : \A j \in done : j <= k
    <3>1. \E k \in done : \A j \in done : j <= k
      <4>1. Len(Strategy) \in Nat /\ done \in SUBSET (1 .. Len(Strategy))
        BY StrategyAssumption
      <4> HIDE DEF done
      <4>2. QED
        BY <2>2, <4>1, LastOf
    <3>2. last \in done /\ \A j \in done : j <= last
      BY <3>1
    <3>3. Cursor(events, now, i, fallback) = 1 + last
      BY <1>2, <2>2 DEF Cursor
    <3>4. last \in Nat
      BY <3>2, StrategyAssumption
    <3> HIDE DEF last
    <3>5. QED
      BY <1>2, <3>2, <3>3, <3>4
  <2>3. QED
    BY <2>1, <2>2
<1>3. QED
  BY <1>1, <1>2

LEMMA CursorInRange ==
  ASSUME NEW events, NEW now, NEW i, NEW fallback \in 1 .. Len(Strategy) + 1
  PROVE  Cursor(events, now, i, fallback) \in 1 .. Len(Strategy) + 1
<1>1. Len(Strategy) \in Nat /\ DOMAIN Strategy = 1 .. Len(Strategy)
  BY StrategyAssumption
<1>2. \A s \in StepIds : IndexOf(s) \in 1 .. Len(Strategy)
  BY IndexIsPlace
<1>3. QED
  BY <1>1, <1>2, CursorIs

-----------------------------------------------------------------------------
(* What a step may do, whichever it is                                     *)

\* What becomes of a process that stays the same but for where it is and its state.
Moved(c, pc, then, st) ==
  /\ cli' \in [Cli -> Process] /\ \A d \in Cli : d # c => cli'[d] = cli[d]
  /\ cli'[c].pc = pc /\ cli'[c].then = then /\ cli'[c].st = st
  /\ cli'[c].call = cli[c].call /\ cli'[c].step = cli[c].step /\ cli'[c].seen = cli[c].seen
  /\ cli'[c].view = cli[c].view /\ cli'[c].passed = cli[c].passed

LEMMA ProcessIs ==
  ASSUME NEW p \in Process
  PROVE  /\ p.call \in {"none", "prepare", "next", "submit"} /\ p.pc \in Places
         /\ p.then \in Places \cup {"return"} /\ p.st \in State
         /\ p.step \in StepIds \cup {NoStep} /\ p.seen \in Nat /\ p.view \in View
         /\ p.passed \in BOOLEAN
BY DEF Process

LEMMA GoIs ==
  ASSUME cli \in [Cli -> Process], NEW c \in Cli, NEW pc \in Places, Go(c, pc)
  PROVE  Moved(c, pc, cli[c].then, cli[c].st)
BY DEF Go, Moved, Process

LEMMA GoWithIs ==
  ASSUME cli \in [Cli -> Process], NEW c \in Cli, NEW pc \in Places, NEW st \in State,
         GoWith(c, pc, st)
  PROVE  Moved(c, pc, cli[c].then, st)
BY ZenonT(60) DEF GoWith, Moved, Process

LEMMA GoThenIs ==
  ASSUME cli \in [Cli -> Process], NEW c \in Cli, NEW pc \in Places,
         NEW then \in Places \cup {"return"}, GoThen(c, pc, then)
  PROVE  Moved(c, pc, then, cli[c].st)
BY ZenonT(60) DEF GoThen, Moved, Process

LEMMA WriteThenIs ==
  ASSUME cli \in [Cli -> Process], NEW c \in Cli, NEW then \in Places \cup {"return"},
         NEW st \in State, WriteThen(c, st, then)
  PROVE  Moved(c, "write", then, st)
<1>1. "write" \in Places
  BY DEF Places, Writing
<1>2. PICK p \in Process :
        /\ p = [[[cli[c] EXCEPT !.pc = "write"] EXCEPT !.st = st] EXCEPT !.then = then]
        /\ p.pc = "write" /\ p.then = then /\ p.st = st
        /\ p.call = cli[c].call /\ p.step = cli[c].step /\ p.seen = cli[c].seen
        /\ p.view = cli[c].view /\ p.passed = cli[c].passed
  <2> DEFINE p == [[[cli[c] EXCEPT !.pc = "write"] EXCEPT !.st = st] EXCEPT !.then = then]
  <2>1. p \in Process
    BY <1>1 DEF Process
  <2>2. /\ p.pc = "write" /\ p.then = then /\ p.st = st
        /\ p.call = cli[c].call /\ p.step = cli[c].step /\ p.seen = cli[c].seen
        /\ p.view = cli[c].view /\ p.passed = cli[c].passed
    BY DEF Process
  <2>3. QED
    BY <2>1, <2>2
<1>3. cli' = [cli EXCEPT ![c] = p]
  BY <1>2 DEF WriteThen
<1>4. QED
  BY <1>2, <1>3 DEF Moved

LEMMA IdleIs ==
  /\ Idle \in Process /\ Idle.pc = "idle" /\ Idle.call = "none" /\ Idle.st = DefaultState
  /\ Idle.seen = 0
BY DefaultIs, ViewIs DEF Idle, Process, Places

Returned(c) ==
  /\ cli' \in [Cli -> Process] /\ \A d \in Cli : d # c => cli'[d] = cli[d]
  /\ cli'[c].pc = "idle" /\ cli'[c].call = "none" /\ cli'[c].st = DefaultState
  /\ cli'[c].seen = 0 /\ lock' = IF lock = c THEN None ELSE lock

LEMMA ReturnIs ==
  ASSUME cli \in [Cli -> Process], NEW c \in Cli, Return(c)
  PROVE  Returned(c)
BY IdleIs DEF Return, Returned

LEMMA BecomesIs ==
  ASSUME cli \in [Cli -> Process], NEW c \in Cli, NEW p \in Process,
         cli' = [cli EXCEPT ![c] = p]
  PROVE  /\ cli' \in [Cli -> Process] /\ \A d \in Cli : d # c => cli'[d] = cli[d]
         /\ cli'[c] = p
OBVIOUS

\* Where a process comes from, and what it knows.
Enters(c) ==
  LET old == cli[c]  now == cli'[c] IN
  /\ now.pc = "guard" => now.seen = Len(log) /\ log' = log
  /\ now.seen \in {old.seen, Len(log), 0}
  /\ now.pc = "commit" =>
       /\ old.pc = "guard" /\ now.view = old.view /\ log' = log
       /\ ~Committed(SubSeq(log, 1, old.seen), old.view.iter, old.view.step)
  /\ now.pc = "plan" => now.seen = Len(log) /\ log' = log
  /\ now.pc \in Telling =>
       \/ Plan(c) /\ now.pc = "start_find"
       \/ old.pc \in Telling /\ now.step = old.step /\ now.st = old.st
  /\ (now.pc \in Recording \/ Passing(now)) =>
       /\ now.view = old.view
       /\ old.pc \in Recording \/ Passing(old) \/ Commit(c)
  /\ Through(now) => now.st = old.st /\ (Through(old) \/ (Plan(c) /\ now.pc = "complete_find"))

\* A process that calls has been alone, or brings a view it was handed.
Calls(c) ==
  LET old == cli[c]  now == cli'[c] IN
  /\ now.call = "submit" =>
       \/ old.call = "submit" /\ now.view = old.view
       \/ old.pc = "idle" /\ now.view \in handed
  /\ ~past'.crossed =>
       /\ ~past.crossed
       /\ \/ now.pc = "idle" \/ (old.pc # "idle" /\ now.call = old.call)
          \/ \A d \in Cli : d # c =>
               cli[d].pc = "idle" \/ (now.call = "submit" /\ cli[d].call = "submit")

\* What becomes of the states and of the views handed out.
Carries(c) ==
  LET old == cli[c]  now == cli'[c] IN
  /\ \/ now.st \in {old.st, Read(file), DefaultState, [old.st EXCEPT !.active = NoView],
                    [old.st EXCEPT !.done = TRUE]}
     \/ Issue(c) /\ now.st = ClaimedState(old.st, old.step)
     \/ /\ old.pc = "advance" /\ old.st.iter + 1 < MaxIters
        /\ now.st = NextIterationState(old.st)
     \/ /\ old.pc = "after" \/ old.pc = "pass"
        /\ now.st = SubmittedState(old.st, old.step)
  /\ file'.st \in {file.st, old.st}
  /\ handed \subseteq handed' /\ handed' \subseteq handed \cup ({old.st.active} \ {NoView})

\* What is written to the stream and the row.
Records(c) ==
  LET old == cli[c] IN
  \/ log' = log /\ row' = row
  \/ \E status \in DOMAIN StatusEvent : RowUpdatable(status) /\ UpdateRow(status)
  \/ /\ old.pc = "start" /\ row' = row
     /\ log' = Append(log, Event("IterationStarted", NoStep, old.st.iter, FALSE))
  \/ /\ row' = row /\ old.pc \in {"complete", "evidence"}
     /\ \E e \in Events : e.type \in {"IterationCompleted", "EvidenceAccepted"}
                          /\ log' = Append(log, e)
  \/ Issue(c) \/ Commit(c)

StepOf(c) ==
  /\ file' \in [kind : Kinds, st : State] /\ lock' \in Cli \cup {None}
  /\ past' \in Pasts
  /\ cli' \in [Cli -> Process] /\ \A d \in Cli : d # c => cli'[d] = cli[d]
  /\ \A d \in Cli : (d # c /\ lock = d) => lock' = d
  /\ (cli'[c].call = "submit" /\ cli'[c].pc # "lock") => lock' = c
  /\ Fits(cli'[c]) /\ Enters(c) /\ Calls(c) /\ Carries(c) /\ Records(c)

LEMMA EventIs ==
  ASSUME NEW type \in EventTypes, NEW step \in StepIds \cup {NoStep},
         NEW iter \in 0 .. MaxIters, NEW passed \in BOOLEAN
  PROVE  /\ Event(type, step, iter, passed) \in Events
         /\ Event(type, step, iter, passed).type = type
BY DEF Event, Events

LEMMA LoadedIs ==
  ASSUME NEW p \in Process, NEW st \in State, NEW step \in StepIds \cup {NoStep}
  PROVE  [[[[p EXCEPT !.pc = "guard_events"] EXCEPT !.then = "guard_events"]
            EXCEPT !.st = st] EXCEPT !.step = step] \in Process
<1>1. "guard_events" \in Places
  BY DEF Places, Submitting, Guarding
<1>2. QED
  BY <1>1 DEF Process

LEMMA CrossedIs ==
  ASSUME past \in Pasts, NEW x \in BOOLEAN,
         past' = [past EXCEPT !.crossed = @ \/ x]
  PROVE  past' \in Pasts
<1>1. (past.crossed \/ x) \in BOOLEAN
  OBVIOUS
<1>2. QED
  BY <1>1 DEF Pasts

\* What a death or a refusal leaves behind.
Faults(c) ==
  /\ past' \in Pasts /\ past'.crossed = past.crossed
  /\ past.cut => past'.cut
  /\ past.dropped => past'.dropped
  /\ past' = past \/ (Carrying(cli[c]) => past'.dropped)

LEMMA FailsIs ==
  ASSUME past \in Pasts, NEW c
  PROVE  /\ Fails(c) \in Pasts /\ Fails(c).crossed = past.crossed /\ Fails(c).cut = past.cut
         /\ Fails(c).dropped = (past.dropped \/ Carrying(cli[c]))
<1>1. PICK n \in Nat : n = past.faults + 1
  BY DEF Pasts
<1>2. PICK b \in BOOLEAN : b = (past.dropped \/ Carrying(cli[c]))
  OBVIOUS
<1>3. Fails(c) = [[past EXCEPT !.faults = n] EXCEPT !.dropped = b]
  BY <1>1, <1>2 DEF Fails, Pasts
<1>4. [[past EXCEPT !.faults = n] EXCEPT !.dropped = b] \in Pasts
  BY DEF Pasts
<1>5. QED
  BY <1>2, <1>3, <1>4 DEF Pasts

LEMMA RefusedIs ==
  ASSUME past \in Pasts, NEW c, Refused(c)
  PROVE  Faults(c) /\ Return(c)
BY FailsIs DEF Refused, Faults

LEMMA CutIs ==
  ASSUME past \in Pasts, NEW c, Crash(c)
  PROVE  Faults(c) /\ (cli[c].pc = "flush" => past'.cut)
<1>1. PICK cut \in BOOLEAN : cut = (past.cut \/ cli[c].pc = "flush")
  BY DEF Pasts
<1>2. PICK old \in Pasts : old = Fails(c)
  BY FailsIs
<1>3. past' = [old EXCEPT !.cut = cut]
  BY <1>1, <1>2, FailsIs DEF Crash, Pasts
<1>4. [old EXCEPT !.cut = cut] \in Pasts
  BY DEF Pasts
<1>5. QED
  BY <1>1, <1>2, <1>3, <1>4, FailsIs DEF Faults, Pasts

LEMMA ExhaustFaults ==
  ASSUME past \in Pasts, NEW c, Exhaust(c)
  PROVE  Faults(c)
<1>1. CASE past' = past
  BY <1>1 DEF Faults
<1>2. CASE past' = [Fails(c) EXCEPT !.refused = TRUE]
  <2>1. PICK old \in Pasts : old = Fails(c)
    BY FailsIs
  <2>2. /\ [old EXCEPT !.refused = TRUE] \in Pasts
        /\ [old EXCEPT !.refused = TRUE].crossed = old.crossed
        /\ [old EXCEPT !.refused = TRUE].cut = old.cut
        /\ [old EXCEPT !.refused = TRUE].dropped = old.dropped
    BY DEF Pasts
  <2>3. QED
    BY <1>2, <2>1, <2>2, FailsIs DEF Faults
<1>3. QED
  BY <1>1, <1>2 DEF Exhaust

LEMMA StatusIs ==
  /\ DOMAIN StatusEvent = {"awaiting_agent", "succeeded", "failed", "stopped"}
  /\ StatusEvent["awaiting_agent"] = "RunPausedForActor"
  /\ StatusEvent["succeeded"] = "RunClosed" /\ StatusEvent["failed"] = "RunFailed"
  /\ StatusEvent["stopped"] = "RunStopped"
BY DEF StatusEvent

LEMMA StepsAreSuch ==
  ASSUME Types, PlacesFit, ViewsFit, LockHeld, NEW c \in Cli
  PROVE  (CallPrepare(c) \/ CallNext(c) \/ Run(c) \/ Crash(c)
            \/ \E view \in handed, passed \in BOOLEAN : CallSubmit(c, view, passed)) =>
           StepOf(c)
<1> USE DEF Places, Preparing, Telling, Claiming, Closing, Writing, Guarding, Recording,
            Submitting
<1>1. /\ cli \in [Cli -> Process] /\ cli[c] \in Process /\ handed \subseteq View
      /\ file \in [kind : Kinds, st : State] /\ file.st \in State /\ lock \in Cli \cup {None}
      /\ past \in Pasts
      /\ log \in Seq(Events) /\ Len(log) \in Nat
  BY DEF Types
<1>2. /\ cli[c].call \in {"none", "prepare", "next", "submit"} /\ cli[c].pc \in Places
      /\ cli[c].st \in State /\ cli[c].st.iter \in 0 .. MaxIters
      /\ cli[c].st.index \in 1 .. Len(Strategy) + 1
      /\ cli[c].view \in View /\ cli[c].view.step \in StepIds \cup {NoStep}
      /\ cli[c].view.iter \in 0 .. MaxIters
  <2> HIDE DEF Places, Preparing, Telling, Claiming, Closing, Writing, Guarding, Recording,
               Submitting
  <2>1. QED
    BY <1>1, ProcessIs, StateIs, ViewIs
<1>3. Read(file) \in State
  BY <1>1, DefaultIs DEF Read
<1>4. /\ cli[c].call = "none" <=> cli[c].pc = "idle"
      /\ (cli[c].call = "submit" /\ cli[c].pc # "lock") => lock = c
      /\ (cli[c].pc = "lock" \/ cli[c].pc \in Submitting \/ Passing(cli[c])) =>
           cli[c].call = "submit"
      /\ cli[c].pc \in {"after", "pass"} => cli[c].step \in StepIds
      /\ Fits(cli[c])
  BY DEF PlacesFit, ViewsFit, LockHeld, Fits, Bringing, Passing
<1>5. ASSUME CallPrepare(c) PROVE StepOf(c)
  <2>1. PICK p \in Process :
          /\ cli' = [cli EXCEPT ![c] = p]
          /\ p.call = "prepare" /\ p.pc = "prepare" /\ p.then = cli[c].then /\ p.st = cli[c].st
             /\ p.step = cli[c].step /\ p.seen = cli[c].seen
             /\ p.view = cli[c].view /\ p.passed = cli[c].passed
    <3> DEFINE q == [cli[c] EXCEPT !.call = "prepare", !.pc = "prepare"]
    <3>1. q \in Process
      BY <1>1, <1>2, ZenonT(60) DEF Process
    <3>2. cli' = [cli EXCEPT ![c] = q]
      BY <1>1, <1>5 DEF CallPrepare
    <3>3. q.call = "prepare" /\ q.pc = "prepare" /\ q.then = cli[c].then /\ q.st = cli[c].st
          /\ q.step = cli[c].step /\ q.seen = cli[c].seen
          /\ q.view = cli[c].view /\ q.passed = cli[c].passed
      BY <1>1 DEF Process
    <3> HIDE DEF q
    <3>4. QED
      BY <3>1, <3>2, <3>3
  <2>2. /\ cli' \in [Cli -> Process] /\ \A d \in Cli : d # c => cli'[d] = cli[d]
        /\ \A d \in Cli : (d # c /\ lock = d) => lock' = d
        /\ (cli'[c].call = "submit" /\ cli'[c].pc # "lock") => lock' = c
    <3>1. /\ cli' \in [Cli -> Process] /\ \A d \in Cli : d # c => cli'[d] = cli[d]
          /\ cli'[c].call = "prepare"
      BY <1>1, <2>1, BecomesIs
    <3>2. lock' = lock
      BY <1>5 DEF CallPrepare
    <3>3. QED
      BY <3>1, <3>2
  <2>3. Enters(c)
    BY <1>1, <1>2, <1>4, <1>5, <2>1, BecomesIs DEF Enters, Through, Passing, CallPrepare
  <2>4. Calls(c)
    <3>1. past'.crossed = (past.crossed \/ ~Alone(c, "prepare"))
      BY <1>1, <1>5 DEF CallPrepare, MayStart, Pasts
    <3>2. ~past'.crossed => ~past.crossed /\ Alone(c, "prepare")
      BY <3>1
    <3>3. /\ cli'[c].call # "submit"
          /\ Alone(c, "prepare") => \A d \in Cli : d # c => cli[d].pc = "idle"
      BY <1>1, <2>1, BecomesIs DEF Alone
    <3>4. QED
      BY <3>2, <3>3 DEF Calls
  <2>5. Carries(c)
    BY <1>1, <1>2, <1>4, <1>5, <2>1, BecomesIs DEF Carries, CallPrepare
  <2>6. Records(c)
    BY <1>1, <1>2, <1>4, <1>5, EventIs, StatusIs DEF Records, EventTypes, CallPrepare,
       MayStart
  <2>7. Fits(cli'[c])
    BY <1>1, <1>2, <1>4, <1>5, <2>1, BecomesIs DEF Fits, Passing, Bringing, CallPrepare
  <2>8. /\ file' \in [kind : Kinds, st : State] /\ lock' \in Cli \cup {None}
        /\ past' \in Pasts
    BY <1>1, <1>5, CrossedIs DEF CallPrepare, MayStart
  <2>9. QED
    BY <2>2, <2>3, <2>4, <2>5, <2>6, <2>7, <2>8 DEF StepOf
<1>6. ASSUME CallNext(c) PROVE StepOf(c)
  <2>1. PICK p \in Process :
          /\ cli' = [cli EXCEPT ![c] = p]
          /\ p.call = "next" /\ p.pc = "load" /\ p.then = cli[c].then /\ p.st = cli[c].st
             /\ p.step = cli[c].step /\ p.seen = cli[c].seen
             /\ p.view = cli[c].view /\ p.passed = cli[c].passed
    <3> DEFINE q == [cli[c] EXCEPT !.call = "next", !.pc = "load"]
    <3>1. q \in Process
      BY <1>1, <1>2, ZenonT(60) DEF Process
    <3>2. cli' = [cli EXCEPT ![c] = q]
      BY <1>1, <1>6 DEF CallNext
    <3>3. q.call = "next" /\ q.pc = "load" /\ q.then = cli[c].then /\ q.st = cli[c].st
          /\ q.step = cli[c].step /\ q.seen = cli[c].seen
          /\ q.view = cli[c].view /\ q.passed = cli[c].passed
      BY <1>1 DEF Process
    <3> HIDE DEF q
    <3>4. QED
      BY <3>1, <3>2, <3>3
  <2>2. /\ cli' \in [Cli -> Process] /\ \A d \in Cli : d # c => cli'[d] = cli[d]
        /\ \A d \in Cli : (d # c /\ lock = d) => lock' = d
        /\ (cli'[c].call = "submit" /\ cli'[c].pc # "lock") => lock' = c
    <3>1. /\ cli' \in [Cli -> Process] /\ \A d \in Cli : d # c => cli'[d] = cli[d]
          /\ cli'[c].call = "next"
      BY <1>1, <2>1, BecomesIs
    <3>2. lock' = lock
      BY <1>6 DEF CallNext
    <3>3. QED
      BY <3>1, <3>2
  <2>3. Enters(c)
    BY <1>1, <1>2, <1>4, <1>6, <2>1, BecomesIs DEF Enters, Through, Passing, CallNext
  <2>4. Calls(c)
    <3>1. past'.crossed = (past.crossed \/ ~Alone(c, "next"))
      BY <1>1, <1>6 DEF CallNext, MayStart, Pasts
    <3>2. ~past'.crossed => ~past.crossed /\ Alone(c, "next")
      BY <3>1
    <3>3. /\ cli'[c].call # "submit"
          /\ Alone(c, "next") => \A d \in Cli : d # c => cli[d].pc = "idle"
      BY <1>1, <2>1, BecomesIs DEF Alone
    <3>4. QED
      BY <3>2, <3>3 DEF Calls
  <2>5. Carries(c)
    BY <1>1, <1>2, <1>4, <1>6, <2>1, BecomesIs DEF Carries, CallNext
  <2>6. Records(c)
    BY <1>1, <1>2, <1>4, <1>6, EventIs, StatusIs DEF Records, EventTypes, CallNext, MayStart
  <2>7. Fits(cli'[c])
    BY <1>1, <1>2, <1>4, <1>6, <2>1, BecomesIs DEF Fits, Passing, Bringing, CallNext
  <2>8. /\ file' \in [kind : Kinds, st : State] /\ lock' \in Cli \cup {None}
        /\ past' \in Pasts
    BY <1>1, <1>6, CrossedIs DEF CallNext, MayStart
  <2>9. QED
    BY <2>2, <2>3, <2>4, <2>5, <2>6, <2>7, <2>8 DEF StepOf
<1>7. ASSUME BeginWrite(c) PROVE StepOf(c)
  <2>1. Moved(c, "flush", cli[c].then, cli[c].st) /\ lock' = lock
    BY <1>1, <1>2, <1>3, <1>4, <1>7, GoIs DEF BeginWrite
  <2>2. /\ cli' \in [Cli -> Process] /\ \A d \in Cli : d # c => cli'[d] = cli[d]
        /\ \A d \in Cli : (d # c /\ lock = d) => lock' = d
        /\ (cli'[c].call = "submit" /\ cli'[c].pc # "lock") => lock' = c
    BY <1>1, <1>2, <1>4, <1>7, <2>1 DEF Moved, Returned, BeginWrite
  <2>3. Enters(c)
    BY <1>1, <1>2, <1>4, <1>7, <2>1 DEF Moved, Returned, Enters, Through, Passing,
       BeginWrite
  <2>4. Calls(c)
    BY <1>1, <1>2, <1>4, <1>7, <2>1 DEF Moved, Returned, Calls, BeginWrite
  <2>5. Carries(c)
    BY <1>1, <1>2, <1>4, <1>7, <2>1 DEF Moved, Returned, Carries, BeginWrite
  <2>6. Records(c)
    BY <1>1, <1>2, <1>4, <1>7, EventIs, StatusIs DEF Records, EventTypes, BeginWrite
  <2>7. Fits(cli'[c])
    BY <1>1, <1>2, <1>4, <1>7, <2>1 DEF Moved, Returned, Fits, Passing, Bringing, BeginWrite
  <2>8. /\ file' \in [kind : Kinds, st : State] /\ lock' \in Cli \cup {None}
        /\ past' \in Pasts
    BY <1>1, <1>2, <1>7, <2>1 DEF Kinds, Returned, BeginWrite
  <2>9. QED
    BY <2>2, <2>3, <2>4, <2>5, <2>6, <2>7, <2>8 DEF StepOf
<1>8. ASSUME EndWrite(c) PROVE StepOf(c)
  <2>1. \/ cli[c].then = "return" /\ Returned(c)
        \/ /\ cli[c].then \in {"row", "refresh", "events", "passed"}
           /\ Moved(c, cli[c].then, cli[c].then, cli[c].st) /\ lock' = lock
    BY <1>1, <1>2, <1>3, <1>4, <1>8, GoIs, ReturnIs DEF EndWrite, Fits
  <2>2. /\ cli' \in [Cli -> Process] /\ \A d \in Cli : d # c => cli'[d] = cli[d]
        /\ \A d \in Cli : (d # c /\ lock = d) => lock' = d
        /\ (cli'[c].call = "submit" /\ cli'[c].pc # "lock") => lock' = c
    BY <1>1, <1>2, <1>4, <1>8, <2>1 DEF Moved, Returned, EndWrite
  <2>3. Enters(c)
    BY <1>1, <1>2, <1>4, <1>8, <2>1 DEF Moved, Returned, Enters, Through, Passing,
       EndWrite, Fits
  <2>4. Calls(c)
    BY <1>1, <1>2, <1>4, <1>8, <2>1 DEF Moved, Returned, Calls, EndWrite
  <2>5. Carries(c)
    BY <1>1, <1>2, <1>4, <1>8, <2>1 DEF Moved, Returned, Carries, EndWrite
  <2>6. Records(c)
    BY <1>1, <1>2, <1>4, <1>8, EventIs, StatusIs DEF Records, EventTypes, EndWrite
  <2>7. Fits(cli'[c])
    BY <1>1, <1>2, <1>4, <1>8, <2>1 DEF Moved, Returned, Fits, Passing, Bringing, EndWrite
  <2>8. /\ file' \in [kind : Kinds, st : State] /\ lock' \in Cli \cup {None}
        /\ past' \in Pasts
    BY <1>1, <1>2, <1>8, <2>1 DEF Kinds, Returned, EndWrite
  <2>9. QED
    BY <2>2, <2>3, <2>4, <2>5, <2>6, <2>7, <2>8 DEF StepOf
<1>9. ASSUME PrepareLoad(c) PROVE StepOf(c)
  <2>1. Returned(c) \/ (Moved(c, "prepare_row", cli[c].then, Read(file)) /\ lock' = lock)
    BY <1>1, <1>2, <1>3, <1>4, <1>9, GoWithIs, ReturnIs DEF PrepareLoad
  <2>2. /\ cli' \in [Cli -> Process] /\ \A d \in Cli : d # c => cli'[d] = cli[d]
        /\ \A d \in Cli : (d # c /\ lock = d) => lock' = d
        /\ (cli'[c].call = "submit" /\ cli'[c].pc # "lock") => lock' = c
    BY <1>1, <1>2, <1>4, <1>9, <2>1 DEF Moved, Returned, PrepareLoad
  <2>3. Enters(c)
    BY <1>1, <1>2, <1>4, <1>9, <2>1 DEF Moved, Returned, Enters, Through, Passing,
       PrepareLoad
  <2>4. Calls(c)
    BY <1>1, <1>2, <1>4, <1>9, <2>1 DEF Moved, Returned, Calls, PrepareLoad
  <2>5. Carries(c)
    BY <1>1, <1>2, <1>4, <1>9, <2>1 DEF Moved, Returned, Carries, PrepareLoad
  <2>6. Records(c)
    BY <1>1, <1>2, <1>4, <1>9, EventIs, StatusIs DEF Records, EventTypes, PrepareLoad
  <2>7. Fits(cli'[c])
    BY <1>1, <1>2, <1>4, <1>9, <2>1 DEF Moved, Returned, Fits, Passing, Bringing,
       PrepareLoad
  <2>8. /\ file' \in [kind : Kinds, st : State] /\ lock' \in Cli \cup {None}
        /\ past' \in Pasts
    BY <1>1, <1>2, <1>9, <2>1 DEF Kinds, Returned, PrepareLoad
  <2>9. QED
    BY <2>2, <2>3, <2>4, <2>5, <2>6, <2>7, <2>8 DEF StepOf
<1>10. ASSUME PrepareRow(c) PROVE StepOf(c)
  <2>1. Returned(c) \/ (Moved(c, "write", "row", cli[c].st) /\ lock' = lock)
    BY <1>1, <1>2, <1>3, <1>4, <1>10, WriteThenIs, ReturnIs DEF PrepareRow
  <2>2. /\ cli' \in [Cli -> Process] /\ \A d \in Cli : d # c => cli'[d] = cli[d]
        /\ \A d \in Cli : (d # c /\ lock = d) => lock' = d
        /\ (cli'[c].call = "submit" /\ cli'[c].pc # "lock") => lock' = c
    BY <1>1, <1>2, <1>4, <1>10, <2>1 DEF Moved, Returned, PrepareRow
  <2>3. Enters(c)
    BY <1>1, <1>2, <1>4, <1>10, <2>1 DEF Moved, Returned, Enters, Through, Passing,
       PrepareRow
  <2>4. Calls(c)
    BY <1>1, <1>2, <1>4, <1>10, <2>1 DEF Moved, Returned, Calls, PrepareRow
  <2>5. Carries(c)
    BY <1>1, <1>2, <1>4, <1>10, <2>1 DEF Moved, Returned, Carries, PrepareRow
  <2>6. Records(c)
    BY <1>1, <1>2, <1>4, <1>10, EventIs, StatusIs DEF Records, EventTypes, PrepareRow
  <2>7. Fits(cli'[c])
    BY <1>1, <1>2, <1>4, <1>10, <2>1 DEF Moved, Returned, Fits, Passing, Bringing,
       PrepareRow
  <2>8. /\ file' \in [kind : Kinds, st : State] /\ lock' \in Cli \cup {None}
        /\ past' \in Pasts
    BY <1>1, <1>2, <1>10, <2>1 DEF Kinds, Returned, PrepareRow
  <2>9. QED
    BY <2>2, <2>3, <2>4, <2>5, <2>6, <2>7, <2>8 DEF StepOf
<1>11. ASSUME ReadRow(c) PROVE StepOf(c)
  <2>1. Returned(c) \/ (Moved(c, "load", cli[c].then, cli[c].st) /\ lock' = lock)
    BY <1>1, <1>2, <1>3, <1>4, <1>11, GoIs, ReturnIs DEF ReadRow
  <2>2. /\ cli' \in [Cli -> Process] /\ \A d \in Cli : d # c => cli'[d] = cli[d]
        /\ \A d \in Cli : (d # c /\ lock = d) => lock' = d
        /\ (cli'[c].call = "submit" /\ cli'[c].pc # "lock") => lock' = c
    BY <1>1, <1>2, <1>4, <1>11, <2>1 DEF Moved, Returned, ReadRow
  <2>3. Enters(c)
    BY <1>1, <1>2, <1>4, <1>11, <2>1 DEF Moved, Returned, Enters, Through, Passing, ReadRow
  <2>4. Calls(c)
    BY <1>1, <1>2, <1>4, <1>11, <2>1 DEF Moved, Returned, Calls, ReadRow
  <2>5. Carries(c)
    BY <1>1, <1>2, <1>4, <1>11, <2>1 DEF Moved, Returned, Carries, ReadRow
  <2>6. Records(c)
    BY <1>1, <1>2, <1>4, <1>11, EventIs, StatusIs DEF Records, EventTypes, ReadRow
  <2>7. Fits(cli'[c])
    BY <1>1, <1>2, <1>4, <1>11, <2>1 DEF Moved, Returned, Fits, Passing, Bringing, ReadRow
  <2>8. /\ file' \in [kind : Kinds, st : State] /\ lock' \in Cli \cup {None}
        /\ past' \in Pasts
    BY <1>1, <1>2, <1>11, <2>1 DEF Kinds, Returned, ReadRow
  <2>9. QED
    BY <2>2, <2>3, <2>4, <2>5, <2>6, <2>7, <2>8 DEF StepOf
<1>12. ASSUME Load(c) PROVE StepOf(c)
  <2>1. \/ Returned(c)
        \/ Moved(c, "refresh", cli[c].then, Read(file)) /\ lock' = lock
        \/ Moved(c, "write", "refresh", Read(file)) /\ lock' = lock
    BY <1>1, <1>2, <1>3, <1>4, <1>12, GoWithIs, WriteThenIs, ReturnIs DEF Load
  <2>2. /\ cli' \in [Cli -> Process] /\ \A d \in Cli : d # c => cli'[d] = cli[d]
        /\ \A d \in Cli : (d # c /\ lock = d) => lock' = d
        /\ (cli'[c].call = "submit" /\ cli'[c].pc # "lock") => lock' = c
    BY <1>1, <1>2, <1>4, <1>12, <2>1 DEF Moved, Returned, Load
  <2>3. Enters(c)
    BY <1>1, <1>2, <1>4, <1>12, <2>1 DEF Moved, Returned, Enters, Through, Passing, Load
  <2>4. Calls(c)
    BY <1>1, <1>2, <1>4, <1>12, <2>1 DEF Moved, Returned, Calls, Load
  <2>5. Carries(c)
    BY <1>1, <1>2, <1>4, <1>12, <2>1 DEF Moved, Returned, Carries, Load
  <2>6. Records(c)
    BY <1>1, <1>2, <1>4, <1>12, EventIs, StatusIs DEF Records, EventTypes, Load
  <2>7. Fits(cli'[c])
    BY <1>1, <1>2, <1>4, <1>12, <2>1 DEF Moved, Returned, Fits, Passing, Bringing, Load
  <2>8. /\ file' \in [kind : Kinds, st : State] /\ lock' \in Cli \cup {None}
        /\ past' \in Pasts
    BY <1>1, <1>2, <1>12, <2>1 DEF Kinds, Returned, Load
  <2>9. QED
    BY <2>2, <2>3, <2>4, <2>5, <2>6, <2>7, <2>8 DEF StepOf
<1>13. ASSUME Refresh(c) PROVE StepOf(c)
  <2>1. \/ Returned(c)
        \/ Moved(c, "events", cli[c].then, cli[c].st) /\ lock' = lock
        \/ Moved(c, "write", "events", [cli[c].st EXCEPT !.active = NoView]) /\ lock' = lock
        \/ Moved(c, "write", "return", cli[c].st) /\ lock' = lock
    BY <1>1, <1>2, <1>3, <1>4, <1>13, GoIs, WriteThenIs, ReturnIs, UnclaimedIs DEF Refresh
  <2>2. /\ cli' \in [Cli -> Process] /\ \A d \in Cli : d # c => cli'[d] = cli[d]
        /\ \A d \in Cli : (d # c /\ lock = d) => lock' = d
        /\ (cli'[c].call = "submit" /\ cli'[c].pc # "lock") => lock' = c
    BY <1>1, <1>2, <1>4, <1>13, <2>1 DEF Moved, Returned, Refresh
  <2>3. Enters(c)
    BY <1>1, <1>2, <1>4, <1>13, <2>1 DEF Moved, Returned, Enters, Through, Passing, Refresh
  <2>4. Calls(c)
    BY <1>1, <1>2, <1>4, <1>13, <2>1 DEF Moved, Returned, Calls, Refresh
  <2>5. Carries(c)
    BY <1>1, <1>2, <1>4, <1>13, <2>1 DEF Moved, Returned, Carries, Refresh
  <2>6. Records(c)
    BY <1>1, <1>2, <1>4, <1>13, EventIs, StatusIs DEF Records, EventTypes, Refresh
  <2>7. Fits(cli'[c])
    BY <1>1, <1>2, <1>4, <1>13, <2>1 DEF Moved, Returned, Fits, Passing, Bringing, Refresh
  <2>8. /\ file' \in [kind : Kinds, st : State] /\ lock' \in Cli \cup {None}
        /\ past' \in Pasts
    BY <1>1, <1>2, <1>13, <2>1 DEF Kinds, Returned, Refresh
  <2>9. QED
    BY <2>2, <2>3, <2>4, <2>5, <2>6, <2>7, <2>8 DEF StepOf
<1>14. ASSUME ReadEvents(c) PROVE StepOf(c)
  <2>1. PICK p \in Process :
          /\ cli' = [cli EXCEPT ![c] = p]
          /\ p.call = cli[c].call /\ p.pc = "plan" /\ p.then = cli[c].then /\ p.st = cli[c].st
             /\ p.step = cli[c].step /\ p.seen = Len(log)
             /\ p.view = cli[c].view /\ p.passed = cli[c].passed
    <3> DEFINE q == [cli[c] EXCEPT !.pc = "plan", !.seen = Len(log)]
    <3>1. q \in Process
      BY <1>1, <1>2, ZenonT(60) DEF Process
    <3>2. cli' = [cli EXCEPT ![c] = q]
      BY <1>1, <1>14 DEF ReadEvents
    <3>3. q.call = cli[c].call /\ q.pc = "plan" /\ q.then = cli[c].then /\ q.st = cli[c].st
          /\ q.step = cli[c].step /\ q.seen = Len(log)
          /\ q.view = cli[c].view /\ q.passed = cli[c].passed
      BY <1>1 DEF Process
    <3> HIDE DEF q
    <3>4. QED
      BY <3>1, <3>2, <3>3
  <2>2. /\ cli' \in [Cli -> Process] /\ \A d \in Cli : d # c => cli'[d] = cli[d]
        /\ \A d \in Cli : (d # c /\ lock = d) => lock' = d
        /\ (cli'[c].call = "submit" /\ cli'[c].pc # "lock") => lock' = c
    BY <1>1, <1>2, <1>4, <1>14, <2>1, BecomesIs, SMTT(30) DEF ReadEvents
  <2>3. Enters(c)
    BY <1>1, <1>2, <1>4, <1>14, <2>1, BecomesIs DEF Enters, Through, Passing, ReadEvents
  <2>4. Calls(c)
    BY <1>1, <1>2, <1>4, <1>14, <2>1, BecomesIs DEF Calls, ReadEvents
  <2>5. Carries(c)
    BY <1>1, <1>2, <1>4, <1>14, <2>1, BecomesIs DEF Carries, ReadEvents
  <2>6. Records(c)
    BY <1>1, <1>2, <1>4, <1>14, EventIs, StatusIs DEF Records, EventTypes, ReadEvents
  <2>7. Fits(cli'[c])
    BY <1>1, <1>2, <1>4, <1>14, <2>1, BecomesIs DEF Fits, Passing, Bringing, ReadEvents
  <2>8. /\ file' \in [kind : Kinds, st : State] /\ lock' \in Cli \cup {None}
        /\ past' \in Pasts
    BY <1>1, <1>2, <1>14 DEF Kinds, ReadEvents
  <2>9. QED
    BY <2>2, <2>3, <2>4, <2>5, <2>6, <2>7, <2>8 DEF StepOf
<1>15. ASSUME Plan(c) PROVE StepOf(c)
  <2>1. PICK p \in Process :
          /\ cli' = [cli EXCEPT ![c] = p]
          /\ \/ p.pc = "start_find" /\ p.step \in StepIds
             \/ p.pc = "complete_find" /\ p.then = "advance"
          /\ p.call = cli[c].call /\ p.st = cli[c].st
          /\ p.seen = cli[c].seen /\ p.view = cli[c].view
    <3> DEFINE next == Cursor(SubSeq(log, 1, cli[c].seen), Snapshot(log), cli[c].st.iter,
                              cli[c].st.index)
    <3>1. CASE next <= Len(Strategy)
      <4>1. PICK step \in StepIds : step = Strategy[next]
        <5>1. next \in 1 .. Len(Strategy) + 1
          BY <1>2, CursorInRange
        <5> HIDE DEF next
        <5>2. next \in 1 .. Len(Strategy)
          BY <3>1, <5>1, StrategyAssumption
        <5>3. QED
          BY <5>2, IndexIsPlace
      <4> DEFINE q == [[cli[c] EXCEPT !.pc = "start_find"] EXCEPT !.step = step]
      <4>2. cli' = [cli EXCEPT ![c] = q]
        BY <1>1, <1>15, <3>1, <4>1 DEF Plan
      <4>3. /\ q \in Process /\ q.pc = "start_find" /\ q.step \in StepIds
            /\ q.call = cli[c].call /\ q.st = cli[c].st
            /\ q.seen = cli[c].seen /\ q.view = cli[c].view
        BY <1>1, <1>2 DEF Process
      <4> HIDE DEF q
      <4>4. QED
        BY <4>2, <4>3
    <3>2. CASE ~(next <= Len(Strategy))
      <4>1. GoThen(c, "complete_find", "advance")
        BY <1>15, <3>2 DEF Plan
      <4> DEFINE q == [[cli[c] EXCEPT !.pc = "complete_find"] EXCEPT !.then = "advance"]
      <4>2. cli' = [cli EXCEPT ![c] = q]
        BY <1>1, <4>1 DEF GoThen
      <4>3. /\ q \in Process /\ q.pc = "complete_find" /\ q.then = "advance"
            /\ q.call = cli[c].call /\ q.st = cli[c].st
            /\ q.seen = cli[c].seen /\ q.view = cli[c].view
        BY <1>1, <1>2 DEF Process
      <4> HIDE DEF q
      <4>4. QED
        BY <4>2, <4>3
    <3>3. QED
      BY <3>1, <3>2
  <2>2. /\ cli' \in [Cli -> Process] /\ \A d \in Cli : d # c => cli'[d] = cli[d]
        /\ \A d \in Cli : (d # c /\ lock = d) => lock' = d
        /\ (cli'[c].call = "submit" /\ cli'[c].pc # "lock") => lock' = c
    BY <1>1, <1>2, <1>4, <1>15, <2>1, BecomesIs, SMTT(30) DEF Plan
  <2>3. Enters(c)
    BY <1>1, <1>2, <1>4, <1>15, <2>1, BecomesIs DEF Enters, Through, Passing
  <2>4. Calls(c)
    BY <1>1, <1>2, <1>4, <1>15, <2>1, BecomesIs DEF Calls, Plan
  <2>5. Carries(c)
    BY <1>1, <1>2, <1>4, <1>15, <2>1, BecomesIs DEF Carries, Plan
  <2>6. Records(c)
    BY <1>1, <1>2, <1>4, <1>15, EventIs, StatusIs DEF Records, EventTypes, Plan
  <2>7. Fits(cli'[c])
    BY <1>1, <1>2, <1>4, <1>15, <2>1, BecomesIs DEF Fits, Passing, Bringing, Plan
  <2>8. /\ file' \in [kind : Kinds, st : State] /\ lock' \in Cli \cup {None}
        /\ past' \in Pasts
    BY <1>1, <1>2, <1>15 DEF Kinds, Plan
  <2>9. QED
    BY <2>2, <2>3, <2>4, <2>5, <2>6, <2>7, <2>8 DEF StepOf
<1>16. ASSUME FindStarted(c) PROVE StepOf(c)
  <2>1. (Moved(c, "pause", cli[c].then, cli[c].st) \/ Moved(c, "start", cli[c].then, cli[c].st))
        /\ lock' = lock
    BY <1>1, <1>2, <1>3, <1>4, <1>16, GoIs DEF FindStarted
  <2>2. /\ cli' \in [Cli -> Process] /\ \A d \in Cli : d # c => cli'[d] = cli[d]
        /\ \A d \in Cli : (d # c /\ lock = d) => lock' = d
        /\ (cli'[c].call = "submit" /\ cli'[c].pc # "lock") => lock' = c
    BY <1>1, <1>2, <1>4, <1>16, <2>1 DEF Moved, Returned, FindStarted
  <2>3. Enters(c)
    BY <1>1, <1>2, <1>4, <1>16, <2>1 DEF Moved, Returned, Enters, Through, Passing,
       FindStarted
  <2>4. Calls(c)
    BY <1>1, <1>2, <1>4, <1>16, <2>1 DEF Moved, Returned, Calls, FindStarted
  <2>5. Carries(c)
    BY <1>1, <1>2, <1>4, <1>16, <2>1 DEF Moved, Returned, Carries, FindStarted
  <2>6. Records(c)
    BY <1>1, <1>2, <1>4, <1>16, EventIs, StatusIs DEF Records, EventTypes, FindStarted
  <2>7. Fits(cli'[c])
    BY <1>1, <1>2, <1>4, <1>16, <2>1 DEF Moved, Returned, Fits, Passing, Bringing,
       FindStarted
  <2>8. /\ file' \in [kind : Kinds, st : State] /\ lock' \in Cli \cup {None}
        /\ past' \in Pasts
    BY <1>1, <1>2, <1>16, <2>1 DEF Kinds, Returned, FindStarted
  <2>9. QED
    BY <2>2, <2>3, <2>4, <2>5, <2>6, <2>7, <2>8 DEF StepOf
<1>17. ASSUME StartIteration(c) PROVE StepOf(c)
  <2>1. Moved(c, "pause", cli[c].then, cli[c].st) /\ lock' = lock
    BY <1>1, <1>2, <1>3, <1>4, <1>17, GoIs DEF StartIteration
  <2>2. /\ cli' \in [Cli -> Process] /\ \A d \in Cli : d # c => cli'[d] = cli[d]
        /\ \A d \in Cli : (d # c /\ lock = d) => lock' = d
        /\ (cli'[c].call = "submit" /\ cli'[c].pc # "lock") => lock' = c
    BY <1>1, <1>2, <1>4, <1>17, <2>1 DEF Moved, Returned, StartIteration
  <2>3. Enters(c)
    BY <1>1, <1>2, <1>4, <1>17, <2>1 DEF Moved, Returned, Enters, Through, Passing,
       StartIteration
  <2>4. Calls(c)
    BY <1>1, <1>2, <1>4, <1>17, <2>1 DEF Moved, Returned, Calls, StartIteration
  <2>5. Carries(c)
    BY <1>1, <1>2, <1>4, <1>17, <2>1 DEF Moved, Returned, Carries, StartIteration
  <2>6. Records(c)
    BY <1>1, <1>2, <1>4, <1>17, EventIs, StatusIs DEF Records, EventTypes, StartIteration
  <2>7. Fits(cli'[c])
    BY <1>1, <1>2, <1>4, <1>17, <2>1 DEF Moved, Returned, Fits, Passing, Bringing,
       StartIteration
  <2>8. /\ file' \in [kind : Kinds, st : State] /\ lock' \in Cli \cup {None}
        /\ past' \in Pasts
    BY <1>1, <1>2, <1>17, <2>1 DEF Kinds, Returned, StartIteration
  <2>9. QED
    BY <2>2, <2>3, <2>4, <2>5, <2>6, <2>7, <2>8 DEF StepOf
<1>18. ASSUME PauseRow(c) PROVE StepOf(c)
  <2>1. Returned(c) \/ (Moved(c, "issue", cli[c].then, cli[c].st) /\ lock' = lock)
    BY <1>1, <1>2, <1>3, <1>4, <1>18, GoIs, ReturnIs DEF PauseRow
  <2>2. /\ cli' \in [Cli -> Process] /\ \A d \in Cli : d # c => cli'[d] = cli[d]
        /\ \A d \in Cli : (d # c /\ lock = d) => lock' = d
        /\ (cli'[c].call = "submit" /\ cli'[c].pc # "lock") => lock' = c
    BY <1>1, <1>2, <1>4, <1>18, <2>1 DEF Moved, Returned, PauseRow
  <2>3. Enters(c)
    BY <1>1, <1>2, <1>4, <1>18, <2>1 DEF Moved, Returned, Enters, Through, Passing, PauseRow
  <2>4. Calls(c)
    BY <1>1, <1>2, <1>4, <1>18, <2>1 DEF Moved, Returned, Calls, PauseRow
  <2>5. Carries(c)
    BY <1>1, <1>2, <1>4, <1>18, <2>1 DEF Moved, Returned, Carries, PauseRow
  <2>6. Records(c)
    BY <1>1, <1>2, <1>4, <1>18, EventIs, StatusIs DEF Records, EventTypes, PauseRow
  <2>7. Fits(cli'[c])
    BY <1>1, <1>2, <1>4, <1>18, <2>1 DEF Moved, Returned, Fits, Passing, Bringing, PauseRow
  <2>8. /\ file' \in [kind : Kinds, st : State] /\ lock' \in Cli \cup {None}
        /\ past' \in Pasts
    BY <1>1, <1>2, <1>18, <2>1 DEF Kinds, Returned, PauseRow
  <2>9. QED
    BY <2>2, <2>3, <2>4, <2>5, <2>6, <2>7, <2>8 DEF StepOf
<1>19. ASSUME Issue(c) PROVE StepOf(c)
  <2>1. Moved(c, "write", "return", ClaimedState(cli[c].st, cli[c].step)) /\ lock' = lock
    BY <1>1, <1>2, <1>3, <1>4, <1>19, WriteThenIs, ClaimedIs DEF Issue, Fits
  <2>2. /\ cli' \in [Cli -> Process] /\ \A d \in Cli : d # c => cli'[d] = cli[d]
        /\ \A d \in Cli : (d # c /\ lock = d) => lock' = d
        /\ (cli'[c].call = "submit" /\ cli'[c].pc # "lock") => lock' = c
    BY <1>1, <1>2, <1>4, <1>19, <2>1 DEF Moved, Returned, Issue
  <2>3. Enters(c)
    BY <1>1, <1>2, <1>4, <1>19, <2>1 DEF Moved, Returned, Enters, Through, Passing, Issue
  <2>4. Calls(c)
    BY <1>1, <1>2, <1>4, <1>19, <2>1 DEF Moved, Returned, Calls, Issue
  <2>5. Carries(c)
    BY <1>1, <1>2, <1>4, <1>19, <2>1 DEF Moved, Returned, Carries, Issue
  <2>6. Records(c)
    BY <1>1, <1>2, <1>4, <1>19, EventIs, StatusIs DEF Records, EventTypes
  <2>7. Fits(cli'[c])
    BY <1>1, <1>2, <1>4, <1>19, <2>1 DEF Moved, Returned, Fits, Passing, Bringing, Issue
  <2>8. /\ file' \in [kind : Kinds, st : State] /\ lock' \in Cli \cup {None}
        /\ past' \in Pasts
    BY <1>1, <1>2, <1>19, <2>1 DEF Kinds, Returned, Issue
  <2>9. QED
    BY <2>2, <2>3, <2>4, <2>5, <2>6, <2>7, <2>8 DEF StepOf
<1>20. ASSUME FindCompleted(c) PROVE StepOf(c)
  <2>1. (\/ Moved(c, "complete", cli[c].then, cli[c].st)
         \/ Moved(c, cli[c].then, cli[c].then, cli[c].st))
        /\ lock' = lock
    BY <1>1, <1>2, <1>3, <1>4, <1>20, GoIs DEF FindCompleted, Fits
  <2>2. /\ cli' \in [Cli -> Process] /\ \A d \in Cli : d # c => cli'[d] = cli[d]
        /\ \A d \in Cli : (d # c /\ lock = d) => lock' = d
        /\ (cli'[c].call = "submit" /\ cli'[c].pc # "lock") => lock' = c
    BY <1>1, <1>2, <1>4, <1>20, <2>1 DEF Moved, Returned, FindCompleted, Passing
  <2>3. Enters(c)
    BY <1>1, <1>2, <1>4, <1>20, <2>1 DEF Moved, Returned, Enters, Through, Passing,
       FindCompleted, Fits
  <2>4. Calls(c)
    BY <1>1, <1>2, <1>4, <1>20, <2>1 DEF Moved, Returned, Calls, FindCompleted
  <2>5. Carries(c)
    BY <1>1, <1>2, <1>4, <1>20, <2>1 DEF Moved, Returned, Carries, FindCompleted
  <2>6. Records(c)
    BY <1>1, <1>2, <1>4, <1>20, EventIs, StatusIs DEF Records, EventTypes, FindCompleted
  <2>7. Fits(cli'[c])
    BY <1>1, <1>2, <1>4, <1>20, <2>1 DEF Moved, Returned, Fits, Passing, Bringing,
       FindCompleted
  <2>8. /\ file' \in [kind : Kinds, st : State] /\ lock' \in Cli \cup {None}
        /\ past' \in Pasts
    BY <1>1, <1>2, <1>20, <2>1 DEF Kinds, Returned, FindCompleted
  <2>9. QED
    BY <2>2, <2>3, <2>4, <2>5, <2>6, <2>7, <2>8 DEF StepOf
<1>21. ASSUME CompleteIteration(c) PROVE StepOf(c)
  <2>1. Moved(c, cli[c].then, cli[c].then, cli[c].st) /\ lock' = lock
    BY <1>1, <1>2, <1>3, <1>4, <1>21, GoIs DEF CompleteIteration, Fits
  <2>2. /\ cli' \in [Cli -> Process] /\ \A d \in Cli : d # c => cli'[d] = cli[d]
        /\ \A d \in Cli : (d # c /\ lock = d) => lock' = d
        /\ (cli'[c].call = "submit" /\ cli'[c].pc # "lock") => lock' = c
    BY <1>1, <1>2, <1>4, <1>21, <2>1 DEF Moved, Returned, CompleteIteration, Passing
  <2>3. Enters(c)
    BY <1>1, <1>2, <1>4, <1>21, <2>1 DEF Moved, Returned, Enters, Through, Passing,
       CompleteIteration, Fits
  <2>4. Calls(c)
    BY <1>1, <1>2, <1>4, <1>21, <2>1 DEF Moved, Returned, Calls, CompleteIteration
  <2>5. Carries(c)
    BY <1>1, <1>2, <1>4, <1>21, <2>1 DEF Moved, Returned, Carries, CompleteIteration
  <2>6. Records(c)
    <3>1. PICK e \in Events :
            /\ e = Event("IterationCompleted", NoStep, cli[c].st.iter, FALSE)
            /\ e.type = "IterationCompleted"
      <4> DEFINE new == Event("IterationCompleted", NoStep, cli[c].st.iter, FALSE)
      <4>1. new \in Events
        BY <1>2 DEF Event, Events, EventTypes
      <4>2. new.type = "IterationCompleted"
        BY DEF Event
      <4>3. QED
        BY <4>1, <4>2
    <3>2. /\ log' = Append(log, e) /\ row' = row
          /\ cli[c].pc \in {"complete", "evidence"}
      BY <1>21, <3>1 DEF CompleteIteration
    <3>3. QED
      BY <3>1, <3>2 DEF Records
  <2>7. Fits(cli'[c])
    BY <1>1, <1>2, <1>4, <1>21, <2>1 DEF Moved, Returned, Fits, Passing, Bringing,
       CompleteIteration
  <2>8. /\ file' \in [kind : Kinds, st : State] /\ lock' \in Cli \cup {None}
        /\ past' \in Pasts
    BY <1>1, <1>2, <1>21, <2>1 DEF Kinds, Returned, CompleteIteration
  <2>9. QED
    BY <2>2, <2>3, <2>4, <2>5, <2>6, <2>7, <2>8 DEF StepOf
<1>22. ASSUME Advance(c) PROVE StepOf(c)
  <2>1. \/ Moved(c, "exhaust", cli[c].then, cli[c].st) /\ lock' = lock
        \/ /\ cli[c].st.iter + 1 < MaxIters
           /\ Moved(c, "write", "row", NextIterationState(cli[c].st)) /\ lock' = lock
    BY <1>1, <1>2, <1>3, <1>4, <1>22, GoIs, WriteThenIs, NextIterationIs,
       NativeAssumption DEF Advance
  <2>2. /\ cli' \in [Cli -> Process] /\ \A d \in Cli : d # c => cli'[d] = cli[d]
        /\ \A d \in Cli : (d # c /\ lock = d) => lock' = d
        /\ (cli'[c].call = "submit" /\ cli'[c].pc # "lock") => lock' = c
    BY <1>1, <1>2, <1>4, <1>22, <2>1 DEF Moved, Returned, Advance
  <2>3. Enters(c)
    BY <1>1, <1>2, <1>4, <1>22, <2>1, NativeAssumption DEF Moved, Returned, Enters,
       Through, Passing, Advance
  <2>4. Calls(c)
    BY <1>1, <1>2, <1>4, <1>22, <2>1 DEF Moved, Returned, Calls, Advance
  <2>5. Carries(c)
    BY <1>1, <1>2, <1>4, <1>22, <2>1 DEF Moved, Returned, Carries, Advance
  <2>6. Records(c)
    BY <1>1, <1>2, <1>4, <1>22, EventIs, StatusIs DEF Records, EventTypes, Advance
  <2>7. Fits(cli'[c])
    BY <1>1, <1>2, <1>4, <1>22, <2>1 DEF Moved, Returned, Fits, Passing, Bringing, Advance
  <2>8. /\ file' \in [kind : Kinds, st : State] /\ lock' \in Cli \cup {None}
        /\ past' \in Pasts
    BY <1>1, <1>2, <1>22, <2>1 DEF Kinds, Returned, Advance
  <2>9. QED
    BY <2>2, <2>3, <2>4, <2>5, <2>6, <2>7, <2>8 DEF StepOf
<1>23. ASSUME Exhaust(c) PROVE StepOf(c)
  <2>0. past' \in Pasts /\ past'.crossed = past.crossed
    BY <1>1, <1>23, ExhaustFaults DEF Faults
  <2>1. \/ Returned(c)
        \/ Moved(c, "write", "return", [cli[c].st EXCEPT !.done = TRUE]) /\ lock' = lock
    BY <1>1, <1>2, <1>3, <1>4, <1>23, WriteThenIs, ReturnIs, DoneIs DEF Exhaust
  <2>2. /\ cli' \in [Cli -> Process] /\ \A d \in Cli : d # c => cli'[d] = cli[d]
        /\ \A d \in Cli : (d # c /\ lock = d) => lock' = d
        /\ (cli'[c].call = "submit" /\ cli'[c].pc # "lock") => lock' = c
    BY <1>1, <1>2, <1>4, <1>23, <2>1 DEF Moved, Returned, Exhaust
  <2>3. Enters(c)
    BY <1>1, <1>2, <1>4, <1>23, <2>1 DEF Moved, Returned, Enters, Through, Passing, Exhaust
  <2>4. Calls(c)
    BY <1>1, <1>2, <1>4, <1>23, <2>0, <2>1 DEF Moved, Returned, Calls, Exhaust
  <2>5. Carries(c)
    BY <1>1, <1>2, <1>4, <1>23, <2>1 DEF Moved, Returned, Carries, Exhaust
  <2>6. Records(c)
    BY <1>1, <1>2, <1>4, <1>23, EventIs, StatusIs DEF Records, EventTypes, Exhaust
  <2>7. Fits(cli'[c])
    BY <1>1, <1>2, <1>4, <1>23, <2>1 DEF Moved, Returned, Fits, Passing, Bringing, Exhaust
  <2>8. /\ file' \in [kind : Kinds, st : State] /\ lock' \in Cli \cup {None}
        /\ past' \in Pasts
    BY <1>1, <1>2, <1>23, <2>0, <2>1 DEF Kinds, Returned, Exhaust
  <2>9. QED
    BY <2>2, <2>3, <2>4, <2>5, <2>6, <2>7, <2>8 DEF StepOf
<1>24. ASSUME Lock(c) PROVE StepOf(c)
  <2>1. Moved(c, "submit_load", cli[c].then, cli[c].st) /\ lock = None /\ lock' = c
    BY <1>1, <1>2, <1>3, <1>4, <1>24, GoIs DEF Lock, LockFree
  <2>2. /\ cli' \in [Cli -> Process] /\ \A d \in Cli : d # c => cli'[d] = cli[d]
        /\ \A d \in Cli : (d # c /\ lock = d) => lock' = d
        /\ (cli'[c].call = "submit" /\ cli'[c].pc # "lock") => lock' = c
    BY <1>1, <1>2, <1>4, <1>24, <2>1, NativeAssumption DEF Moved, Returned, Lock, LockFree
  <2>3. Enters(c)
    BY <1>1, <1>2, <1>4, <1>24, <2>1 DEF Moved, Returned, Enters, Through, Passing, Lock
  <2>4. Calls(c)
    BY <1>1, <1>2, <1>4, <1>24, <2>1 DEF Moved, Returned, Calls, Lock
  <2>5. Carries(c)
    BY <1>1, <1>2, <1>4, <1>24, <2>1 DEF Moved, Returned, Carries, Lock
  <2>6. Records(c)
    BY <1>1, <1>2, <1>4, <1>24, EventIs, StatusIs DEF Records, EventTypes, Lock
  <2>7. Fits(cli'[c])
    BY <1>1, <1>2, <1>4, <1>24, <2>1 DEF Moved, Returned, Fits, Passing, Bringing, Lock
  <2>8. /\ file' \in [kind : Kinds, st : State] /\ lock' \in Cli \cup {None}
        /\ past' \in Pasts
    BY <1>1, <1>2, <1>24, <2>1 DEF Kinds, Returned, Lock
  <2>9. QED
    BY <2>2, <2>3, <2>4, <2>5, <2>6, <2>7, <2>8 DEF StepOf
<1>25. ASSUME SubmitLoad(c) PROVE StepOf(c)
  <2>1. \/ Returned(c)
        \/ \E p \in Process :
             /\ cli' = [cli EXCEPT ![c] = p]
             /\ p.pc = "guard_events" /\ p.call = cli[c].call /\ p.st = Read(file)
             /\ p.seen = cli[c].seen /\ p.view = cli[c].view /\ p.step = cli[c].view.step
             /\ p.then = "guard_events" /\ lock' = lock
    <3>1. CASE Return(c)
      BY <1>1, <3>1, ReturnIs
    <3>2. CASE ~Return(c)
      <4> DEFINE q == [[[[cli[c] EXCEPT !.pc = "guard_events"] EXCEPT !.then = "guard_events"]
                        EXCEPT !.st = Read(file)] EXCEPT !.step = cli[c].view.step]
      <4>1. cli' = [cli EXCEPT ![c] = q] /\ lock' = lock
        BY <1>1, <1>25, <3>2 DEF SubmitLoad
      <4>2. /\ q.pc = "guard_events" /\ q.call = cli[c].call /\ q.st = Read(file)
            /\ q.seen = cli[c].seen /\ q.view = cli[c].view /\ q.step = cli[c].view.step
            /\ q.then = "guard_events"
        BY <1>1 DEF Process
      <4>3. q \in Process
        <5>1. PICK st \in State, step \in StepIds \cup {NoStep} :
                st = Read(file) /\ step = cli[c].view.step
          BY <1>2, <1>3
        <5>2. QED
          BY <1>1, <5>1, LoadedIs
      <4> HIDE DEF q
      <4>4. QED
        BY <4>1, <4>2, <4>3
    <3>3. QED
      BY <3>1, <3>2
  <2>2. /\ cli' \in [Cli -> Process] /\ \A d \in Cli : d # c => cli'[d] = cli[d]
        /\ \A d \in Cli : (d # c /\ lock = d) => lock' = d
        /\ (cli'[c].call = "submit" /\ cli'[c].pc # "lock") => lock' = c
    BY <1>1, <1>2, <1>4, <1>25, <2>1, BecomesIs DEF Returned, SubmitLoad
  <2>3. Enters(c)
    BY <1>1, <1>2, <1>4, <1>25, <2>1, BecomesIs DEF Returned, Enters, Through,
       Passing, SubmitLoad
  <2>4. Calls(c)
    BY <1>1, <1>2, <1>4, <1>25, <2>1, BecomesIs DEF Returned, Calls, SubmitLoad
  <2>5. Carries(c)
    BY <1>1, <1>2, <1>4, <1>25, <2>1, BecomesIs DEF Returned, Carries, SubmitLoad
  <2>6. Records(c)
    BY <1>1, <1>2, <1>4, <1>25, EventIs, StatusIs DEF Records, EventTypes, SubmitLoad
  <2>7. Fits(cli'[c])
    <3>1. CASE Returned(c)
      BY <3>1 DEF Returned, Fits, Passing, Bringing
    <3>2. CASE ~Returned(c)
      <4>1. PICK p \in Process :
              /\ cli' = [cli EXCEPT ![c] = p]
              /\ p.pc = "guard_events" /\ p.call = cli[c].call /\ p.st = Read(file)
              /\ p.view = cli[c].view /\ p.step = cli[c].view.step /\ p.then = "guard_events"
        BY <2>1, <3>2
      <4>2. /\ Read(file).active.step = cli[c].view.step
            /\ Read(file).active.iter = cli[c].view.iter
        BY <1>1, <1>25, <3>2, ReturnIs DEF SubmitLoad
      <4>3. cli[c].call = "submit" /\ cli[c].view.step \in StepIds
        BY <1>4, <1>25 DEF SubmitLoad, ViewsFit
      <4>4. Read(file).iter = cli[c].view.iter
        BY <4>2, <4>3, DefaultIs, ViewIs, StrategyAssumption DEF Read, ViewsFit
      <4>5. QED
        BY <1>1, <4>1, <4>3, <4>4, BecomesIs DEF Fits, Passing, Bringing
    <3>3. QED
      BY <3>1, <3>2
  <2>8. /\ file' \in [kind : Kinds, st : State] /\ lock' \in Cli \cup {None}
        /\ past' \in Pasts
    BY <1>1, <1>2, <1>25, <2>1 DEF Kinds, Returned, SubmitLoad
  <2>9. QED
    BY <2>2, <2>3, <2>4, <2>5, <2>6, <2>7, <2>8 DEF StepOf
<1>26. ASSUME GuardEvents(c) PROVE StepOf(c)
  <2>1. PICK p \in Process :
          /\ cli' = [cli EXCEPT ![c] = p]
          /\ p.call = cli[c].call /\ p.pc = "guard" /\ p.then = cli[c].then /\ p.st = cli[c].st
             /\ p.step = cli[c].step /\ p.seen = Len(log)
             /\ p.view = cli[c].view /\ p.passed = cli[c].passed
    <3> DEFINE q == [cli[c] EXCEPT !.pc = "guard", !.seen = Len(log)]
    <3>1. q \in Process
      BY <1>1, <1>2, ZenonT(60) DEF Process
    <3>2. cli' = [cli EXCEPT ![c] = q]
      BY <1>1, <1>26 DEF GuardEvents
    <3>3. q.call = cli[c].call /\ q.pc = "guard" /\ q.then = cli[c].then /\ q.st = cli[c].st
          /\ q.step = cli[c].step /\ q.seen = Len(log)
          /\ q.view = cli[c].view /\ q.passed = cli[c].passed
      BY <1>1 DEF Process
    <3> HIDE DEF q
    <3>4. QED
      BY <3>1, <3>2, <3>3
  <2>2. /\ cli' \in [Cli -> Process] /\ \A d \in Cli : d # c => cli'[d] = cli[d]
        /\ \A d \in Cli : (d # c /\ lock = d) => lock' = d
        /\ (cli'[c].call = "submit" /\ cli'[c].pc # "lock") => lock' = c
    BY <1>1, <1>2, <1>4, <1>26, <2>1, BecomesIs, SMTT(30) DEF GuardEvents
  <2>3. Enters(c)
    BY <1>1, <1>2, <1>4, <1>26, <2>1, BecomesIs DEF Enters, Through, Passing, GuardEvents
  <2>4. Calls(c)
    BY <1>1, <1>2, <1>4, <1>26, <2>1, BecomesIs DEF Calls, GuardEvents
  <2>5. Carries(c)
    BY <1>1, <1>2, <1>4, <1>26, <2>1, BecomesIs DEF Carries, GuardEvents
  <2>6. Records(c)
    BY <1>1, <1>2, <1>4, <1>26, EventIs, StatusIs DEF Records, EventTypes, GuardEvents
  <2>7. Fits(cli'[c])
    BY <1>1, <1>2, <1>4, <1>26, <2>1, BecomesIs DEF Fits, Passing, Bringing, GuardEvents
  <2>8. /\ file' \in [kind : Kinds, st : State] /\ lock' \in Cli \cup {None}
        /\ past' \in Pasts
    BY <1>1, <1>2, <1>26 DEF Kinds, GuardEvents
  <2>9. QED
    BY <2>2, <2>3, <2>4, <2>5, <2>6, <2>7, <2>8 DEF StepOf
<1>27. ASSUME Guard(c) PROVE StepOf(c)
  <2>1. Returned(c) \/ (Moved(c, cli[c].then, "commit", cli[c].st) /\ lock' = lock)
    BY <1>1, <1>2, <1>3, <1>4, <1>27, GoThenIs, ReturnIs DEF Guard, Fits
  <2>2. /\ cli' \in [Cli -> Process] /\ \A d \in Cli : d # c => cli'[d] = cli[d]
        /\ \A d \in Cli : (d # c /\ lock = d) => lock' = d
        /\ (cli'[c].call = "submit" /\ cli'[c].pc # "lock") => lock' = c
    BY <1>1, <1>2, <1>4, <1>27, <2>1 DEF Moved, Returned, Guard, Passing
  <2>3. Enters(c)
    <3>1. cli'[c].pc = "commit" =>
            Submittable(SubSeq(log, 1, cli[c].seen), Snapshot(log), cli[c].view.iter,
                        cli[c].view.step)
      BY <1>1, <1>27, ReturnIs DEF Guard, Returned
    <3>2. cli[c].pc = "guard" /\ log' = log /\ cli[c].then \in {"guard_events", "commit"}
      BY <1>4, <1>27 DEF Guard, Fits
    <3>3. cli'[c].view = cli[c].view \/ cli'[c].pc = "idle"
      BY <2>1 DEF Moved, Returned
    <3>4. QED
      BY <2>1, <3>1, <3>2, <3>3 DEF Moved, Returned, Enters, Through, Passing, Submittable
  <2>4. Calls(c)
    BY <1>1, <1>2, <1>4, <1>27, <2>1 DEF Moved, Returned, Calls, Guard
  <2>5. Carries(c)
    BY <1>1, <1>2, <1>4, <1>27, <2>1 DEF Moved, Returned, Carries, Guard
  <2>6. Records(c)
    BY <1>1, <1>2, <1>4, <1>27, EventIs, StatusIs DEF Records, EventTypes, Guard
  <2>7. Fits(cli'[c])
    BY <1>1, <1>2, <1>4, <1>27, <2>1 DEF Moved, Returned, Fits, Passing, Bringing, Guard
  <2>8. /\ file' \in [kind : Kinds, st : State] /\ lock' \in Cli \cup {None}
        /\ past' \in Pasts
    BY <1>1, <1>2, <1>27, <2>1 DEF Kinds, Returned, Guard
  <2>9. QED
    BY <2>2, <2>3, <2>4, <2>5, <2>6, <2>7, <2>8 DEF StepOf
<1>28. ASSUME Commit(c) PROVE StepOf(c)
  <2>1. Moved(c, "evidence", cli[c].then, cli[c].st) /\ lock' = lock
    BY <1>1, <1>2, <1>3, <1>4, <1>28, GoIs DEF Commit
  <2>2. /\ cli' \in [Cli -> Process] /\ \A d \in Cli : d # c => cli'[d] = cli[d]
        /\ \A d \in Cli : (d # c /\ lock = d) => lock' = d
        /\ (cli'[c].call = "submit" /\ cli'[c].pc # "lock") => lock' = c
    BY <1>1, <1>2, <1>4, <1>28, <2>1 DEF Moved, Returned, Commit
  <2>3. Enters(c)
    BY <1>1, <1>2, <1>4, <1>28, <2>1 DEF Moved, Returned, Enters, Through, Passing
  <2>4. Calls(c)
    BY <1>1, <1>2, <1>4, <1>28, <2>1 DEF Moved, Returned, Calls, Commit
  <2>5. Carries(c)
    BY <1>1, <1>2, <1>4, <1>28, <2>1 DEF Moved, Returned, Carries, Commit
  <2>6. Records(c)
    BY <1>1, <1>2, <1>4, <1>28, EventIs, StatusIs DEF Records, EventTypes
  <2>7. Fits(cli'[c])
    BY <1>1, <1>2, <1>4, <1>28, <2>1 DEF Moved, Returned, Fits, Passing, Bringing, Commit
  <2>8. /\ file' \in [kind : Kinds, st : State] /\ lock' \in Cli \cup {None}
        /\ past' \in Pasts
    BY <1>1, <1>2, <1>28, <2>1 DEF Kinds, Returned, Commit
  <2>9. QED
    BY <2>2, <2>3, <2>4, <2>5, <2>6, <2>7, <2>8 DEF StepOf
<1>29. ASSUME RecordEvidence(c) PROVE StepOf(c)
  <2>1. /\ \/ Returned(c) /\ log' = log
           \/ /\ Moved(c, "after", cli[c].then, cli[c].st) /\ lock' = lock
              /\ log' = Append(log, Event("EvidenceAccepted", cli[c].view.step,
                                         cli[c].view.iter, FALSE))
        /\ past' \in Pasts /\ past'.crossed = past.crossed
        /\ cli[c].pc = "evidence" /\ UNCHANGED <<row, file, handed>>
    <3>1. CASE Refused(c) /\ log' = log
      BY <1>1, <1>29, <3>1, RefusedIs, ReturnIs DEF RecordEvidence, Faults
    <3>2. CASE ~(Refused(c) /\ log' = log)
      BY <1>1, <1>2, <1>3, <1>4, <1>29, <3>2, GoIs DEF RecordEvidence
    <3>3. QED
      BY <3>1, <3>2
  <2>2. /\ cli' \in [Cli -> Process] /\ \A d \in Cli : d # c => cli'[d] = cli[d]
        /\ \A d \in Cli : (d # c /\ lock = d) => lock' = d
        /\ (cli'[c].call = "submit" /\ cli'[c].pc # "lock") => lock' = c
    BY <1>1, <1>2, <1>4, <2>1 DEF Moved, Returned
  <2>3. Enters(c)
    BY <1>1, <1>2, <1>4, <2>1 DEF Moved, Returned, Enters, Through, Passing
  <2>4. Calls(c)
    BY <1>1, <1>2, <1>4, <2>1 DEF Moved, Returned, Calls
  <2>5. Carries(c)
    BY <1>1, <1>2, <1>4, <2>1 DEF Moved, Returned, Carries
  <2>6. Records(c)
    <3>1. PICK e \in Events :
            /\ e = Event("EvidenceAccepted", cli[c].view.step, cli[c].view.iter, FALSE)
            /\ e.type = "EvidenceAccepted"
      <4> DEFINE new == Event("EvidenceAccepted", cli[c].view.step, cli[c].view.iter, FALSE)
      <4>1. new \in Events
        BY <1>2 DEF Event, Events, EventTypes
      <4>2. new.type = "EvidenceAccepted"
        BY DEF Event
      <4>3. QED
        BY <4>1, <4>2
    <3>2. QED
      BY <2>1, <3>1 DEF Records
  <2>7. Fits(cli'[c])
    BY <1>1, <1>2, <1>4, <2>1 DEF Moved, Returned, Fits, Passing, Bringing
  <2>8. /\ file' \in [kind : Kinds, st : State] /\ lock' \in Cli \cup {None}
        /\ past' \in Pasts
    BY <1>1, <1>2, <2>1 DEF Kinds, Returned
  <2>9. QED
    BY <2>2, <2>3, <2>4, <2>5, <2>6, <2>7, <2>8 DEF StepOf
<1>30. ASSUME WorkspaceBreach(c) PROVE StepOf(c)
  <2>1. Returned(c)
    BY <1>1, <1>2, <1>3, <1>4, <1>30, ReturnIs DEF WorkspaceBreach
  <2>2. /\ cli' \in [Cli -> Process] /\ \A d \in Cli : d # c => cli'[d] = cli[d]
        /\ \A d \in Cli : (d # c /\ lock = d) => lock' = d
        /\ (cli'[c].call = "submit" /\ cli'[c].pc # "lock") => lock' = c
    BY <1>1, <1>2, <1>4, <1>30, <2>1 DEF Moved, Returned, WorkspaceBreach
  <2>3. Enters(c)
    BY <1>1, <1>2, <1>4, <1>30, <2>1 DEF Moved, Returned, Enters, Through, Passing,
       WorkspaceBreach
  <2>4. Calls(c)
    BY <1>1, <1>2, <1>4, <1>30, <2>1 DEF Moved, Returned, Calls, WorkspaceBreach
  <2>5. Carries(c)
    BY <1>1, <1>2, <1>4, <1>30, <2>1 DEF Moved, Returned, Carries, WorkspaceBreach
  <2>6. Records(c)
    BY <1>1, <1>2, <1>4, <1>30, EventIs, StatusIs DEF Records, EventTypes, WorkspaceBreach
  <2>7. Fits(cli'[c])
    BY <1>1, <1>2, <1>4, <1>30, <2>1 DEF Moved, Returned, Fits, Passing, Bringing,
       WorkspaceBreach
  <2>8. /\ file' \in [kind : Kinds, st : State] /\ lock' \in Cli \cup {None}
        /\ past' \in Pasts
    BY <1>1, <1>2, <1>30, <2>1 DEF Kinds, Returned, WorkspaceBreach
  <2>9. QED
    BY <2>2, <2>3, <2>4, <2>5, <2>6, <2>7, <2>8 DEF StepOf
<1>31. ASSUME AfterCommit(c) PROVE StepOf(c)
  <2>1. \/ Moved(c, "complete_find", "pass", cli[c].st) /\ lock' = lock
        \/ Moved(c, "write", "row", SubmittedState(cli[c].st, cli[c].step)) /\ lock' = lock
    BY <1>1, <1>2, <1>3, <1>4, <1>31, GoThenIs, WriteThenIs, SubmittedIs DEF AfterCommit
  <2>2. /\ cli' \in [Cli -> Process] /\ \A d \in Cli : d # c => cli'[d] = cli[d]
        /\ \A d \in Cli : (d # c /\ lock = d) => lock' = d
        /\ (cli'[c].call = "submit" /\ cli'[c].pc # "lock") => lock' = c
    BY <1>1, <1>2, <1>4, <1>31, <2>1 DEF Moved, Returned, AfterCommit, Passing
  <2>3. Enters(c)
    BY <1>1, <1>2, <1>4, <1>31, <2>1 DEF Moved, Returned, Enters, Through, Passing,
       AfterCommit
  <2>4. Calls(c)
    BY <1>1, <1>2, <1>4, <1>31, <2>1 DEF Moved, Returned, Calls, AfterCommit
  <2>5. Carries(c)
    BY <1>1, <1>2, <1>4, <1>31, <2>1 DEF Moved, Returned, Carries, AfterCommit
  <2>6. Records(c)
    BY <1>1, <1>2, <1>4, <1>31, EventIs, StatusIs DEF Records, EventTypes, AfterCommit
  <2>7. Fits(cli'[c])
    BY <1>1, <1>2, <1>4, <1>31, <2>1 DEF Moved, Returned, Fits, Passing, Bringing,
       AfterCommit
  <2>8. /\ file' \in [kind : Kinds, st : State] /\ lock' \in Cli \cup {None}
        /\ past' \in Pasts
    BY <1>1, <1>2, <1>31, <2>1 DEF Kinds, Returned, AfterCommit
  <2>9. QED
    BY <2>2, <2>3, <2>4, <2>5, <2>6, <2>7, <2>8 DEF StepOf
<1>32. ASSUME Pass(c) PROVE StepOf(c)
  <2>0. /\ past' \in Pasts /\ past'.crossed = past.crossed
        /\ Refused(c) => Return(c)
    BY <1>1, <1>32, RefusedIs DEF Pass, Faults
  <2>1. \/ Returned(c)
        \/ Moved(c, "write", "passed", SubmittedState(cli[c].st, cli[c].step)) /\ lock' = lock
    BY <1>1, <1>2, <1>3, <1>4, <1>32, <2>0, WriteThenIs, ReturnIs, SubmittedIs DEF Pass
  <2>2. /\ cli' \in [Cli -> Process] /\ \A d \in Cli : d # c => cli'[d] = cli[d]
        /\ \A d \in Cli : (d # c /\ lock = d) => lock' = d
        /\ (cli'[c].call = "submit" /\ cli'[c].pc # "lock") => lock' = c
    BY <1>1, <1>2, <1>4, <1>32, <2>1 DEF Moved, Returned, Pass, Passing
  <2>3. Enters(c)
    BY <1>1, <1>2, <1>4, <1>32, <2>1 DEF Moved, Returned, Enters, Through, Passing, Pass
  <2>4. Calls(c)
    BY <1>1, <1>2, <1>4, <1>32, <2>0, <2>1 DEF Moved, Returned, Calls, Pass
  <2>5. Carries(c)
    BY <1>1, <1>2, <1>4, <1>32, <2>1 DEF Moved, Returned, Carries, Pass
  <2>6. Records(c)
    BY <1>1, <1>2, <1>4, <1>32, EventIs, StatusIs DEF Records, EventTypes, Pass
  <2>7. Fits(cli'[c])
    BY <1>1, <1>2, <1>4, <1>32, <2>1 DEF Moved, Returned, Fits, Passing, Bringing, Pass
  <2>8. /\ file' \in [kind : Kinds, st : State] /\ lock' \in Cli \cup {None}
        /\ past' \in Pasts
    BY <1>1, <1>2, <1>32, <2>0, <2>1 DEF Kinds, Returned, Pass
  <2>9. QED
    BY <2>2, <2>3, <2>4, <2>5, <2>6, <2>7, <2>8 DEF StepOf
<1>33. ASSUME Passed(c) PROVE StepOf(c)
  <2>1. Moved(c, "write", "return", [cli[c].st EXCEPT !.done = TRUE]) /\ lock' = lock
    BY <1>1, <1>2, <1>3, <1>4, <1>33, WriteThenIs, DoneIs DEF Passed
  <2>2. /\ cli' \in [Cli -> Process] /\ \A d \in Cli : d # c => cli'[d] = cli[d]
        /\ \A d \in Cli : (d # c /\ lock = d) => lock' = d
        /\ (cli'[c].call = "submit" /\ cli'[c].pc # "lock") => lock' = c
    BY <1>1, <1>2, <1>4, <1>33, <2>1 DEF Moved, Returned, Passed
  <2>3. Enters(c)
    BY <1>1, <1>2, <1>4, <1>33, <2>1 DEF Moved, Returned, Enters, Through, Passing, Passed
  <2>4. Calls(c)
    BY <1>1, <1>2, <1>4, <1>33, <2>1 DEF Moved, Returned, Calls, Passed
  <2>5. Carries(c)
    BY <1>1, <1>2, <1>4, <1>33, <2>1 DEF Moved, Returned, Carries, Passed
  <2>6. Records(c)
    BY <1>1, <1>2, <1>4, <1>33, EventIs, StatusIs DEF Records, EventTypes, Passed
  <2>7. Fits(cli'[c])
    BY <1>1, <1>2, <1>4, <1>33, <2>1 DEF Moved, Returned, Fits, Passing, Bringing, Passed
  <2>8. /\ file' \in [kind : Kinds, st : State] /\ lock' \in Cli \cup {None}
        /\ past' \in Pasts
    BY <1>1, <1>2, <1>33, <2>1 DEF Kinds, Returned, Passed
  <2>9. QED
    BY <2>2, <2>3, <2>4, <2>5, <2>6, <2>7, <2>8 DEF StepOf
<1>34. ASSUME Crash(c) PROVE StepOf(c)
  <2>1. Returned(c)
    BY <1>1, <1>2, <1>3, <1>4, <1>34, ReturnIs DEF Crash
  <2>2. /\ cli' \in [Cli -> Process] /\ \A d \in Cli : d # c => cli'[d] = cli[d]
        /\ \A d \in Cli : (d # c /\ lock = d) => lock' = d
        /\ (cli'[c].call = "submit" /\ cli'[c].pc # "lock") => lock' = c
    BY <1>1, <1>2, <1>4, <1>34, <2>1 DEF Moved, Returned, Crash
  <2>3. Enters(c)
    BY <1>1, <1>2, <1>4, <1>34, <2>1 DEF Moved, Returned, Enters, Through, Passing, Crash
  <2>4. Calls(c)
    <3>1. past'.crossed = past.crossed
      BY <1>1, <1>34, CutIs DEF Faults
    <3>2. QED
      BY <1>1, <1>2, <1>4, <1>34, <2>1, <3>1 DEF Moved, Returned, Calls, Crash
  <2>5. Carries(c)
    BY <1>1, <1>2, <1>4, <1>34, <2>1 DEF Moved, Returned, Carries, Crash
  <2>6. Records(c)
    BY <1>1, <1>2, <1>4, <1>34, EventIs, StatusIs DEF Records, EventTypes, Crash
  <2>7. Fits(cli'[c])
    BY <1>1, <1>2, <1>4, <1>34, <2>1 DEF Moved, Returned, Fits, Passing, Bringing, Crash
  <2>8. /\ file' \in [kind : Kinds, st : State] /\ lock' \in Cli \cup {None}
        /\ past' \in Pasts
    <3>3. past' \in Pasts
      BY <1>1, <1>34, CutIs DEF Faults
    <3>4. QED
      BY <1>1, <1>34, <2>1, <3>3 DEF Crash, Returned
  <2>9. QED
    BY <2>2, <2>3, <2>4, <2>5, <2>6, <2>7, <2>8 DEF StepOf
<1>35. ASSUME NEW view \in handed, NEW passed \in BOOLEAN, CallSubmit(c, view, passed)
      PROVE  StepOf(c)
  <2>1. PICK p \in Process :
          /\ cli' = [cli EXCEPT ![c] = p]
          /\ p.call = "submit" /\ p.pc = "lock" /\ p.st = cli[c].st /\ p.view = view
          /\ p.seen = cli[c].seen
    <3> DEFINE q == [[[[cli[c] EXCEPT !.call = "submit"] EXCEPT !.pc = "lock"]
                      EXCEPT !.view = view] EXCEPT !.passed = passed]
    <3>1. cli' = [cli EXCEPT ![c] = q]
      BY <1>1, <1>35 DEF CallSubmit
    <3>2. /\ q.call = "submit" /\ q.pc = "lock" /\ q.st = cli[c].st /\ q.view = view
          /\ q.seen = cli[c].seen
      BY <1>1 DEF Process
    <3>3. q \in Process
      BY <1>1, ZenonT(60) DEF Process
    <3> HIDE DEF q
    <3>4. QED
      BY <3>1, <3>2, <3>3
  <2>2. /\ past'.crossed = (past.crossed \/ ~Alone(c, "submit")) /\ cli[c].pc = "idle"
        /\ UNCHANGED <<log, row, file, lock, handed>>
    BY <1>1, <1>35 DEF CallSubmit, MayStart, Pasts
  <2>3. Enters(c)
    BY <1>1, <2>1, <2>2, BecomesIs DEF Enters, Through, Passing
  <2>4. Calls(c)
    <3>1. ~past'.crossed => ~past.crossed /\ Alone(c, "submit")
      BY <2>2
    <3>2. QED
      BY <1>1, <2>1, <2>2, <3>1, BecomesIs DEF Calls, Alone
  <2>5. Carries(c) /\ Records(c)
    BY <1>1, <2>1, <2>2, BecomesIs DEF Carries, Records
  <2>6. Fits(cli'[c])
    BY <1>1, <2>1, BecomesIs DEF Fits, Passing, Bringing
  <2>7. past' \in Pasts
    BY <1>1, <1>35, CrossedIs DEF CallSubmit, MayStart
  <2>8. QED
    BY <1>1, <2>1, <2>2, <2>3, <2>4, <2>5, <2>6, <2>7, BecomesIs DEF StepOf
<1>36. QED
  BY <1>5, <1>6, <1>7, <1>8, <1>9, <1>10, <1>11, <1>12, <1>13, <1>14, <1>15, <1>16,
     <1>17, <1>18, <1>19, <1>20, <1>21, <1>22, <1>23, <1>24, <1>25, <1>26, <1>27, <1>28,
     <1>29, <1>30, <1>31, <1>32, <1>33, <1>34, <1>35 DEF Run, Claim, FinishIteration,
     Submit

\* A step is one of a process, the user's stop, or none.
LEMMA NextIsSuch ==
  ASSUME Types, PlacesFit, ViewsFit, LockHeld, [Next]_vars
  PROVE  (\E c \in Cli : StepOf(c)) \/ Stop \/ UNCHANGED vars
BY StepsAreSuch DEF Next

-----------------------------------------------------------------------------
(* The stream                                                              *)

LEMMA AppendIs ==
  ASSUME NEW events \in Seq(Events), NEW e \in Events
  PROVE  /\ Append(events, e) \in Seq(Events)
         /\ DOMAIN Append(events, e) = 1 .. Len(events) + 1
         /\ Len(Append(events, e)) = Len(events) + 1
         /\ \A k \in DOMAIN events : Append(events, e)[k] = events[k]
         /\ Append(events, e)[Len(events) + 1] = e
         /\ DOMAIN events = 1 .. Len(events) /\ Len(events) \in Nat
OBVIOUS

\* Which event a step adds.
Adds(types) == \E e \in Events : e.type \in types /\ log' = Append(log, e)

LEMMA UpdateRowIs ==
  ASSUME Types, NEW status \in DOMAIN StatusEvent, RowUpdatable(status), UpdateRow(status)
  PROVE  \/ log' = log /\ row' = row
         \/ /\ row' = status /\ row # status
            /\ \A k \in DOMAIN log : log[k].type \notin DOMAIN EndOf
            /\ \E e \in Events : /\ e.type = StatusEvent[status] /\ e.step = NoStep
                                 /\ log' = Append(log, e)
<1>1. CASE row = status
  BY <1>1 DEF UpdateRow
<1>2. CASE row # status
  <2>1. StatusEvent[status] \in {"RunPausedForActor", "RunClosed", "RunFailed", "RunStopped"}
    BY StatusIs
  <2> DEFINE new == RunEvent(StatusEvent[status])
  <2>2. new \in Events
    BY <2>1, NativeAssumption DEF RunEvent, Event, Events, EventTypes
  <2>3. new.type = StatusEvent[status] /\ new.step = NoStep
    BY DEF RunEvent, Event
  <2>4. \A k \in DOMAIN log : log[k].type \notin DOMAIN EndOf
    BY <1>2, <2>1, <2>3 DEF RowUpdatable, Store!LifecycleAllowed, Store!Terminated,
       Store!RunEventTypes, Store!TerminalEventTypes, EndOf
  <2>5. log' = Append(log, new) /\ row' = status
    BY <1>2 DEF UpdateRow
  <2> HIDE DEF new
  <2>6. QED
    BY <1>2, <2>2, <2>3, <2>4, <2>5
<1>3. QED
  BY <1>1, <1>2

LEMMA IssueIs ==
  ASSUME Types, NEW c \in Cli, Issue(c)
  PROVE  /\ cli[c].pc = "issue" /\ row' = row
         /\ \E e \in Events : /\ log' = Append(log, e) /\ e.type = "StepInstructionIssued"
                              /\ e.step = cli[c].step /\ e.iter = cli[c].st.iter
<1> DEFINE new == Event("StepInstructionIssued", cli[c].step, cli[c].st.iter, FALSE)
<1>1. cli[c].step \in StepIds \cup {NoStep} /\ cli[c].st.iter \in 0 .. MaxIters
  BY ProcessIs, StateIs DEF Types
<1>2. new \in Events
  BY <1>1 DEF Event, Events, EventTypes
<1>3. new.type = "StepInstructionIssued" /\ new.step = cli[c].step /\ new.iter = cli[c].st.iter
  BY DEF Event
<1>4. cli[c].pc = "issue" /\ row' = row /\ log' = Append(log, new)
  BY DEF Issue
<1> HIDE DEF new
<1>5. QED
  BY <1>2, <1>3, <1>4

LEMMA CommitIs ==
  ASSUME Types, NEW c \in Cli, Commit(c)
  PROVE  /\ cli[c].pc = "commit" /\ row' = row
         /\ \E e \in Events : /\ log' = Append(log, e) /\ e.type = "StepCommitted"
                              /\ e.step = cli[c].view.step /\ e.iter = cli[c].view.iter
<1> DEFINE new == Event("StepCommitted", cli[c].view.step, cli[c].view.iter, cli[c].passed)
<1>1. /\ cli[c].view.step \in StepIds \cup {NoStep} /\ cli[c].view.iter \in 0 .. MaxIters
      /\ cli[c].passed \in BOOLEAN
  BY ProcessIs, ViewIs DEF Types
<1>2. new \in Events
  BY <1>1 DEF Event, Events, EventTypes
<1>3. /\ new.type = "StepCommitted" /\ new.step = cli[c].view.step
      /\ new.iter = cli[c].view.iter
  BY DEF Event
<1>4. cli[c].pc = "commit" /\ row' = row /\ log' = Append(log, new)
  BY DEF Commit
<1> HIDE DEF new
<1>5. QED
  BY <1>2, <1>3, <1>4

LEMMA StartIs ==
  ASSUME Types, NEW c \in Cli,
         log' = Append(log, Event("IterationStarted", NoStep, cli[c].st.iter, FALSE))
  PROVE  \E e \in Events : /\ log' = Append(log, e) /\ e.type = "IterationStarted"
                           /\ e.iter = cli[c].st.iter
<1> DEFINE new == Event("IterationStarted", NoStep, cli[c].st.iter, FALSE)
<1>1. cli[c].st.iter \in 0 .. MaxIters
  BY ProcessIs, StateIs DEF Types
<1>2. new \in Events
  BY <1>1 DEF Event, Events, EventTypes
<1>3. new.type = "IterationStarted" /\ new.iter = cli[c].st.iter
  BY DEF Event
<1> HIDE DEF new
<1>4. QED
  BY <1>2, <1>3 DEF new

\* What a change of the row adds to the stream, and what any step does.
RowWrites ==
  \/ log' = log /\ row' = row
  \/ /\ \E status \in DOMAIN StatusEvent :
          /\ row' = status /\ row # status
          /\ \E e \in Events : /\ e.type = StatusEvent[status] /\ e.step = NoStep
                               /\ log' = Append(log, e)
     /\ \A k \in DOMAIN log : log[k].type \notin DOMAIN EndOf

Writes(c) ==
  \/ RowWrites
  \/ /\ row' = row /\ cli[c].pc \in {"complete", "evidence"}
     /\ \E e \in Events : /\ log' = Append(log, e)
                          /\ e.type \in {"IterationCompleted", "EvidenceAccepted"}
  \/ /\ row' = row /\ cli[c].pc = "start"
     /\ \E e \in Events : /\ log' = Append(log, e) /\ e.type = "IterationStarted"
                          /\ e.iter = cli[c].st.iter
  \/ /\ row' = row /\ cli[c].pc = "issue"
     /\ \E e \in Events : /\ log' = Append(log, e) /\ e.type = "StepInstructionIssued"
                          /\ e.step = cli[c].step /\ e.iter = cli[c].st.iter
  \/ /\ row' = row /\ cli[c].pc = "commit"
     /\ \E e \in Events : /\ log' = Append(log, e) /\ e.type = "StepCommitted"
                          /\ e.step = cli[c].view.step /\ e.iter = cli[c].view.iter

LEMMA StepsWrite ==
  ASSUME Types, NEW c \in Cli, StepOf(c)
  PROVE  Writes(c)
<1>1. Records(c)
  BY DEF StepOf
<1>2. CASE \E status \in DOMAIN StatusEvent : RowUpdatable(status) /\ UpdateRow(status)
  BY <1>2, UpdateRowIs DEF Writes, RowWrites
<1>3. CASE Issue(c)
  BY <1>3, IssueIs DEF Writes
<1>4. CASE Commit(c)
  BY <1>4, CommitIs DEF Writes
<1>5. CASE /\ cli[c].pc = "start" /\ row' = row
           /\ log' = Append(log, Event("IterationStarted", NoStep, cli[c].st.iter, FALSE))
  BY <1>5, StartIs DEF Writes
<1>6. QED
  BY <1>1, <1>2, <1>3, <1>4, <1>5 DEF Records, Writes, RowWrites

LEMMA StopWrites ==
  ASSUME Types, Stop
  PROVE  RowWrites
BY UpdateRowIs, StatusIs DEF Stop, RowWrites

-----------------------------------------------------------------------------
(* A step is committed once, and the row ends with its stream              *)

LEMMA Grown ==
  ASSUME Types, NEW c, Writes(c)
  PROVE  /\ log' \in Seq(Events) /\ Len(log) <= Len(log') /\ Len(log) \in Nat
         /\ \A k \in DOMAIN log : k \in DOMAIN log' /\ log'[k] = log[k]
         /\ \A k \in DOMAIN log' : k \notin DOMAIN log => k = Len(log) + 1
         /\ row' \in {"queued"} \cup DOMAIN StatusEvent
<1>1. log \in Seq(Events) /\ row \in {"queued"} \cup DOMAIN StatusEvent
  BY DEF Types
<1>2. row' \in {"queued"} \cup DOMAIN StatusEvent
  BY <1>1 DEF Writes, RowWrites
<1>3. log' = log \/ \E e \in Events : log' = Append(log, e)
  BY DEF Writes, RowWrites
<1>4. CASE log' = log
  BY <1>1, <1>2, <1>4
<1>5. CASE \E e \in Events : log' = Append(log, e)
  <2>1. PICK e \in Events : log' = Append(log, e)
    BY <1>5
  <2>2. QED
    BY <1>1, <1>2, <2>1, AppendIs
<1>6. QED
  BY <1>3, <1>4, <1>5

LEMMA TypesKept ==
  ASSUME OnceInv, [Next]_vars
  PROVE  Types'
<1>1. Types
  BY DEF OnceInv
<1>2. ASSUME NEW c \in Cli, StepOf(c)
      PROVE  Types'
  <2>1. Writes(c)
    BY <1>1, <1>2, StepsWrite
  <2>2. log' \in Seq(Events) /\ row' \in {"queued"} \cup DOMAIN StatusEvent
    BY <1>1, <2>1, Grown
  <2>3. handed' \subseteq View
    <3>1. handed \subseteq View /\ cli[c].st.active \in View
      BY <1>1, ProcessIs, StateIs DEF Types
    <3>2. handed' \subseteq handed \cup ({cli[c].st.active} \ {NoView})
      BY <1>2 DEF StepOf, Carries
    <3>3. QED
      BY <3>1, <3>2
  <2>4. QED
    BY <1>2, <2>2, <2>3 DEF StepOf, Types
<1>3. CASE Stop
  <2>1. Writes(None)
    BY <1>1, <1>3, StopWrites DEF Writes
  <2>2. log' \in Seq(Events) /\ row' \in {"queued"} \cup DOMAIN StatusEvent
    BY <1>1, <2>1, Grown
  <2>3. QED
    BY <1>1, <1>3, <2>2 DEF Stop, Types
<1>4. CASE UNCHANGED vars
  BY <1>1, <1>4 DEF vars, Types
<1>5. QED
  BY <1>2, <1>3, <1>4, NextIsSuch DEF OnceInv

LEMMA PlacesKept ==
  ASSUME OnceInv, [Next]_vars
  PROVE  PlacesFit' /\ LockHeld'
<1>1. PlacesFit /\ LockHeld
  BY DEF OnceInv
<1>2. ASSUME NEW c \in Cli, StepOf(c)
      PROVE  PlacesFit' /\ LockHeld'
  BY <1>1, <1>2 DEF StepOf, PlacesFit, LockHeld
<1>3. CASE Stop
  BY <1>1, <1>3 DEF Stop, PlacesFit, LockHeld
<1>4. CASE UNCHANGED vars
  BY <1>1, <1>4 DEF vars, PlacesFit, LockHeld
<1>5. QED
  BY <1>2, <1>3, <1>4, NextIsSuch DEF OnceInv

LEMMA StateViewsFit ==
  ASSUME OnceInv, NEW c \in Cli, Carries(c)
  PROVE  LET st == cli'[c].st IN
         st.active # NoView => st.active.step \in StepIds /\ st.active.iter = st.iter
<1>1. /\ Types /\ PlacesFit /\ file.st \in State /\ cli[c].st \in State
      /\ cli[c] \in Process /\ file \in [kind : Kinds, st : State]
  BY ProcessIs DEF OnceInv, Types
<1>2. \A st \in {file.st, cli[c].st} :
        st.active # NoView => st.active.step \in StepIds /\ st.active.iter = st.iter
  BY DEF OnceInv, ViewsFit
<1>3. CASE cli'[c].st \in {cli[c].st, Read(file), DefaultState,
                           [cli[c].st EXCEPT !.active = NoView],
                           [cli[c].st EXCEPT !.done = TRUE]}
  <2>1. CASE cli'[c].st \in {cli[c].st, Read(file), DefaultState}
    BY <1>2, <2>1, DefaultIs DEF Read
  <2>2. CASE cli'[c].st = [cli[c].st EXCEPT !.active = NoView]
    BY <1>1, <2>2, UnclaimedIs
  <2>3. CASE cli'[c].st = [cli[c].st EXCEPT !.done = TRUE]
    BY <1>1, <1>2, <2>3, DoneIs
  <2>4. QED
    BY <1>3, <2>1, <2>2, <2>3
<1>4. CASE Issue(c) /\ cli'[c].st = ClaimedState(cli[c].st, cli[c].step)
  <2>1. cli[c].step \in StepIds
    BY <1>1, <1>4 DEF PlacesFit, Fits, Issue, Telling
  <2>2. QED
    BY <1>1, <1>4, <2>1, ClaimedIs
<1>5. CASE /\ cli[c].pc = "advance" /\ cli[c].st.iter + 1 < MaxIters
           /\ cli'[c].st = NextIterationState(cli[c].st)
  BY <1>1, <1>5, NextIterationIs
<1>6. CASE /\ cli[c].pc = "after" \/ cli[c].pc = "pass"
           /\ cli'[c].st = SubmittedState(cli[c].st, cli[c].step)
  <2>1. cli[c].step \in StepIds
    BY <1>1, <1>6 DEF OnceInv, PlacesFit, Fits, ViewsFit, Bringing, Passing,
       Recording, Submitting
  <2>2. QED
    BY <1>1, <1>6, <2>1, SubmittedIs
<1>7. QED
  BY <1>3, <1>4, <1>5, <1>6 DEF Carries

LEMMA ViewsKept ==
  ASSUME OnceInv, [Next]_vars
  PROVE  ViewsFit'
<1>1. ViewsFit
  BY DEF OnceInv
<1>2. ASSUME NEW c \in Cli, StepOf(c)
      PROVE  ViewsFit'
  <2>1. Carries(c) /\ Calls(c) /\ \A d \in Cli : d # c => cli'[d] = cli[d]
    BY <1>2 DEF StepOf
  <2>2. \A v \in handed' : v.step \in StepIds
    BY <1>1, <2>1 DEF ViewsFit, Carries
  <2>3. \A d \in Cli : cli'[d].call = "submit" => cli'[d].view.step \in StepIds
    BY <1>1, <2>1 DEF ViewsFit, Calls
  <2>4. \A st \in {file'.st} \cup {cli'[d].st : d \in Cli} :
          st.active # NoView => st.active.step \in StepIds /\ st.active.iter = st.iter
    <3>1. ASSUME NEW d \in Cli, cli'[d].st.active # NoView
          PROVE  cli'[d].st.active.step \in StepIds /\ cli'[d].st.active.iter = cli'[d].st.iter
      BY <1>1, <2>1, <3>1, StateViewsFit DEF ViewsFit
    <3>2. file'.st \in {file.st, cli[c].st}
      BY <2>1 DEF Carries
    <3>3. QED
      BY <1>1, <3>1, <3>2 DEF ViewsFit
  <2>5. QED
    BY <2>2, <2>3, <2>4 DEF ViewsFit
<1>3. CASE Stop
  BY <1>1, <1>3 DEF Stop, ViewsFit
<1>4. CASE UNCHANGED vars
  BY <1>1, <1>4 DEF vars, ViewsFit
<1>5. QED
  BY <1>2, <1>3, <1>4, NextIsSuch DEF OnceInv

\* Only the process that commits adds a commit.
LEMMA CommitsOnlyThere ==
  ASSUME Types, NEW c, Writes(c), RowWrites \/ cli[c].pc # "commit"
  PROVE  \A k \in DOMAIN log' : log'[k].type = "StepCommitted" =>
           k \in DOMAIN log /\ log'[k] = log[k]
<1>1. log \in Seq(Events)
  BY DEF Types
<1>2. CASE log' = log
  BY <1>2
<1>3. CASE \E e \in Events : e.type # "StepCommitted" /\ log' = Append(log, e)
  <2>1. PICK e \in Events : e.type # "StepCommitted" /\ log' = Append(log, e)
    BY <1>3
  <2>2. QED
    BY <1>1, <2>1, AppendIs
<1>4. log' = log \/ \E e \in Events : e.type # "StepCommitted" /\ log' = Append(log, e)
  BY StatusIs DEF Writes, RowWrites
<1>5. QED
  BY <1>2, <1>3, <1>4

LEMMA GuardsKept ==
  ASSUME OnceInv, [Next]_vars
  PROVE  GuardsHold'
<1>1. /\ Types /\ GuardsHold /\ LockHeld /\ PlacesFit /\ log \in Seq(Events) /\ Len(log) \in Nat
      /\ \A d \in Cli : cli[d].seen \in Nat
  BY ProcessIs DEF OnceInv, Types
<1> DEFINE Holds(d) ==
             /\ cli'[d].seen <= Len(log')
             /\ cli'[d].pc = "guard" =>
                  \A k \in DOMAIN log' : k > cli'[d].seen => log'[k].type # "StepCommitted"
             /\ cli'[d].pc = "commit" =>
                  ~Committed(log', cli'[d].view.iter, cli'[d].view.step)
<1>2. ASSUME NEW c, Writes(c), RowWrites \/ (c \in Cli /\ cli[c].pc # "commit"),
             NEW d \in Cli, cli'[d] = cli[d]
      PROVE  Holds(d)
  <2>1. \A k \in DOMAIN log' : log'[k].type = "StepCommitted" =>
          k \in DOMAIN log /\ log'[k] = log[k]
    BY <1>1, <1>2, CommitsOnlyThere
  <2>2. Len(log) <= Len(log') /\ Len(log') \in Nat
    BY <1>1, <1>2, Grown
  <2>3. QED
    BY <1>1, <1>2, <2>1, <2>2 DEF GuardsHold, Committed
<1>3. ASSUME NEW c \in Cli, Writes(c), cli[c].pc = "commit", NEW d \in Cli, d # c,
             cli'[d] = cli[d]
      PROVE  Holds(d)
  <2>1. cli[d].pc \notin {"guard", "commit"}
    BY <1>1, <1>3 DEF LockHeld, PlacesFit, Fits, Submitting, Guarding
  <2>2. Len(log) <= Len(log') /\ Len(log') \in Nat
    BY <1>1, <1>3, Grown
  <2>3. QED
    BY <1>1, <1>3, <2>1, <2>2 DEF GuardsHold
<1>4. ASSUME NEW c \in Cli, StepOf(c)
      PROVE  GuardsHold'
  <2>1. Writes(c) /\ Enters(c) /\ \A d \in Cli : d # c => cli'[d] = cli[d]
    BY <1>1, <1>4, StepsWrite DEF StepOf
  <2>2. ASSUME NEW d \in Cli, d # c
        PROVE  Holds(d)
    BY <1>2, <1>3, <2>1, <2>2
  <2>3. Holds(c)
    <3>1. Len(log) <= Len(log') /\ Len(log') \in Nat
      BY <1>1, <2>1, Grown
    <3>2. cli'[c].seen <= Len(log')
      BY <1>1, <2>1, <3>1 DEF Enters, GuardsHold
    <3>3. CASE cli'[c].pc = "guard"
      BY <1>1, <2>1, <3>2, <3>3 DEF Enters
    <3>4. CASE cli'[c].pc = "commit"
      <4>1. /\ cli[c].pc = "guard" /\ cli'[c].view = cli[c].view /\ log' = log
            /\ ~Committed(SubSeq(log, 1, cli[c].seen), cli[c].view.iter, cli[c].view.step)
        BY <2>1, <3>4 DEF Enters
      <4>2. /\ \A k \in DOMAIN log : k > cli[c].seen => log[k].type # "StepCommitted"
            /\ cli[c].seen <= Len(log)
        BY <1>1, <4>1 DEF GuardsHold
      <4>3. ~Committed(log, cli[c].view.iter, cli[c].view.step)
        <5>1. SUFFICES ASSUME NEW k \in DOMAIN log, log[k].type = "StepCommitted",
                              log[k].iter = cli[c].view.iter, log[k].step = cli[c].view.step
                       PROVE  FALSE
          BY DEF Committed
        <5>2. k \in 1 .. cli[c].seen
          BY <1>1, <4>2, <5>1
        <5>3. k \in DOMAIN SubSeq(log, 1, cli[c].seen) /\ SubSeq(log, 1, cli[c].seen)[k] = log[k]
          BY <1>1, <4>2, <5>2
        <5>4. QED
          BY <4>1, <5>1, <5>3 DEF Committed
      <4>4. QED
        BY <3>2, <3>4, <4>1, <4>3
    <3>5. QED
      BY <3>2, <3>3, <3>4
  <2>4. QED
    BY <2>2, <2>3 DEF GuardsHold
<1>5. CASE Stop
  <2>1. RowWrites /\ Writes(None) /\ cli' = cli
    BY <1>1, <1>5, StopWrites DEF Writes, Stop
  <2>2. ASSUME NEW d \in Cli PROVE Holds(d)
    BY <1>2, <2>1
  <2>3. QED
    BY <2>2 DEF GuardsHold
<1>6. CASE UNCHANGED vars
  BY <1>1, <1>6 DEF vars, GuardsHold
<1>7. QED
  BY <1>4, <1>5, <1>6, NextIsSuch DEF OnceInv

LEMMA OnceKept ==
  ASSUME OnceInv, [Next]_vars
  PROVE  CommittedOnce'
<1>1. Types /\ GuardsHold /\ CommittedOnce /\ log \in Seq(Events)
  BY DEF OnceInv, Types
<1>2. ASSUME NEW c, Writes(c), RowWrites \/ cli[c].pc # "commit"
      PROVE  CommittedOnce'
  <2>1. \A k \in DOMAIN log' : log'[k].type = "StepCommitted" =>
          k \in DOMAIN log /\ log'[k] = log[k]
    BY <1>1, <1>2, CommitsOnlyThere
  <2>2. QED
    BY <1>1, <2>1 DEF CommittedOnce
<1>3. ASSUME NEW c \in Cli, Writes(c), cli[c].pc = "commit", ~RowWrites
      PROVE  CommittedOnce'
  <2>1. PICK e \in Events :
          log' = Append(log, e) /\ e.step = cli[c].view.step /\ e.iter = cli[c].view.iter
    BY <1>3 DEF Writes
  <2>2. ~Committed(log, e.iter, e.step)
    BY <1>1, <1>3, <2>1 DEF GuardsHold
  <2>3. /\ DOMAIN log' = 1 .. Len(log) + 1 /\ log'[Len(log) + 1] = e
        /\ \A k \in DOMAIN log : log'[k] = log[k]
        /\ DOMAIN log = 1 .. Len(log) /\ Len(log) \in Nat
    BY <1>1, <2>1, AppendIs
  <2>4. QED
    BY <1>1, <2>2, <2>3 DEF CommittedOnce, Committed
<1>4. ASSUME NEW c \in Cli, StepOf(c)
      PROVE  CommittedOnce'
  BY <1>1, <1>2, <1>3, <1>4, StepsWrite
<1>5. CASE Stop
  <2>1. RowWrites /\ Writes(None)
    BY <1>1, <1>5, StopWrites DEF Writes
  <2>2. QED
    BY <1>2, <2>1
<1>6. CASE UNCHANGED vars
  BY <1>1, <1>6 DEF vars, CommittedOnce
<1>7. QED
  BY <1>4, <1>5, <1>6, NextIsSuch DEF OnceInv

LEMMA EndsAre ==
  /\ DOMAIN EndOf = {"RunClosed", "RunStopped", "RunFailed"}
  /\ \A status \in DOMAIN StatusEvent :
       StatusEvent[status] \in DOMAIN EndOf <=> status \in {"succeeded", "failed", "stopped"}
  /\ \A s, t \in DOMAIN StatusEvent : StatusEvent[s] = StatusEvent[t] => s = t
BY StatusIs DEF EndOf

LEMMA EndKept ==
  ASSUME OnceInv, [Next]_vars
  PROVE  EndedOnce'
<1>1. Types /\ EndedOnce /\ log \in Seq(Events)
  BY DEF OnceInv, Types
<1>2. ASSUME NEW c, Writes(c)
      PROVE  EndedOnce'
  <2>1. CASE log' = log /\ row' = row
    BY <1>1, <2>1 DEF EndedOnce, RowTerminal
  <2>2. CASE row' = row /\ \E e \in Events : e.type \notin DOMAIN EndOf /\ log' = Append(log, e)
    <3>1. PICK e \in Events : e.type \notin DOMAIN EndOf /\ log' = Append(log, e)
      BY <2>2
    <3>2. /\ DOMAIN log' = 1 .. Len(log) + 1 /\ log'[Len(log) + 1] = e
          /\ \A k \in DOMAIN log : log'[k] = log[k]
          /\ DOMAIN log = 1 .. Len(log) /\ Len(log) \in Nat
      BY <1>1, <3>1, AppendIs
    <3>3. \A k \in DOMAIN log' : log'[k].type \in DOMAIN EndOf => k \in DOMAIN log
      BY <3>1, <3>2
    <3>4. \A k \in DOMAIN log : k \in DOMAIN log'
      BY <3>2
    <3>5. QED
      BY <1>1, <2>2, <3>2, <3>3, <3>4 DEF EndedOnce, RowTerminal
  <2>3. ASSUME NEW status \in DOMAIN StatusEvent, row' = status, row # status,
               NEW e \in Events, e.type = StatusEvent[status], log' = Append(log, e),
               \A k \in DOMAIN log : log[k].type \notin DOMAIN EndOf
        PROVE  EndedOnce'
    <3>1. /\ DOMAIN log' = 1 .. Len(log) + 1 /\ log'[Len(log) + 1] = e
          /\ \A k \in DOMAIN log : log'[k] = log[k]
          /\ DOMAIN log = 1 .. Len(log) /\ Len(log) \in Nat
      BY <1>1, <2>3, AppendIs
    <3>2. \A k \in DOMAIN log' : log'[k].type \in DOMAIN EndOf => k = Len(log) + 1
      BY <2>3, <3>1
    <3>3. e.type \in DOMAIN EndOf <=> row' \in {"succeeded", "failed", "stopped"}
      BY <2>3, EndsAre
    <3>4. QED
      BY <2>3, <3>1, <3>2, <3>3 DEF EndedOnce, RowTerminal
  <2>4. CASE RowWrites
    BY <2>1, <2>3, <2>4 DEF RowWrites
  <2>5. CASE ~RowWrites
    BY <1>2, <2>2, <2>5, EndsAre DEF Writes
  <2>6. QED
    BY <2>4, <2>5
<1>3. ASSUME NEW c \in Cli, StepOf(c)
      PROVE  EndedOnce'
  BY <1>1, <1>2, <1>3, StepsWrite
<1>4. CASE Stop
  BY <1>1, <1>2, <1>4, StopWrites DEF Writes
<1>5. CASE UNCHANGED vars
  BY <1>1, <1>5 DEF vars, EndedOnce, RowTerminal
<1>6. QED
  BY <1>3, <1>4, <1>5, NextIsSuch DEF OnceInv

LEMMA OnceInit ==
  ASSUME Init
  PROVE  OnceInv
<1>1. log = <<RunEvent("RunCreated")>> /\ RunEvent("RunCreated") \in Events
  BY NativeAssumption DEF Init, RunEvent, Event, Events, EventTypes
<1>2. /\ log \in Seq(Events) /\ DOMAIN log = {1} /\ Len(log) = 1
      /\ log[1].type = "RunCreated"
  BY <1>1 DEF RunEvent, Event
<1>3. /\ cli \in [Cli -> Process] /\ file.st = DefaultState /\ file.kind = "absent"
      /\ \A c \in Cli : cli[c] = Idle
  BY IdleIs DEF Init
<1>4. Types
  BY <1>2, <1>3, DefaultIs DEF Init, Types, Kinds, Pasts
<1>5. PlacesFit /\ LockHeld /\ GuardsHold
  BY <1>2, <1>3, IdleIs DEF PlacesFit, Fits, LockHeld, GuardsHold, Passing, Bringing,
     Places,
     Writing, Closing, Guarding, Telling, Submitting, Recording
<1>6. ViewsFit
  BY <1>3, IdleIs, DefaultIs DEF Init, ViewsFit
<1>7. CommittedOnce /\ EndedOnce
  BY <1>2 DEF Init, CommittedOnce, EndedOnce, EndOf, RowTerminal
<1>8. QED
  BY <1>4, <1>5, <1>6, <1>7 DEF OnceInv

\* The inductive invariant of the single commit and the single end.
LEMMA OnceInvariant == Spec => []OnceInv
<1>1. Init => OnceInv
  BY OnceInit
<1>2. OnceInv /\ [Next]_vars => OnceInv'
  BY TypesKept, PlacesKept, ViewsKept, GuardsKept, OnceKept, EndKept DEF OnceInv
<1>3. QED
  BY <1>1, <1>2, PTL DEF Spec

\* A set of positions with no two elements has at most one.
LEMMA AtMostOne ==
  ASSUME NEW S, \A j, k \in S : j = k
  PROVE  Cardinality(S) <= 1 /\ (S # {} => Cardinality(S) = 1)
<1>1. CASE S = {}
  BY <1>1, FS_EmptySet
<1>2. CASE S # {}
  <2>1. PICK k \in S : TRUE
    BY <1>2
  <2>2. S = {k}
    BY <2>1
  <2>3. QED
    BY <2>2, FS_Singleton
<1>3. QED
  BY <1>1, <1>2

\* The variables keep their types (TypeOK), for every strategy, number of iterations and
\* number of CLI processes.
THEOREM NativeTypes == Spec => []TypeOK
<1>1. OnceInv => TypeOK
  <2>1. SUFFICES ASSUME OnceInv
                 PROVE  TypeOK
    OBVIOUS
  <2>2. Types /\ log \in Seq(Events) /\ Len(log) \in Nat
    BY <2>1 DEF OnceInv, Types
  <2>3. ASSUME NEW k \in DOMAIN log
        PROVE  log[k].step \in StepIds \cup {NoStep} /\ log[k].iter \in 0 .. MaxIters
    <3>1. log[k] \in Events
      BY <2>2
    <3>2. QED
      BY <3>1 DEF Events
  <2>4. \A c \in Cli : cli[c].st \in State /\ cli[c].seen <= Len(log) /\ cli[c].view \in View
    BY <2>1, <2>2, ProcessIs DEF OnceInv, GuardsHold, Types
  <2>5. QED
    BY <2>2, <2>3, <2>4 DEF Types, Kinds, TypeOK
<1>2. QED
  BY <1>1, OnceInvariant, PTL

\* A step of an iteration is committed at most once, however many processes bring its
\* result and wherever they die: the submission guard under submit.lock.
THEOREM StepsCommitOnce == Spec => []StepCommittedOnce
<1>1. CommittedOnce => StepCommittedOnce
  <2>1. SUFFICES ASSUME CommittedOnce, NEW step \in StepIds, NEW iter \in 0 .. MaxIters
                 PROVE  Cardinality(Of("StepCommitted", step, iter)) <= 1
    BY DEF StepCommittedOnce
  <2>2. \A j, k \in Of("StepCommitted", step, iter) : j = k
    BY <2>1 DEF CommittedOnce, Of
  <2>3. QED
    BY <2>2, AtMostOne
<1>2. QED
  BY <1>1, OnceInvariant, PTL DEF OnceInv

\* A run has ended in its row exactly when it has in its stream, once and alike, whichever
\* of a stop, a pass and an exhaustion comes first (update_run).
THEOREM RowsEndWithStreams == Spec => []RowEndsWithItsStream
<1>1. EndedOnce => RowEndsWithItsStream
  <2> DEFINE ends == {k \in DOMAIN log : log[k].type \in DOMAIN EndOf}
  <2>1. SUFFICES ASSUME EndedOnce
                 PROVE  IF RowTerminal
                        THEN /\ Cardinality(ends) = 1
                             /\ \A k \in ends : log[k].type = StatusEvent[row]
                        ELSE ends = {}
    BY DEF RowEndsWithItsStream
  <2>2. \A j, k \in ends : j = k
    BY <2>1 DEF EndedOnce
  <2>3. RowTerminal => ends # {}
    BY <2>1 DEF EndedOnce
  <2>4. \A k \in ends : RowTerminal /\ log[k].type = StatusEvent[row]
    BY <2>1 DEF EndedOnce
  <2> HIDE DEF ends
  <2>5. QED
    BY <2>2, <2>3, <2>4, AtMostOne
<1>2. QED
  BY <1>1, OnceInvariant, PTL DEF OnceInv

-----------------------------------------------------------------------------
(* What stays true while the stream grows                                  *)

Extends(events, longer) ==
  \A k \in DOMAIN events : k \in DOMAIN longer /\ longer[k] = events[k]

LEMMA CommittedStays ==
  ASSUME NEW events, NEW longer, Extends(events, longer), NEW i, NEW step,
         Committed(events, i, step)
  PROVE  Committed(longer, i, step)
BY DEF Extends, Committed

LEMMA TurnStays ==
  ASSUME NEW events, NEW longer, Extends(events, longer),
         NEW x \in BOOLEAN, NEW y \in BOOLEAN, x => y, NEW i
  PROVE  /\ Finished(events, i) => Finished(longer, i)
         /\ FinishedBefore(events, x, i) => FinishedBefore(longer, y, i)
         /\ \A place : DoneBefore(events, i, place) => DoneBefore(longer, i, place)
         /\ \A step : Turn(events, x, i, step) => Turn(longer, y, i, step)
<1>1. \A j : Finished(events, j) => Finished(longer, j)
  BY CommittedStays DEF Finished
<1>2. FinishedBefore(events, x, i) => FinishedBefore(longer, y, i)
  BY <1>1 DEF FinishedBefore, Kept
<1>3. \A place : DoneBefore(events, i, place) => DoneBefore(longer, i, place)
  BY CommittedStays DEF DoneBefore
<1>4. \A step : Turn(events, x, i, step) => Turn(longer, y, i, step)
  BY <1>2, <1>3 DEF Turn, Kept
<1>5. QED
  BY <1>1, <1>2, <1>3, <1>4

LEMMA ReachedStays ==
  ASSUME NEW events, NEW longer, Extends(events, longer),
         NEW x \in BOOLEAN, NEW y \in BOOLEAN, x => y,
         NEW st, Reached(events, x, st)
  PROVE  Reached(longer, y, st)
BY TurnStays DEF Reached, Kept

LEMMA Extended ==
  ASSUME Types, NEW c, Writes(c)
  PROVE  Extends(log, log')
BY Grown DEF Extends

\* Calls that have crossed stay so.
LEMMA CrossedStays ==
  ASSUME Types, NEW c \in Cli, StepOf(c)
  PROVE  past.crossed \in BOOLEAN /\ past'.crossed \in BOOLEAN /\ (past.crossed => past'.crossed)
BY DEF Types, StepOf, Calls, Pasts

LEMMA OrderInit ==
  ASSUME Init
  PROVE  OrderInv
<1>1. log = <<RunEvent("RunCreated")>>
  BY DEF Init
<1>2. DOMAIN log = {1} /\ log[1].type = "RunCreated" /\ log \in Seq({RunEvent("RunCreated")})
  BY <1>1 DEF RunEvent, Event
<1>3. \A s \in StepIds : IndexOf(s) \in 1 .. Len(Strategy)
  BY IndexIsPlace
<1>4. Reached(log, past.crossed, DefaultState)
  BY <1>3, DefaultIs, StrategyAssumption, NativeAssumption
     DEF Reached, FinishedBefore, DoneBefore
<1>5. StatesReached
  BY <1>4, IdleIs DEF Init, StatesReached
<1>6. TurnsKept
  BY IdleIs DEF Init, TurnsKept, Telling, Recording, Passing, Through, Closing
<1>7. ToldInTurn /\ (Snapshot(log)).step = NoStep
  <2> DEFINE created == RunEvent("RunCreated")
  <2>1. log = Append(<<>>, created) /\ <<>> \in Seq({created}) /\ created.type = "RunCreated"
    BY <1>1 DEF RunEvent, Event
  <2> HIDE DEF created
  <2>2. Snapshot(log) = Apply(EmptySnapshot, created)
    BY <2>1, SnapshotOfOneMore, SnapshotOfNone
  <2>3. Snapshot(log) = EmptySnapshot
    BY <2>1, <2>2 DEF Apply, EmptySnapshot, EndOf, Ended
  <2>4. QED
    BY <2>3, NativeAssumption DEF ToldInTurn, Told, Snapshots, EmptySnapshot, Ended
<1>8. Apart /\ ToldOnce
  BY <1>7, IdleIs DEF Init, Apart, ToldOnce, Open, Tells, Telling
<1>9. CommitsFollowTheStrategy
  BY <1>2 DEF CommitsFollowTheStrategy
<1>10. QED
  BY <1>5, <1>6, <1>7, <1>8, <1>9 DEF OrderInv

-----------------------------------------------------------------------------
(* The step a process plans                                                *)

\* The steps before a committed one are committed.
LEMMA CommitsAreDense ==
  ASSUME Types, CommitsFollowTheStrategy, NEW i, Kept(past.crossed, i),
         NEW step, Committed(log, i, step)
  PROVE  DoneBefore(log, i, IndexOf(step))
<1>1. PICK k \in DOMAIN log :
        log[k].type = "StepCommitted" /\ log[k].iter = i /\ log[k].step = step
  BY DEF Committed
<1>2. \A s \in StepIds : IndexOf(s) < IndexOf(step) =>
        \E j \in Of("StepCommitted", s, i) : j < k
  BY <1>1 DEF CommitsFollowTheStrategy, Kept
<1>3. QED
  BY <1>2 DEF DoneBefore, Of, Committed

\* Everything before the end of the strategy is everything.
LEMMA AllBeforeTheEnd ==
  ASSUME NEW events, NEW i, NEW place \in Nat, DoneBefore(events, i, place),
         place > Len(Strategy)
  PROVE  Finished(events, i)
BY IndexIsPlace, StrategyAssumption DEF DoneBefore, Finished

LEMMA PrefixCommits ==
  ASSUME Types, NEW seen \in Nat, seen <= Len(log), NEW i, NEW step
  PROVE  /\ Committed(SubSeq(log, 1, seen), i, step) => Committed(log, i, step)
         /\ (\A k \in DOMAIN log : k > seen => log[k].type # "StepCommitted") =>
              (Committed(log, i, step) => Committed(SubSeq(log, 1, seen), i, step))
<1>1. log \in Seq(Events) /\ Len(log) \in Nat /\ DOMAIN log = 1 .. Len(log)
  BY DEF Types
<1>2. /\ DOMAIN SubSeq(log, 1, seen) = 1 .. seen
      /\ \A k \in 1 .. seen : SubSeq(log, 1, seen)[k] = log[k]
  BY <1>1
<1>3. QED
  BY <1>1, <1>2 DEF Committed

LEMMA PlannedInTurn ==
  ASSUME OnceInv, OrderInv, NEW c \in Cli,
         NEW next, next = Cursor(SubSeq(log, 1, cli[c].seen), Snapshot(log),
                                 cli[c].st.iter, cli[c].st.index)
  PROVE  /\ next \in 1 .. Len(Strategy) + 1
         /\ next <= Len(Strategy) =>
              Turn(log, past.crossed, cli[c].st.iter, Strategy[next])
         /\ next > Len(Strategy) =>
              (Kept(past.crossed, cli[c].st.iter) => Finished(log, cli[c].st.iter))
<1> DEFINE st == cli[c].st
           now == Snapshot(log)
           prefix == SubSeq(log, 1, cli[c].seen)
<1>1. /\ Types /\ cli[c].seen \in Nat /\ cli[c].seen <= Len(log)
      /\ st.index \in 1 .. Len(Strategy) + 1 /\ Len(Strategy) \in Nat
      /\ DOMAIN Strategy = 1 .. Len(Strategy)
  BY ProcessIs, StateIs, StrategyAssumption DEF OnceInv, Types, GuardsHold
<1>2. Reached(log, past.crossed, st)
  BY DEF OrderInv, StatesReached
<1>3. FinishedBefore(log, past.crossed, st.iter)
  BY <1>2 DEF Reached
<1>4. next \in 1 .. Len(Strategy) + 1
  BY <1>1, CursorInRange
<1>5. ASSUME Kept(past.crossed, st.iter)
      PROVE  DoneBefore(log, st.iter, next)
  <2>1. CASE Claimable(now) /\ now.iter = st.iter /\ now.step \in StepIds
    <3>1. next = IndexOf(now.step)
      BY <2>1, CursorIs
    <3>2. Turn(log, past.crossed, now.iter, now.step)
      BY <2>1 DEF OrderInv, ToldInTurn, Told, Claimable
    <3>3. QED
      BY <1>5, <2>1, <3>1, <3>2 DEF Turn
  <2>2. CASE next = st.index
    BY <1>2, <1>5, <2>2 DEF Reached
  <2>3. CASE \E k \in DOMAIN Strategy :
               next = k + 1 /\ Committed(prefix, st.iter, Strategy[k])
    <3>1. PICK k \in DOMAIN Strategy :
            next = k + 1 /\ Committed(prefix, st.iter, Strategy[k])
      BY <2>3
    <3>2. k \in 1 .. Len(Strategy) /\ Strategy[k] \in StepIds /\ IndexOf(Strategy[k]) = k
      BY <1>1, IndexIsPlace
    <3>3. Committed(log, st.iter, Strategy[k])
      BY <1>1, <3>1, PrefixCommits
    <3>4. DoneBefore(log, st.iter, k)
      BY <1>1, <1>5, <3>2, <3>3, CommitsAreDense DEF OrderInv
    <3>5. ASSUME NEW s \in StepIds, IndexOf(s) < next
          PROVE  Committed(log, st.iter, s)
      <4>1. IndexOf(s) \in 1 .. Len(Strategy) /\ Strategy[IndexOf(s)] = s
        BY IndexIsPlace
      <4>2. IndexOf(s) < k \/ IndexOf(s) = k
        BY <3>1, <3>2, <3>5, <4>1
      <4>3. QED
        BY <3>3, <3>4, <4>1, <4>2 DEF DoneBefore
    <3>6. QED
      BY <3>5 DEF DoneBefore
  <2>4. QED
    BY <2>1, <2>2, <2>3, CursorIs
<1>6. ASSUME next <= Len(Strategy)
      PROVE  Turn(log, past.crossed, st.iter, Strategy[next])
  <2>1. IndexOf(Strategy[next]) = next
    BY <1>1, <1>4, <1>6, IndexIsPlace
  <2>2. QED
    BY <1>3, <1>5, <2>1 DEF Turn
<1>7. ASSUME next > Len(Strategy), Kept(past.crossed, st.iter)
      PROVE  Finished(log, st.iter)
  BY <1>4, <1>5, <1>7, AllBeforeTheEnd
<1>8. QED
  BY <1>4, <1>6, <1>7

LEMMA PlannedOnce ==
  ASSUME OnceInv, OrderInv, ~past.crossed, NEW c \in Cli, cli[c].pc = "plan",
         NEW next, next = Cursor(SubSeq(log, 1, cli[c].seen), Snapshot(log),
                                 cli[c].st.iter, cli[c].st.index),
         next <= Len(Strategy)
  PROVE  /\ ~Committed(log, cli[c].st.iter, Strategy[next])
         /\ Snapshot(log).step # NoStep => Snapshot(log).iter = cli[c].st.iter
<1> DEFINE st == cli[c].st
           now == Snapshot(log)
           prefix == SubSeq(log, 1, cli[c].seen)
<1>1. /\ Types /\ cli[c].seen \in Nat /\ cli[c].seen <= Len(log)
      /\ st.index \in 1 .. Len(Strategy) + 1 /\ st.iter \in 0 .. MaxIters
      /\ Len(Strategy) \in Nat /\ DOMAIN Strategy = 1 .. Len(Strategy) /\ MaxIters \in Nat
  BY ProcessIs, StateIs, StrategyAssumption, NativeAssumption DEF OnceInv, Types, GuardsHold
<1>2. next \in 1 .. Len(Strategy)
  BY <1>1, CursorInRange
<1>3. \A step : Committed(log, st.iter, step) <=> Committed(prefix, st.iter, step)
  BY <1>1, PrefixCommits DEF OrderInv, ToldOnce, Open, Tells
<1>4. now.step # NoStep =>
        /\ now.pending /\ now.step \in StepIds /\ now.iter \in 0 .. MaxIters
        /\ ~Committed(log, now.iter, now.step) /\ FinishedBefore(log, past.crossed, now.iter)
  BY DEF OrderInv, ToldOnce, Open, Tells, ToldInTurn, Told, Snapshots, Turn
<1>5. ~Committed(log, st.iter, Strategy[next])
  <2>1. CASE Claimable(now) /\ now.iter = st.iter /\ now.step \in StepIds
    BY <1>4, <2>1, CursorIs, IndexIsPlace DEF Claimable
  <2>2. CASE \A j \in DOMAIN Strategy : ~Committed(prefix, st.iter, Strategy[j])
    BY <1>1, <1>2, <1>3, <2>2
  <2>3. CASE \E k \in DOMAIN Strategy :
               /\ next = k + 1
               /\ \A j \in DOMAIN Strategy : Committed(prefix, st.iter, Strategy[j]) => j <= k
    BY <1>1, <1>2, <1>3, <2>3
  <2>4. QED
    BY <2>1, <2>2, <2>3, CursorIs
<1>6. ASSUME now.step # NoStep, now.iter # st.iter
      PROVE  FALSE
  <2>1. CASE now.iter < st.iter
    <3>1. FinishedBefore(log, past.crossed, st.iter)
      BY DEF OrderInv, StatesReached, Reached
    <3>2. Finished(log, now.iter)
      BY <1>4, <1>6, <2>1, <3>1 DEF FinishedBefore, Kept
    <3>3. QED
      BY <1>4, <1>6, <3>2 DEF Finished
  <2>2. CASE st.iter < now.iter
    <3>1. Finished(log, st.iter)
      BY <1>1, <1>4, <1>6, <2>2 DEF FinishedBefore, Kept
    <3>2. QED
      BY <1>2, <1>5, <3>1, IndexIsPlace DEF Finished
  <2>3. QED
    BY <1>1, <1>4, <1>6, <2>1, <2>2
<1>7. QED
  BY <1>5, <1>6

\* A process that plans takes up a step, or closes the iteration.
LEMMA PlanIs ==
  ASSUME OnceInv, OrderInv, NEW c \in Cli, StepOf(c), Plan(c)
  PROVE  /\ cli'[c].pc = "start_find" =>
              /\ Turn(log, past.crossed, cli'[c].st.iter, cli'[c].step)
              /\ ~past.crossed =>
                   /\ ~Committed(log, cli'[c].st.iter, cli'[c].step)
                   /\ Snapshot(log).step # NoStep => Snapshot(log).iter = cli'[c].st.iter
         /\ cli'[c].pc = "complete_find" =>
              (Kept(past.crossed, cli'[c].st.iter) => Finished(log, cli'[c].st.iter))
<1>1. PICK next : next = Cursor(SubSeq(log, 1, cli[c].seen), Snapshot(log), cli[c].st.iter,
                                cli[c].st.index)
  OBVIOUS
<1>2. /\ cli[c].pc = "plan"
      /\ IF next <= Len(Strategy)
         THEN cli' = [cli EXCEPT ![c].pc = "start_find", ![c].step = Strategy[next]]
         ELSE cli' = [cli EXCEPT ![c].pc = "complete_find", ![c].then = "advance"]
  BY <1>1 DEF Plan, GoThen
<1>3. cli \in [Cli -> Process] /\ next \in 1 .. Len(Strategy) + 1 /\ Len(Strategy) \in Nat
  BY <1>1, PlannedInTurn, StrategyAssumption DEF OnceInv, Types
<1>4. CASE next <= Len(Strategy)
  <2>1. /\ cli'[c].pc = "start_find" /\ cli'[c].step = Strategy[next]
        /\ cli'[c].st = cli[c].st
    BY <1>2, <1>3, <1>4 DEF Process
  <2>2. Turn(log, past.crossed, cli[c].st.iter, Strategy[next])
    BY <1>1, <1>4, PlannedInTurn
  <2>3. ~past.crossed =>
          /\ ~Committed(log, cli[c].st.iter, Strategy[next])
          /\ Snapshot(log).step # NoStep => Snapshot(log).iter = cli[c].st.iter
    BY <1>1, <1>2, <1>4, PlannedOnce
  <2>4. QED
    BY <2>1, <2>2, <2>3
<1>5. CASE next > Len(Strategy)
  <2>1. cli'[c].pc = "complete_find" /\ cli'[c].st = cli[c].st
    BY <1>2, <1>3, <1>5 DEF Process
  <2>2. QED
    BY <1>1, <1>5, <2>1, PlannedInTurn
<1>6. QED
  BY <1>3, <1>4, <1>5

-----------------------------------------------------------------------------
(* The order of the steps is kept                                          *)

LEMMA FinishesIteration ==
  ASSUME NEW events, NEW x \in BOOLEAN, NEW i \in 0 .. MaxIters, i + 1 \in 0 .. MaxIters,
         FinishedBefore(events, x, i), Kept(x, i) => Finished(events, i)
  PROVE  FinishedBefore(events, x, i + 1)
<1>1. MaxIters \in Nat
  BY NativeAssumption
<1>2. \A j \in 0 .. MaxIters : j < i + 1 => j < i \/ j = i
  BY <1>1
<1>3. QED
  BY <1>2 DEF FinishedBefore

\* The states that processes come to promise what they reached.
LEMMA NewStateReached ==
  ASSUME OnceInv, OrderInv, NEW c \in Cli, Carries(c)
  PROVE  Reached(log, past.crossed, cli'[c].st)
<1>1. /\ Types /\ PlacesFit /\ ViewsFit /\ file.st \in State /\ cli[c].st \in State
      /\ past.crossed \in BOOLEAN /\ Fits(cli[c])
  BY ProcessIs DEF OnceInv, Types, PlacesFit, Pasts
<1>2. Reached(log, past.crossed, file.st) /\ Reached(log, past.crossed, cli[c].st)
  BY DEF OrderInv, StatesReached
<1>3. \A s \in StepIds : IndexOf(s) \in 1 .. Len(Strategy) /\ Strategy[IndexOf(s)] = s
  BY IndexIsPlace
<1>4. Len(Strategy) \in Nat /\ MaxIters \in Nat
  BY StrategyAssumption, NativeAssumption
<1>5. Reached(log, past.crossed, DefaultState)
  BY <1>3, <1>4, DefaultIs DEF Reached, FinishedBefore, DoneBefore
<1>6. CASE cli'[c].st \in {cli[c].st, Read(file), DefaultState}
  BY <1>2, <1>5, <1>6 DEF Read
<1>7. CASE cli'[c].st = [cli[c].st EXCEPT !.active = NoView]
  BY <1>1, <1>2, <1>7, UnclaimedIs DEF Reached
<1>8. CASE cli'[c].st = [cli[c].st EXCEPT !.done = TRUE]
  BY <1>1, <1>2, <1>8, DoneIs DEF Reached
<1>9. CASE Issue(c) /\ cli'[c].st = ClaimedState(cli[c].st, cli[c].step)
  <2>1. cli[c].pc = "issue"
    BY <1>9 DEF Issue
  <2>2. /\ cli[c].step \in StepIds
        /\ Turn(log, past.crossed, cli[c].st.iter, cli[c].step)
    BY <1>1, <2>1 DEF Fits, OrderInv, TurnsKept, Telling
  <2>3. QED
    BY <1>1, <1>2, <1>9, <2>2, ClaimedIs DEF Reached
<1>10. CASE /\ cli[c].pc = "advance" /\ cli[c].st.iter + 1 < MaxIters
            /\ cli'[c].st = NextIterationState(cli[c].st)
  <2>1. PICK i \in 0 .. MaxIters : i = cli[c].st.iter /\ i + 1 \in 0 .. MaxIters
    BY <1>1, <1>4, <1>10, StateIs
  <2>2. Kept(past.crossed, i) => Finished(log, i)
    BY <1>10, <2>1 DEF OrderInv, TurnsKept, Through
  <2>3. FinishedBefore(log, past.crossed, i + 1)
    BY <1>1, <1>2, <2>1, <2>2, FinishesIteration DEF Reached
  <2>4. cli'[c].st.iter = i + 1 /\ cli'[c].st.index = 1 /\ cli'[c].st.active = NoView
    BY <1>1, <1>10, <2>1, NextIterationIs
  <2>5. QED
    BY <1>3, <1>4, <2>3, <2>4 DEF Reached, DoneBefore
<1>11. CASE /\ cli[c].pc = "after" \/ cli[c].pc = "pass"
            /\ cli'[c].st = SubmittedState(cli[c].st, cli[c].step)
  <2>1. /\ cli[c].step = cli[c].view.step /\ cli[c].st.iter = cli[c].view.iter
        /\ cli[c].call = "submit"
    BY <1>1, <1>11 DEF Fits, Bringing, Passing, Recording, Submitting
  <2>2. /\ cli[c].step \in StepIds
        /\ Turn(log, past.crossed, cli[c].st.iter, cli[c].step)
        /\ Committed(log, cli[c].st.iter, cli[c].step)
    BY <1>1, <1>11, <2>1 DEF ViewsFit, OrderInv, TurnsKept, Recording, Passing
  <2>3. /\ cli'[c].st.iter = cli[c].st.iter /\ cli'[c].st.index = IndexOf(cli[c].step) + 1
        /\ cli'[c].st.active = NoView
    BY <1>1, <1>11, <2>2, SubmittedIs
  <2>4. ASSUME Kept(past.crossed, cli[c].st.iter)
        PROVE  DoneBefore(log, cli[c].st.iter, IndexOf(cli[c].step) + 1)
    <3>1. DoneBefore(log, cli[c].st.iter, IndexOf(cli[c].step))
      BY <2>2, <2>4 DEF Turn
    <3>2. ASSUME NEW s \in StepIds, IndexOf(s) < IndexOf(cli[c].step) + 1
          PROVE  IndexOf(s) < IndexOf(cli[c].step) \/ s = cli[c].step
      <4>1. /\ IndexOf(s) \in Nat /\ IndexOf(cli[c].step) \in Nat
            /\ Strategy[IndexOf(s)] = s /\ Strategy[IndexOf(cli[c].step)] = cli[c].step
        BY <1>3, <1>4, <2>2
      <4>2. IndexOf(s) < IndexOf(cli[c].step) \/ IndexOf(s) = IndexOf(cli[c].step)
        BY <3>2, <4>1
      <4>3. QED
        BY <4>1, <4>2
    <3>3. QED
      BY <2>2, <3>1, <3>2 DEF DoneBefore
  <2>5. QED
    BY <1>2, <2>3, <2>4 DEF Reached
<1>12. QED
  BY <1>6, <1>7, <1>8, <1>9, <1>10, <1>11 DEF Carries

LEMMA StatesKept ==
  ASSUME OnceInv, OrderInv, [Next]_vars
  PROVE  StatesReached'
<1>1. /\ Types /\ Reached(log, past.crossed, file.st)
      /\ \A c \in Cli : Reached(log, past.crossed, cli[c].st)
  BY DEF OnceInv, OrderInv, StatesReached
<1>2. ASSUME NEW c \in Cli, StepOf(c)
      PROVE  StatesReached'
  <2>1. /\ Extends(log, log') /\ past.crossed \in BOOLEAN /\ past'.crossed \in BOOLEAN
        /\ past.crossed => past'.crossed
    BY <1>1, <1>2, StepsWrite, Extended, CrossedStays
  <2>2. \A st : Reached(log, past.crossed, st) => Reached(log', past'.crossed, st)
    BY <2>1, ReachedStays
  <2>3. /\ Carries(c) /\ \A d \in Cli : d # c => cli'[d] = cli[d]
    BY <1>2 DEF StepOf
  <2>4. Reached(log, past.crossed, cli'[c].st)
    BY <2>3, NewStateReached
  <2>5. \A d \in Cli : Reached(log, past.crossed, cli'[d].st)
    BY <1>1, <2>3, <2>4
  <2>6. Reached(log, past.crossed, file'.st)
    BY <1>1, <2>3 DEF Carries
  <2>7. QED
    BY <2>2, <2>5, <2>6 DEF StatesReached
<1>3. CASE Stop
  <2>1. Extends(log, log') /\ UNCHANGED <<file, cli, past>> /\ past.crossed \in BOOLEAN
    BY <1>1, <1>3, StopWrites, Extended DEF Writes, Stop, Types, Pasts
  <2>2. \A st : Reached(log, past.crossed, st) => Reached(log', past.crossed, st)
    BY <2>1, ReachedStays
  <2>3. QED
    BY <1>1, <2>1, <2>2 DEF StatesReached
<1>4. CASE UNCHANGED vars
  BY <1>1, <1>4 DEF vars, StatesReached
<1>5. QED
  BY <1>2, <1>3, <1>4, NextIsSuch DEF OnceInv

LEMMA TurnsStay ==
  ASSUME OnceInv, OrderInv, [Next]_vars
  PROVE  TurnsKept'
<1>1. Types /\ TurnsKept /\ ViewsFit
  BY DEF OnceInv, OrderInv
<1> DEFINE Knows(events, x, me) ==
             /\ me.call = "submit" => Turn(events, x, me.view.iter, me.view.step)
             /\ me.pc \in Telling => Turn(events, x, me.st.iter, me.step)
             /\ (me.pc \in Recording \/ Passing(me)) =>
                  Committed(events, me.view.iter, me.view.step)
             /\ (Through(me) /\ Kept(x, me.st.iter)) => Finished(events, me.st.iter)
<1>2. ASSUME Extends(log, log'), past'.crossed \in BOOLEAN, past.crossed => past'.crossed
      PROVE  /\ \A i, step :
                  Turn(log, past.crossed, i, step) => Turn(log', past'.crossed, i, step)
             /\ \A me : Knows(log, past.crossed, me) => Knows(log', past'.crossed, me)
  <2>1. past.crossed \in BOOLEAN
    BY <1>1 DEF Types, Pasts
  <2>2. \A i, step : Turn(log, past.crossed, i, step) => Turn(log', past'.crossed, i, step)
    BY <1>2, <2>1, TurnStays
  <2>3. \A i : Finished(log, i) => Finished(log', i)
    BY <1>2, <2>1, TurnStays
  <2>4. \A i : Kept(past'.crossed, i) => Kept(past.crossed, i)
    BY <1>2, <2>1 DEF Kept
  <2>5. \A i, step : Committed(log, i, step) => Committed(log', i, step)
    BY <1>2, CommittedStays
  <2>6. QED
    BY <2>2, <2>3, <2>4, <2>5
<1>3. ASSUME NEW c \in Cli, StepOf(c)
      PROVE  TurnsKept'
  <2>1. /\ Extends(log, log') /\ past.crossed \in BOOLEAN /\ past'.crossed \in BOOLEAN
        /\ past.crossed => past'.crossed
    BY <1>1, <1>3, StepsWrite, Extended, CrossedStays
  <2>2. /\ Carries(c) /\ Calls(c) /\ Enters(c) /\ \A d \in Cli : d # c => cli'[d] = cli[d]
    BY <1>3 DEF StepOf
  <2>3. \A v \in handed' : Turn(log, past.crossed, v.iter, v.step)
    <3>1. ASSUME cli[c].st.active # NoView
          PROVE  Turn(log, past.crossed, cli[c].st.active.iter, cli[c].st.active.step)
      BY <1>1, <3>1 DEF ViewsFit, OrderInv, StatesReached, Reached
    <3>2. QED
      BY <1>1, <2>2, <3>1 DEF Carries, TurnsKept
  <2>4. ASSUME NEW d \in Cli, d # c
        PROVE  Knows(log', past'.crossed, cli'[d])
    BY <1>1, <1>2, <2>1, <2>2, <2>4 DEF TurnsKept
  <2>5. Knows(log', past'.crossed, cli'[c])
    <3>1. ASSUME cli'[c].call = "submit"
          PROVE  Turn(log', past'.crossed, cli'[c].view.iter, cli'[c].view.step)
      BY <1>1, <1>2, <2>1, <2>2, <3>1 DEF Calls, TurnsKept
    <3>2. ASSUME cli'[c].pc \in Telling
          PROVE  Turn(log', past'.crossed, cli'[c].st.iter, cli'[c].step)
      <4>1. Turn(log, past.crossed, cli'[c].st.iter, cli'[c].step)
        BY <1>1, <1>3, <2>2, <3>2, PlanIs DEF Enters, TurnsKept
      <4>2. QED
        BY <1>2, <2>1, <4>1
    <3>3. ASSUME cli'[c].pc \in Recording \/ Passing(cli'[c])
          PROVE  Committed(log', cli'[c].view.iter, cli'[c].view.step)
      <4>1. CASE Commit(c)
        <5>1. PICK e \in Events : /\ log' = Append(log, e) /\ e.type = "StepCommitted"
                                  /\ e.step = cli[c].view.step /\ e.iter = cli[c].view.iter
          BY <1>1, <4>1, CommitIs
        <5>2. Len(log) + 1 \in DOMAIN log' /\ log'[Len(log) + 1] = e
          BY <1>1, <5>1, AppendIs DEF Types
        <5>3. QED
          BY <2>2, <3>3, <5>1, <5>2 DEF Enters, Committed
      <4>2. CASE ~Commit(c)
        BY <1>1, <2>1, <2>2, <3>3, <4>2, CommittedStays DEF Enters, TurnsKept
      <4>3. QED
        BY <4>1, <4>2
    <3>4. ASSUME Through(cli'[c]), Kept(past'.crossed, cli'[c].st.iter)
          PROVE  Finished(log', cli'[c].st.iter)
      <4>1. Kept(past.crossed, cli'[c].st.iter)
        BY <2>1, <3>4 DEF Kept
      <4>2. Finished(log, cli'[c].st.iter)
        BY <1>1, <1>3, <2>2, <3>4, <4>1, PlanIs DEF Enters, TurnsKept
      <4>3. QED
        BY <2>1, <4>2, TurnStays
    <3>5. QED
      BY <3>1, <3>2, <3>3, <3>4
  <2>6. QED
    BY <1>2, <2>1, <2>3, <2>4, <2>5 DEF TurnsKept
<1>4. CASE Stop
  <2>1. Extends(log, log') /\ UNCHANGED <<handed, cli, past>> /\ past.crossed \in BOOLEAN
    BY <1>1, <1>4, StopWrites, Extended DEF Writes, Stop, Types, Pasts
  <2>2. QED
    BY <1>1, <1>2, <2>1 DEF TurnsKept
<1>5. CASE UNCHANGED vars
  BY <1>1, <1>5 DEF vars, TurnsKept
<1>6. QED
  BY <1>3, <1>4, <1>5, NextIsSuch DEF OnceInv

\* What the replay makes of an event of this plane.
LEMMA ReplayOfEvent ==
  ASSUME NEW now \in Snapshots, NEW e \in Events
  PROVE  LET then == Apply(now, e) IN
         /\ then \in Snapshots
         /\ now.lifecycle \in Ended => then = now
         /\ now.lifecycle \notin Ended =>
              /\ e.type = "StepInstructionIssued" =>
                   /\ then.step = e.step /\ then.iter = e.iter /\ then.pending
                   /\ then.lifecycle \notin Ended
              /\ e.type = "IterationStarted" =>
                   /\ then.step = now.step /\ then.iter = e.iter /\ then.pending = now.pending
                   /\ then.lifecycle \notin Ended
              /\ e.type \in {"StepCommitted"} \cup DOMAIN EndOf =>
                   then.step = NoStep /\ then.iter = now.iter
              /\ e.type \in {"RunPausedForActor", "IterationCompleted", "EvidenceAccepted",
                             "RunCreated"} =>
                   /\ then.step = now.step /\ then.iter = now.iter
                   /\ now.pending => then.pending
                   /\ then.lifecycle \notin Ended
<1>1. e.type \in EventTypes /\ e.step \in StepIds \cup {NoStep} /\ e.iter \in 0 .. MaxIters
  BY DEF Events
<1>2. CASE now.lifecycle \in Ended
  BY <1>2 DEF Apply
<1>3. CASE now.lifecycle \notin Ended
  <2>1. CASE e.type = "StepInstructionIssued"
    BY <1>1, <1>3, <2>1, EndsAre DEF Apply, Snapshots, Ended
  <2>2. CASE e.type = "IterationStarted"
    BY <1>1, <1>3, <2>2, EndsAre DEF Apply, Snapshots, Ended
  <2>3. CASE e.type = "StepCommitted"
    BY <1>1, <1>3, <2>3, EndsAre DEF Apply, Snapshots, Ended
  <2>4. CASE e.type \in DOMAIN EndOf
    <3>1. EndOf[e.type] \in Ended
      BY <2>4 DEF EndOf, Ended
    <3>2. Apply(now, e) = [now EXCEPT !.lifecycle = EndOf[e.type], !.step = NoStep,
                                      !.pending = FALSE]
      BY <1>3, <2>4, EndsAre DEF Apply
    <3>3. QED
      BY <1>3, <2>4, <3>1, <3>2, EndsAre DEF Snapshots
  <2>5. CASE e.type = "RunPausedForActor"
    BY <1>1, <1>3, <2>5, EndsAre DEF Apply, Snapshots, Ended
  <2>6. CASE e.type \in {"IterationCompleted", "EvidenceAccepted", "RunCreated"}
    BY <1>1, <1>3, <2>6, EndsAre DEF Apply, Snapshots, Ended
  <2>7. QED
    BY <1>1, <2>1, <2>2, <2>3, <2>4, <2>5, <2>6, EndsAre DEF EventTypes
<1>4. QED
  BY <1>2, <1>3

LEMMA SnapshotOfNext ==
  ASSUME Types, NEW e, log' = Append(log, e)
  PROVE  Snapshot(log)' = Apply(Snapshot(log), e)
<1>1. log \in Seq(Events)
  BY DEF Types
<1>2. Snapshot(Append(log, e)) = Apply(Snapshot(log), e)
  BY <1>1, SnapshotOfOneMore
<1>3. QED
  BY <1>2

\* A change of the row leaves the step that was told of, or ends the run.
LEMMA ReplayOfRow ==
  ASSUME Types, Snapshot(log) \in Snapshots, RowWrites
  PROVE  LET now == Snapshot(log)  then == Snapshot(log)' IN
         \/ then = now
         \/ /\ then \in Snapshots /\ then.step = NoStep /\ then.iter = now.iter
         \/ /\ then \in Snapshots /\ then.lifecycle \notin Ended
            /\ then.step = now.step /\ then.iter = now.iter /\ (now.pending => then.pending)
<1>1. CASE log' = log
  BY <1>1
<1>2. CASE log' # log
  <2>1. PICK status \in DOMAIN StatusEvent, e \in Events :
          e.type = StatusEvent[status] /\ log' = Append(log, e)
    BY <1>2 DEF RowWrites
  <2>2. Snapshot(log)' = Apply(Snapshot(log), e)
    BY <2>1, SnapshotOfNext
  <2>3. e.type \in {"RunPausedForActor"} \cup DOMAIN EndOf
    BY <2>1, StatusIs, EndsAre
  <2>4. QED
    BY <2>2, <2>3, ReplayOfEvent
<1>3. QED
  BY <1>1, <1>2

\* The iteration that begins is the one of the step that was told of, or its turn there
\* has come as well.
LEMMA TurnInStarted ==
  ASSUME NEW events, NEW x \in BOOLEAN, NEW i \in 0 .. MaxIters, NEW j \in 0 .. MaxIters,
         NEW step, Turn(events, x, i, step), FinishedBefore(events, x, j), ~x => i = j
  PROVE  Turn(events, x, j, step)
<1>1. CASE i = j
  BY <1>1
<1>2. CASE i # j
  <2>1. ASSUME Kept(x, j)
        PROVE  DoneBefore(events, j, IndexOf(step))
    <3>1. j = 0 /\ Kept(x, 0) /\ 0 < i /\ 0 \in 0 .. MaxIters
      BY <1>2, <2>1, NativeAssumption DEF Kept
    <3>2. Finished(events, 0)
      BY <3>1 DEF Turn, FinishedBefore
    <3>3. QED
      BY <3>1, <3>2 DEF Finished, DoneBefore
  <2>2. QED
    BY <2>1 DEF Turn
<1>3. QED
  BY <1>1, <1>2

LEMMA ToldKept ==
  ASSUME OnceInv, OrderInv, [Next]_vars
  PROVE  ToldInTurn'
<1> DEFINE now == Snapshot(log)
<1>1. Types /\ ToldInTurn /\ past.crossed \in BOOLEAN /\ now \in Snapshots
  BY DEF OnceInv, OrderInv, Types, ToldInTurn, Told, Pasts
<1>2. Told(now, log, past.crossed)
  BY <1>1 DEF ToldInTurn
<1>3. ASSUME Extends(log, log'), past'.crossed \in BOOLEAN, past.crossed => past'.crossed
      PROVE  \A s : Told(s, log, past.crossed) => Told(s, log', past'.crossed)
  BY <1>1, <1>3, TurnStays DEF Told
<1>4. ASSUME RowWrites, Extends(log, log'), past'.crossed \in BOOLEAN,
             past.crossed => past'.crossed
      PROVE  ToldInTurn'
  <2>1. Told(Snapshot(log)', log, past.crossed)
    BY <1>1, <1>2, <1>4, ReplayOfRow DEF Told
  <2>2. Told(Snapshot(log)', log', past'.crossed)
    BY <1>3, <1>4, <2>1
  <2>3. QED
    BY <2>2 DEF ToldInTurn
<1>5. ASSUME NEW c \in Cli, StepOf(c)
      PROVE  ToldInTurn'
  <2>1. /\ Extends(log, log') /\ Writes(c) /\ past'.crossed \in BOOLEAN
        /\ past.crossed => past'.crossed
    BY <1>1, <1>5, StepsWrite, Extended, CrossedStays
  <2>2. CASE RowWrites
    BY <1>4, <2>1, <2>2
  <2>3. ASSUME NEW e \in Events, log' = Append(log, e),
               Told(Apply(now, e), log, past.crossed)
        PROVE  ToldInTurn'
    <3>1. Snapshot(log)' = Apply(now, e)
      BY <1>1, <2>3, SnapshotOfNext
    <3>2. Told(Apply(now, e), log', past'.crossed)
      BY <1>3, <2>1, <2>3
    <3>3. QED
      BY <3>1, <3>2 DEF ToldInTurn
  <2>4. ASSUME NEW e \in Events, log' = Append(log, e),
               e.type \in {"IterationCompleted", "EvidenceAccepted"}
        PROVE  ToldInTurn'
    <3>1. Told(Apply(now, e), log, past.crossed)
      BY <1>1, <1>2, <2>4, ReplayOfEvent DEF Told
    <3>2. QED
      BY <2>3, <2>4, <3>1
  <2>5. ASSUME NEW e \in Events, log' = Append(log, e), e.type = "StepCommitted"
        PROVE  ToldInTurn'
    <3>1. Told(Apply(now, e), log, past.crossed)
      BY <1>1, <1>2, <2>5, ReplayOfEvent DEF Told
    <3>2. QED
      BY <2>3, <2>5, <3>1
  <2>6. ASSUME NEW e \in Events, log' = Append(log, e), e.type = "StepInstructionIssued",
               cli[c].pc = "issue", e.step = cli[c].step, e.iter = cli[c].st.iter
        PROVE  ToldInTurn'
    <3>1. Turn(log, past.crossed, e.iter, e.step)
      BY <2>6 DEF OrderInv, TurnsKept, Telling
    <3>2. Told(Apply(now, e), log, past.crossed)
      BY <1>1, <1>2, <2>6, <3>1, ReplayOfEvent DEF Told
    <3>3. QED
      BY <2>3, <2>6, <3>2
  <2>7. ASSUME NEW e \in Events, log' = Append(log, e), e.type = "IterationStarted",
               cli[c].pc = "start", e.iter = cli[c].st.iter
        PROVE  ToldInTurn'
    <3>1. FinishedBefore(log, past.crossed, e.iter) /\ e.iter \in 0 .. MaxIters
      BY <2>7 DEF OrderInv, StatesReached, Reached, Events
    <3>2. ASSUME now.step # NoStep
          PROVE  Turn(log, past.crossed, e.iter, now.step)
      <4>1. ~past.crossed => now.iter = e.iter
        BY <2>7, <3>2 DEF OrderInv, ToldOnce, Open, Tells, Telling
      <4>2. now.iter \in 0 .. MaxIters /\ Turn(log, past.crossed, now.iter, now.step)
        BY <1>1, <1>2, <3>2 DEF Told, Snapshots
      <4>3. QED
        BY <1>1, <3>1, <4>1, <4>2, TurnInStarted
    <3>3. Told(Apply(now, e), log, past.crossed)
      BY <1>1, <1>2, <2>7, <3>2, ReplayOfEvent DEF Told
    <3>4. QED
      BY <2>3, <2>7, <3>3
  <2>8. QED
    BY <2>1, <2>2, <2>4, <2>5, <2>6, <2>7 DEF Writes
<1>6. CASE Stop
  <2>1. RowWrites /\ Extends(log, log') /\ past' = past
    BY <1>1, <1>6, StopWrites, Extended DEF Writes, Stop
  <2>2. QED
    BY <1>1, <1>4, <2>1
<1>7. CASE UNCHANGED vars
  BY <1>1, <1>7 DEF vars, ToldInTurn
<1>8. QED
  BY <1>5, <1>6, <1>7, NextIsSuch DEF OnceInv

LEMMA ApartKept ==
  ASSUME OnceInv, OrderInv, [Next]_vars
  PROVE  Apart'
<1>1. Types /\ Apart /\ PlacesFit
  BY DEF OnceInv, OrderInv
<1>2. ASSUME NEW c \in Cli, StepOf(c)
      PROVE  Apart'
  <2>1. Calls(c) /\ Fits(cli'[c]) /\ \A d \in Cli : d # c => cli'[d] = cli[d]
    BY <1>2 DEF StepOf
  <2>2. SUFFICES ASSUME ~past'.crossed, NEW d \in Cli, d # c
                 PROVE  \/ cli'[c].pc = "idle" \/ cli'[d].pc = "idle"
                        \/ cli'[c].call = "submit" /\ cli'[d].call = "submit"
    BY <1>1, <2>1 DEF Apart, Calls
  <2>3. QED
    BY <1>1, <2>1, <2>2 DEF Apart, Calls
<1>3. CASE Stop
  BY <1>1, <1>3 DEF Stop, Apart
<1>4. CASE UNCHANGED vars
  BY <1>1, <1>4 DEF vars, Apart
<1>5. QED
  BY <1>2, <1>3, <1>4, NextIsSuch DEF OnceInv

\* A process that holds submit.lock, or claims, is alone with those that wait for it.
LEMMA OthersWait ==
  ASSUME OnceInv, Apart, ~past.crossed, NEW c \in Cli, cli[c].pc \notin {"idle", "lock"},
         NEW d \in Cli, d # c
  PROVE  cli[d].pc \in {"idle", "lock"}
BY DEF OnceInv, LockHeld, Apart

\* A replay in which nobody is told of another step than before.
NoNewStep(now, then) == then.step # NoStep => then.step = now.step /\ then.iter = now.iter

LEMMA TellsStay ==
  ASSUME NEW events, NEW longer, NEW now, NEW then, NoNewStep(now, then),
         \A k \in DOMAIN longer : longer[k].type = "StepCommitted" =>
           k \in DOMAIN events /\ longer[k] = events[k]
  PROVE  /\ Open(now, events) => Open(then, longer)
         /\ \A me : Tells(me, now, events) => Tells(me, then, longer)
<1>1. \A i, step : Committed(longer, i, step) => Committed(events, i, step)
  BY DEF Committed
<1>2. QED
  BY <1>1 DEF NoNewStep, Open, Tells

\* What a step other than the instruction and the commit makes of the replay.
LEMMA NobodyToldAnew ==
  ASSUME OnceInv, OrderInv, ~past.crossed, NEW c, Writes(c),
         RowWrites \/ (c \in Cli /\ cli[c].pc \notin {"issue", "commit"})
  PROVE  NoNewStep(Snapshot(log), Snapshot(log)')
<1> DEFINE now == Snapshot(log)
           then == Snapshot(log)'
<1>1. Types /\ now \in Snapshots
  BY DEF OnceInv, OrderInv, ToldInTurn, Told
<1>2. CASE RowWrites
  BY <1>1, <1>2, ReplayOfRow DEF NoNewStep
<1>3. ASSUME NEW e \in Events, log' = Append(log, e),
             e.type \in {"IterationCompleted", "EvidenceAccepted"}
      PROVE  NoNewStep(now, then)
  <2>1. then = Apply(now, e)
    BY <1>1, <1>3, SnapshotOfNext
  <2>2. QED
    BY <1>1, <1>3, <2>1, ReplayOfEvent DEF NoNewStep
<1>4. ASSUME NEW e \in Events, log' = Append(log, e), e.type = "IterationStarted", c \in Cli,
             cli[c].pc = "start", e.iter = cli[c].st.iter
      PROVE  NoNewStep(now, then)
  <2>1. then = Apply(now, e)
    BY <1>1, <1>4, SnapshotOfNext
  <2>2. now.step # NoStep => now.iter = e.iter
    BY <1>4 DEF OrderInv, ToldOnce, Tells, Telling
  <2>3. QED
    BY <1>1, <1>4, <2>1, <2>2, ReplayOfEvent DEF NoNewStep
<1>5. QED
  BY <1>2, <1>3, <1>4 DEF Writes

\* What the acting process tells where it has come.
LEMMA ActorTells ==
  ASSUME OnceInv, OrderInv, ~past.crossed, NEW c \in Cli, StepOf(c),
         cli[c].pc \in Telling =>
           /\ ~Committed(log', cli[c].st.iter, cli[c].step)
           /\ (Snapshot(log)').step # NoStep => (Snapshot(log)').iter = cli[c].st.iter
  PROVE  Tells(cli'[c], Snapshot(log)', log')
<1>1. Enters(c) /\ Types /\ Len(log) \in Nat /\ DOMAIN log = 1 .. Len(log)
  BY DEF StepOf, OnceInv, Types
<1>2. ASSUME cli'[c].pc = "plan"
      PROVE  \A k \in DOMAIN log' : k > cli'[c].seen => log'[k].type # "StepCommitted"
  BY <1>1, <1>2 DEF Enters
<1>3. ASSUME cli'[c].pc \in Telling
      PROVE  /\ ~Committed(log', cli'[c].st.iter, cli'[c].step)
             /\ (Snapshot(log)').step # NoStep => (Snapshot(log)').iter = cli'[c].st.iter
  <2>1. CASE Plan(c) /\ cli'[c].pc = "start_find"
    <3>1. log' = log
      BY <2>1 DEF Plan
    <3>2. Snapshot(log)' = Snapshot(log)
      BY <3>1
    <3>3. QED
      BY <2>1, <3>1, <3>2, PlanIs
  <2>2. CASE cli[c].pc \in Telling /\ cli'[c].step = cli[c].step /\ cli'[c].st = cli[c].st
    BY <2>2
  <2>3. QED
    BY <1>1, <1>3, <2>1, <2>2 DEF Enters
<1>4. QED
  BY <1>2, <1>3 DEF Tells

LEMMA ToldOnceKept ==
  ASSUME OnceInv, OrderInv, [Next]_vars
  PROVE  ToldOnce'
<1> DEFINE now == Snapshot(log)
           then == Snapshot(log)'
<1>1. /\ Types /\ Apart /\ Told(now, log, past.crossed) /\ now \in Snapshots /\ ToldOnce
  BY DEF OnceInv, OrderInv, ToldInTurn, Told
<1>2. ASSUME NEW c, Writes(c), ~past.crossed,
             RowWrites \/ (c \in Cli /\ cli[c].pc \notin {"issue", "commit"})
      PROVE  Open(then, log') /\ \A me : Tells(me, now, log) => Tells(me, then, log')
  <2>1. NoNewStep(now, then)
    BY <1>2, NobodyToldAnew
  <2>2. \A k \in DOMAIN log' : log'[k].type = "StepCommitted" =>
          k \in DOMAIN log /\ log'[k] = log[k]
    BY <1>1, <1>2, CommitsOnlyThere
  <2>3. QED
    BY <1>1, <1>2, <2>1, <2>2, TellsStay DEF ToldOnce
<1>3. ASSUME NEW c \in Cli, StepOf(c), ~past'.crossed
      PROVE  Open(then, log') /\ \A d \in Cli : Tells(cli'[d], then, log')
  <2>1. ~past.crossed /\ Writes(c) /\ \A d \in Cli : d # c => cli'[d] = cli[d]
    BY <1>1, <1>3, StepsWrite DEF StepOf, Calls
  <2>2. Open(now, log) /\ \A d \in Cli : Tells(cli[d], now, log)
    BY <1>1, <2>1 DEF ToldOnce
  <2>3. CASE RowWrites \/ cli[c].pc \notin {"issue", "commit"}
    <3>1. Open(then, log') /\ \A me : Tells(me, now, log) => Tells(me, then, log')
      BY <1>2, <2>1, <2>3
    <3>2. Tells(cli[c], then, log')
      BY <2>2, <3>1
    <3>3. Tells(cli'[c], then, log')
      BY <1>3, <2>1, <3>2, ActorTells DEF Tells
    <3>4. QED
      BY <2>1, <2>2, <3>1, <3>3
  <2>4. ASSUME cli[c].pc \in {"issue", "commit"}, NEW d \in Cli, d # c
        PROVE  Tells(cli'[d], then, log')
    <3>1. cli[d].pc \in {"idle", "lock"}
      BY <1>1, <2>1, <2>4, OthersWait
    <3>2. QED
      BY <2>1, <2>4, <3>1 DEF Tells, Telling
  <2>5. ASSUME NEW e \in Events, log' = Append(log, e), e.type = "StepInstructionIssued",
               cli[c].pc = "issue", e.step = cli[c].step, e.iter = cli[c].st.iter
        PROVE  Open(then, log') /\ Tells(cli'[c], then, log')
    <3>1. then = Apply(now, e)
      BY <1>1, <2>5, SnapshotOfNext
    <3>2. then.step # NoStep => then.step = cli[c].step /\ then.iter = cli[c].st.iter
      BY <1>1, <2>5, <3>1, ReplayOfEvent DEF Told
    <3>3. ~Committed(log, cli[c].st.iter, cli[c].step)
      BY <2>2, <2>5 DEF Tells, Telling
    <3>4. \A k \in DOMAIN log' : log'[k].type = "StepCommitted" =>
            k \in DOMAIN log /\ log'[k] = log[k]
      BY <1>1, <2>1, <2>5, CommitsOnlyThere
    <3>5. ~Committed(log', cli[c].st.iter, cli[c].step)
      BY <3>3, <3>4 DEF Committed
    <3>6. QED
      BY <1>3, <2>1, <3>2, <3>5, ActorTells DEF Open
  <2>6. ASSUME NEW e \in Events, log' = Append(log, e), e.type = "StepCommitted",
               cli[c].pc = "commit"
        PROVE  Open(then, log') /\ Tells(cli'[c], then, log')
    <3>1. then = Apply(now, e)
      BY <1>1, <2>6, SnapshotOfNext
    <3>2. then.step = NoStep
      BY <1>1, <2>6, <3>1, ReplayOfEvent DEF Told
    <3>3. QED
      BY <1>3, <2>1, <2>6, <3>2, ActorTells DEF Open, Telling
  <2>7. QED
    BY <2>1, <2>3, <2>4, <2>5, <2>6 DEF Writes
<1>4. CASE Stop
  <2>1. RowWrites /\ Writes(None) /\ UNCHANGED <<cli, past>>
    BY <1>1, <1>4, StopWrites DEF Writes, Stop
  <2>2. QED
    BY <1>1, <1>2, <2>1 DEF ToldOnce
<1>5. CASE UNCHANGED vars
  BY <1>1, <1>5 DEF vars, ToldOnce
<1>6. QED
  BY <1>3, <1>4, <1>5, NextIsSuch DEF OnceInv, ToldOnce

LEMMA CommitsKept ==
  ASSUME OnceInv, OrderInv, [Next]_vars
  PROVE  CommitsFollowTheStrategy'
<1> DEFINE InTurn(events, k) ==
             /\ \A s \in StepIds : IndexOf(s) < IndexOf(events[k].step) =>
                  \E j \in DOMAIN events :
                    /\ events[j].type = "StepCommitted" /\ events[j].step = s
                    /\ events[j].iter = events[k].iter /\ j < k
             /\ events[k].iter > 0 => \A s \in StepIds :
                  \E j \in DOMAIN events :
                    /\ events[j].type = "StepCommitted" /\ events[j].step = s
                    /\ events[j].iter = events[k].iter - 1 /\ j < k
<1>1. /\ Types /\ log \in Seq(Events) /\ past.crossed \in BOOLEAN
      /\ \A k \in DOMAIN log :
           (log[k].type = "StepCommitted" /\ (log[k].iter = 0 \/ ~past.crossed)) => InTurn(log, k)
  BY DEF OnceInv, Types, OrderInv, CommitsFollowTheStrategy, Of, Pasts
<1>2. ASSUME \A k \in DOMAIN log' :
               (log'[k].type = "StepCommitted" /\ (log'[k].iter = 0 \/ ~past'.crossed)) =>
                 InTurn(log', k)
      PROVE  CommitsFollowTheStrategy'
  BY <1>2 DEF CommitsFollowTheStrategy, Of
<1>3. ASSUME NEW c, Writes(c), past.crossed => past'.crossed, past'.crossed \in BOOLEAN,
             RowWrites \/ (c \in Cli /\ cli[c].pc # "commit")
      PROVE  CommitsFollowTheStrategy'
  <2>1. \A k \in DOMAIN log' : log'[k].type = "StepCommitted" =>
          k \in DOMAIN log /\ log'[k] = log[k]
    BY <1>1, <1>3, CommitsOnlyThere
  <2>2. \A k \in DOMAIN log : k \in DOMAIN log' /\ log'[k] = log[k]
    BY <1>1, <1>3, Grown
  <2>3. \A k \in DOMAIN log : InTurn(log, k) => InTurn(log', k)
    BY <2>2
  <2>4. QED
    BY <1>1, <1>2, <1>3, <2>1, <2>3
<1>4. ASSUME NEW c \in Cli, StepOf(c), cli[c].pc = "commit", ~RowWrites
      PROVE  CommitsFollowTheStrategy'
  <2>1. /\ past.crossed => past'.crossed
        /\ past'.crossed \in BOOLEAN /\ Writes(c)
    BY <1>1, <1>4, StepsWrite, CrossedStays
  <2>2. PICK e \in Events : /\ log' = Append(log, e) /\ e.type = "StepCommitted"
                            /\ e.step = cli[c].view.step /\ e.iter = cli[c].view.iter
    BY <1>4, <2>1 DEF Writes
  <2>3. /\ DOMAIN log' = 1 .. Len(log) + 1 /\ log'[Len(log) + 1] = e
        /\ \A k \in DOMAIN log : log'[k] = log[k] /\ k \in DOMAIN log'
        /\ DOMAIN log = 1 .. Len(log) /\ Len(log) \in Nat
    BY <1>1, <2>2, AppendIs
  <2>4. Turn(log, past.crossed, e.iter, e.step)
    <3>1. cli[c].call = "submit"
      BY <1>4 DEF OnceInv, PlacesFit, Fits, Submitting
    <3>2. QED
      BY <2>2, <3>1 DEF OrderInv, TurnsKept
  <2>5. ASSUME e.iter = 0 \/ ~past'.crossed
        PROVE  InTurn(log', Len(log) + 1)
    <3>1. Kept(past.crossed, e.iter) /\ DoneBefore(log, e.iter, IndexOf(e.step))
      BY <2>1, <2>4, <2>5 DEF Turn, Kept
    <3>2. ASSUME e.iter > 0
          PROVE  Finished(log, e.iter - 1)
      <4>1. e.iter \in 0 .. MaxIters /\ MaxIters \in Nat
        BY NativeAssumption DEF Events
      <4>2. e.iter - 1 \in 0 .. MaxIters /\ e.iter - 1 < e.iter /\ ~past.crossed
        BY <2>1, <2>5, <3>2, <4>1
      <4>3. QED
        BY <2>4, <4>2 DEF Turn, FinishedBefore, Kept
    <3>3. \A i : \A s \in StepIds : Committed(log, i, s) =>
            \E j \in DOMAIN log' : /\ log'[j].type = "StepCommitted" /\ log'[j].step = s
                                   /\ log'[j].iter = i /\ j < Len(log) + 1
      BY <2>3 DEF Committed
    <3>4. QED
      BY <2>3, <3>1, <3>2, <3>3 DEF DoneBefore, Finished
  <2>6. \A k \in DOMAIN log : InTurn(log, k) => InTurn(log', k)
    BY <2>3
  <2>7. QED
    BY <1>1, <1>2, <2>1, <2>3, <2>5, <2>6
<1>5. ASSUME NEW c \in Cli, StepOf(c)
      PROVE  CommitsFollowTheStrategy'
  <2>1. /\ Writes(c) /\ past'.crossed \in BOOLEAN
        /\ past.crossed => past'.crossed
    BY <1>1, <1>5, StepsWrite, CrossedStays
  <2>2. QED
    BY <1>3, <1>4, <1>5, <2>1
<1>6. CASE Stop
  <2>1. RowWrites /\ Writes(None) /\ past' = past
    BY <1>1, <1>6, StopWrites DEF Writes, Stop
  <2>2. QED
    BY <1>1, <1>3, <2>1
<1>7. CASE UNCHANGED vars
  BY <1>1, <1>7 DEF vars, OrderInv, CommitsFollowTheStrategy, Of
<1>8. QED
  BY <1>5, <1>6, <1>7, NextIsSuch DEF OnceInv

\* The inductive invariant of the order: it rests on the single commit.
LEMMA OrderInvariant == Spec => [](OnceInv /\ OrderInv)
<1>1. Init => OnceInv /\ OrderInv
  BY OnceInit, OrderInit
<1>2. OnceInv /\ OrderInv /\ [Next]_vars => OrderInv'
  <2>1. SUFFICES ASSUME OnceInv, OrderInv, [Next]_vars
                 PROVE  OrderInv'
    OBVIOUS
  <2>2. StatesReached' /\ TurnsKept' /\ ToldInTurn'
    BY <2>1, StatesKept, TurnsStay, ToldKept
  <2>3. Apart' /\ ToldOnce' /\ CommitsFollowTheStrategy'
    BY <2>1, ApartKept, ToldOnceKept, CommitsKept
  <2>4. QED
    BY <2>2, <2>3 DEF OrderInv
<1>3. OnceInv /\ [Next]_vars => OnceInv'
  BY TypesKept, PlacesKept, ViewsKept, GuardsKept, OnceKept, EndKept DEF OnceInv
<1>4. QED
  BY <1>1, <1>2, <1>3, PTL DEF Spec

\* Steps are committed in the order of the strategy, none left out: in the first iteration
\* whatever processes cross, in the later ones as long as none has (agent_native_state.py,
\* engine/advance_policy.py).
THEOREM CommitsInOrder == Spec => []CommitsFollowTheStrategy
<1>1. OrderInv => CommitsFollowTheStrategy
  BY DEF OrderInv
<1>2. QED
  BY <1>1, OrderInvariant, PTL

-----------------------------------------------------------------------------
(* What a process does with the state it holds                             *)

\* Where a process has yet to read the state, or to read it anew.
Away == {"idle", "lock", "prepare", "row", "load", "submit_load"}

Holding(me) == me.pc \notin Away

\* A process that has committed a step and not yet written the state after it.
Recorded(me) == me.pc \in Recording \/ Passing(me)

\* A process that has found no claim, or has taken it out of its state.
Unclaimed(me) ==
  \/ me.pc \in {"events", "plan", "passed"} \cup Telling
  \/ Through(me)
  \/ me.pc \in Writing /\ me.then \in {"events", "passed"}

Rests(c) ==
  /\ cli'[c].pc \in Away /\ UNCHANGED <<file, handed>>
  /\ cli[c].pc = "flush" => past'.cut

Loads(c) ==
  LET now == cli'[c] IN
  /\ cli[c].pc \in {"prepare", "load", "submit_load"} /\ file.kind # "torn"
  /\ now.st = Read(file) /\ UNCHANGED <<file, handed>>
  /\ \/ now.pc \in {"prepare_row", "refresh"}
     \/ now.pc = "write" /\ now.then = "refresh"
     \/ now.pc = "guard_events" /\ now.step = now.st.active.step

Walks(c) ==
  LET old == cli[c]  now == cli'[c] IN
  /\ Holding(old) /\ Holding(now) /\ old.pc # "flush" /\ now.pc \notin {"flush", "refresh"}
  /\ now.st = old.st /\ UNCHANGED <<file, handed>>
  /\ Unclaimed(now) => Unclaimed(old) \/ old.st.active = NoView
  /\ Bringing(now) => Bringing(old) /\ now.step = old.step
  /\ Recorded(now) => Recorded(old) \/ old.pc = "commit"
  /\ (now.pc = "write" /\ now.then = "return") => old.pc = "refresh" /\ ~Stale(old.st.active)

Updates(c) ==
  LET old == cli[c]  now == cli'[c] IN
  /\ Holding(old) /\ old.pc # "flush" /\ now.pc = "write" /\ UNCHANGED <<file, handed>>
  /\ \/ now.st = [old.st EXCEPT !.active = NoView] /\ now.then = "events"
     \/ /\ old.pc = "issue" /\ now.then = "return"
        /\ now.st = ClaimedState(old.st, old.step)
     \/ /\ old.pc = "advance" /\ old.st.iter + 1 < MaxIters /\ now.then = "row"
        /\ now.st = NextIterationState(old.st)
     \/ Unclaimed(old) /\ now.st = [old.st EXCEPT !.done = TRUE] /\ now.then = "return"
     \/ /\ old.pc \in {"after", "pass"} /\ now.then \in {"row", "passed"}
        /\ now.st = SubmittedState(old.st, old.step)

Begins(c) ==
  LET old == cli[c]  now == cli'[c] IN
  /\ old.pc = "write" /\ now.pc = "flush" /\ now.st = old.st /\ now.then = old.then
  /\ file'.kind \in {"empty", "torn"} /\ file'.st = file.st /\ handed' = handed

WritesOut(c) ==
  LET old == cli[c]  now == cli'[c] IN
  /\ old.pc = "flush" /\ file'.st = old.st
  /\ file'.kind = "state" \/ file.kind = "state"
  /\ \/ /\ now.pc = old.then /\ now.then = old.then /\ now.st = old.st /\ handed' = handed
        /\ old.then \in {"row", "refresh", "events", "passed"}
     \/ /\ now.pc = "idle" /\ old.then = "return"
        /\ handed' = handed \cup ({old.st.active} \ {NoView})

Answers(c) ==
  LET old == cli[c] IN
  /\ old.pc = "refresh" /\ cli'[c].pc = "idle" /\ file' = file
  /\ old.st.active # NoView /\ ~Stale(old.st.active)
  /\ handed' = handed \cup {old.st.active}

MovesOn(c) ==
  /\ past.cut => past'.cut
  /\ \/ Rests(c) \/ Loads(c) \/ Walks(c) \/ Updates(c)
     \/ Begins(c) \/ WritesOut(c) \/ Answers(c)

LEMMA StepsMoveOn ==
  ASSUME Types, PlacesFit, ViewsFit, LockHeld, NEW c \in Cli
  PROVE  (CallPrepare(c) \/ CallNext(c) \/ Run(c) \/ Crash(c)
            \/ \E view \in handed, passed \in BOOLEAN : CallSubmit(c, view, passed)) =>
           MovesOn(c)
<1> USE DEF Places, Preparing, Telling, Claiming, Closing, Writing, Guarding, Recording,
            Submitting, Away
<1>1. /\ cli \in [Cli -> Process] /\ cli[c] \in Process
      /\ file.st \in State /\ file \in [kind : Kinds, st : State]
      /\ past \in Pasts
  BY DEF Types
<1>2. /\ cli[c].pc \in Places /\ cli[c].then \in Places \cup {"return"}
      /\ cli[c].st \in State /\ Fits(cli[c])
  <2> HIDE DEF Places, Preparing, Telling, Claiming, Closing, Writing, Guarding, Recording,
               Submitting
  <2>1. QED
    BY <1>1, ProcessIs DEF PlacesFit
<1>3. Read(file) \in State
  BY <1>1, DefaultIs DEF Read
<1>4. cli[c].pc \in {"after", "pass"} => cli[c].step \in StepIds
  BY DEF PlacesFit, ViewsFit, Fits, Bringing, Passing
<1>5. ASSUME CallPrepare(c) PROVE MovesOn(c)
  <2>1. cli'[c].pc = "prepare" /\ UNCHANGED <<file, handed>> /\ cli[c].pc = "idle"
        /\ past'.cut = past.cut
    BY <1>1, <1>5 DEF CallPrepare, MayStart, Process
  <2>2. QED
    BY <2>1 DEF MovesOn, Rests
<1>6. ASSUME CallNext(c) PROVE MovesOn(c)
  <2>1. cli'[c].pc = "load" /\ UNCHANGED <<file, handed>> /\ cli[c].pc = "idle"
        /\ past'.cut = past.cut
    BY <1>1, <1>6 DEF CallNext, MayStart, Process
  <2>2. QED
    BY <2>1 DEF MovesOn, Rests
<1>7. ASSUME NEW view \in handed, NEW passed \in BOOLEAN, CallSubmit(c, view, passed)
      PROVE  MovesOn(c)
  <2>1. cli'[c].pc = "lock" /\ UNCHANGED <<file, handed>> /\ cli[c].pc = "idle"
        /\ past'.cut = past.cut
    BY <1>1, <1>7 DEF CallSubmit, MayStart, Process
  <2>2. QED
    BY <2>1 DEF MovesOn, Rests
<1>8. ASSUME BeginWrite(c) PROVE MovesOn(c)
  <2>1. Moved(c, "flush", cli[c].then, cli[c].st)
    BY <1>1, <1>2, <1>3, <1>4, <1>8, GoIs DEF BeginWrite
  <2>2. QED
    BY <1>1, <1>2, <1>8, <2>1 DEF Moved, Returned, BeginWrite, MovesOn, Begins
<1>9. ASSUME EndWrite(c) PROVE MovesOn(c)
  <2>1. \/ cli[c].then = "return" /\ Returned(c)
        \/ /\ cli[c].then \in {"row", "refresh", "events", "passed"}
           /\ Moved(c, cli[c].then, cli[c].then, cli[c].st)
    BY <1>1, <1>2, <1>3, <1>4, <1>9, GoIs, ReturnIs DEF EndWrite, Fits
  <2>2. QED
    BY <1>1, <1>2, <1>9, <2>1 DEF Moved, Returned, EndWrite, MovesOn, WritesOut
<1>10. ASSUME PrepareLoad(c) PROVE MovesOn(c)
  <2>1. \/ Returned(c)
        \/ file.kind # "torn" /\ Moved(c, "prepare_row", cli[c].then, Read(file))
    BY <1>1, <1>2, <1>3, <1>4, <1>10, GoWithIs, ReturnIs DEF PrepareLoad
  <2>2. QED
    BY <1>1, <1>2, <1>10, <2>1 DEF Moved, Returned, PrepareLoad, MovesOn, Rests, Loads
<1>11. ASSUME PrepareRow(c) PROVE MovesOn(c)
  <2>1. Returned(c) \/ Moved(c, "write", "row", cli[c].st)
    BY <1>1, <1>2, <1>3, <1>4, <1>11, WriteThenIs, ReturnIs DEF PrepareRow
  <2>2. QED
    BY <1>1, <1>2, <1>11, <2>1 DEF Moved, Returned, PrepareRow, MovesOn, Rests, Walks,
       Holding, Recorded, Unclaimed, Through, Passing, Bringing
<1>12. ASSUME ReadRow(c) PROVE MovesOn(c)
  <2>1. Returned(c) \/ Moved(c, "load", cli[c].then, cli[c].st)
    BY <1>1, <1>2, <1>3, <1>4, <1>12, GoIs, ReturnIs DEF ReadRow
  <2>2. QED
    BY <1>1, <1>2, <1>12, <2>1 DEF Moved, Returned, ReadRow, MovesOn, Rests
<1>13. ASSUME Load(c) PROVE MovesOn(c)
  <2>1. \/ Returned(c)
        \/ file.kind # "torn" /\ Moved(c, "refresh", cli[c].then, Read(file))
        \/ file.kind # "torn" /\ Moved(c, "write", "refresh", Read(file))
    BY <1>1, <1>2, <1>3, <1>4, <1>13, GoWithIs, WriteThenIs, ReturnIs DEF Load
  <2>2. QED
    BY <1>1, <1>2, <1>13, <2>1 DEF Moved, Returned, Load, MovesOn, Rests, Loads
<1>14. ASSUME Refresh(c) PROVE MovesOn(c)
  <2>1. \/ /\ cli[c].st.active = NoView /\ handed' = handed
           /\ Moved(c, "events", cli[c].then, cli[c].st)
        \/ /\ Moved(c, "write", "events", [cli[c].st EXCEPT !.active = NoView])
           /\ handed' = handed
        \/ /\ cli[c].st.active # NoView /\ ~Stale(cli[c].st.active) /\ Returned(c)
           /\ handed' = handed \cup {cli[c].st.active}
        \/ /\ ~Stale(cli[c].st.active) /\ Moved(c, "write", "return", cli[c].st)
           /\ handed' = handed
    BY <1>1, <1>2, <1>3, <1>4, <1>14, GoIs, WriteThenIs, ReturnIs, UnclaimedIs DEF Refresh
  <2>2. QED
    BY <1>1, <1>2, <1>14, <2>1 DEF Moved, Returned, Refresh, MovesOn, Updates, Answers,
       Walks, Holding, Recorded, Unclaimed, Through, Passing, Bringing
<1>15. ASSUME ReadEvents(c) PROVE MovesOn(c)
  <2>1. cli'[c].pc = "plan" /\ cli'[c].st = cli[c].st
    BY <1>1, <1>15 DEF ReadEvents, Process
  <2>2. QED
    BY <1>15, <2>1 DEF ReadEvents, MovesOn, Walks, Holding, Recorded, Unclaimed, Through,
       Passing, Bringing
<1>16. ASSUME Plan(c) PROVE MovesOn(c)
  <2>1. /\ cli'[c].st = cli[c].st
        /\ \/ cli'[c].pc = "start_find"
           \/ cli'[c].pc = "complete_find" /\ cli'[c].then = "advance"
    <3>1. CASE GoThen(c, "complete_find", "advance")
      <4>1. "complete_find" \in Places /\ "advance" \in Places \cup {"return"}
        OBVIOUS
      <4>2. Moved(c, "complete_find", "advance", cli[c].st)
        BY <1>1, <3>1, <4>1, GoThenIs
      <4>3. QED
        BY <4>2 DEF Moved
    <3>2. CASE ~GoThen(c, "complete_find", "advance")
      BY <1>1, <1>16, <3>2 DEF Plan, Process
    <3>3. QED
      BY <3>1, <3>2
  <2>2. QED
    BY <1>16, <2>1 DEF Plan, MovesOn, Walks, Holding, Recorded, Unclaimed, Through, Passing,
       Bringing
<1>17. ASSUME FindStarted(c) PROVE MovesOn(c)
  <2>1. \/ Moved(c, "pause", cli[c].then, cli[c].st)
        \/ Moved(c, "start", cli[c].then, cli[c].st)
    BY <1>1, <1>2, <1>3, <1>4, <1>17, GoIs DEF FindStarted
  <2>2. QED
    BY <1>1, <1>2, <1>17, <2>1 DEF Moved, Returned, FindStarted, MovesOn, Walks, Holding,
       Recorded, Unclaimed, Through, Passing, Bringing
<1>18. ASSUME StartIteration(c) PROVE MovesOn(c)
  <2>1. Moved(c, "pause", cli[c].then, cli[c].st)
    BY <1>1, <1>2, <1>3, <1>4, <1>18, GoIs DEF StartIteration
  <2>2. QED
    BY <1>1, <1>2, <1>18, <2>1 DEF Moved, Returned, StartIteration, MovesOn, Walks, Holding,
       Recorded, Unclaimed, Through, Passing, Bringing
<1>19. ASSUME PauseRow(c) PROVE MovesOn(c)
  <2>1. Returned(c) \/ Moved(c, "issue", cli[c].then, cli[c].st)
    BY <1>1, <1>2, <1>3, <1>4, <1>19, GoIs, ReturnIs DEF PauseRow
  <2>2. QED
    BY <1>1, <1>2, <1>19, <2>1 DEF Moved, Returned, PauseRow, MovesOn, Rests, Walks, Holding,
       Recorded, Unclaimed, Through, Passing, Bringing
<1>20. ASSUME Issue(c) PROVE MovesOn(c)
  <2>1. Moved(c, "write", "return", ClaimedState(cli[c].st, cli[c].step))
    BY <1>1, <1>2, <1>3, <1>4, <1>20, WriteThenIs, ClaimedIs DEF Issue, Fits
  <2>2. QED
    BY <1>1, <1>2, <1>20, <2>1 DEF Moved, Returned, Issue, MovesOn, Updates, Holding
<1>21. ASSUME FindCompleted(c) PROVE MovesOn(c)
  <2>1. \/ Moved(c, "complete", cli[c].then, cli[c].st)
        \/ /\ cli[c].then \in {"advance", "pass"}
           /\ Moved(c, cli[c].then, cli[c].then, cli[c].st)
    BY <1>1, <1>2, <1>3, <1>4, <1>21, GoIs DEF FindCompleted, Fits
  <2>2. QED
    BY <1>1, <1>2, <1>21, <2>1 DEF Moved, Returned, FindCompleted, MovesOn, Walks, Holding,
       Recorded, Unclaimed, Through, Passing, Bringing
<1>22. ASSUME CompleteIteration(c) PROVE MovesOn(c)
  <2>1. /\ cli[c].then \in {"advance", "pass"}
        /\ Moved(c, cli[c].then, cli[c].then, cli[c].st)
    BY <1>1, <1>2, <1>3, <1>4, <1>22, GoIs DEF CompleteIteration, Fits
  <2>2. QED
    BY <1>1, <1>2, <1>22, <2>1 DEF Moved, Returned, CompleteIteration, MovesOn, Walks,
       Holding, Recorded, Unclaimed, Through, Passing, Bringing
<1>23. ASSUME Advance(c) PROVE MovesOn(c)
  <2>1. \/ Moved(c, "exhaust", cli[c].then, cli[c].st)
        \/ /\ cli[c].st.iter + 1 < MaxIters
           /\ Moved(c, "write", "row", NextIterationState(cli[c].st))
    BY <1>1, <1>2, <1>3, <1>4, <1>23, GoIs, WriteThenIs, NextIterationIs, StateIs,
       NativeAssumption DEF Advance
  <2>2. QED
    BY <1>1, <1>2, <1>23, <2>1 DEF Moved, Returned, Advance, MovesOn, Updates, Walks,
       Holding, Recorded, Unclaimed, Through, Passing, Bringing
<1>24. ASSUME Exhaust(c) PROVE MovesOn(c)
  <2>0. past.cut => past'.cut
    BY <1>1, <1>24, ExhaustFaults DEF Faults
  <2>1. \/ Returned(c)
        \/ Moved(c, "write", "return", [cli[c].st EXCEPT !.done = TRUE])
    BY <1>1, <1>2, <1>3, <1>4, <1>24, WriteThenIs, ReturnIs, DoneIs DEF Exhaust
  <2>2. QED
    BY <1>1, <1>2, <1>24, <2>0, <2>1 DEF Moved, Returned, Exhaust, MovesOn, Rests, Updates,
       Holding, Unclaimed, Through
<1>25. ASSUME Lock(c) PROVE MovesOn(c)
  <2>1. Moved(c, "submit_load", cli[c].then, cli[c].st)
    BY <1>1, <1>2, <1>3, <1>4, <1>25, GoIs DEF Lock
  <2>2. QED
    BY <1>1, <1>2, <1>25, <2>1 DEF Moved, Returned, Lock, MovesOn, Rests
<1>26. ASSUME SubmitLoad(c) PROVE MovesOn(c)
  <2>1. CASE Return(c)
    BY <1>1, <1>26, <2>1, ReturnIs DEF SubmitLoad, Returned, MovesOn, Rests
  <2>2. CASE ~Return(c)
    <3>1. /\ file.kind # "torn" /\ cli'[c].pc = "guard_events" /\ cli'[c].st = Read(file)
          /\ cli'[c].step = cli[c].view.step /\ Read(file).active.step = cli[c].view.step
      BY <1>1, <1>26, <2>2 DEF SubmitLoad, Process
    <3>2. QED
      BY <1>26, <3>1 DEF SubmitLoad, MovesOn, Loads
  <2>3. QED
    BY <2>1, <2>2
<1>27. ASSUME GuardEvents(c) PROVE MovesOn(c)
  <2>1. cli'[c].pc = "guard" /\ cli'[c].st = cli[c].st /\ cli'[c].step = cli[c].step
    BY <1>1, <1>27 DEF GuardEvents, Process
  <2>2. QED
    BY <1>27, <2>1 DEF GuardEvents, MovesOn, Walks, Holding, Recorded, Unclaimed, Through,
       Passing, Bringing
<1>28. ASSUME Guard(c) PROVE MovesOn(c)
  <2>1. \/ Returned(c)
        \/ /\ cli[c].then \in {"guard_events", "commit"}
           /\ Moved(c, cli[c].then, "commit", cli[c].st)
    BY <1>1, <1>2, <1>3, <1>4, <1>28, GoThenIs, ReturnIs DEF Guard, Fits
  <2>2. QED
    BY <1>1, <1>2, <1>28, <2>1 DEF Moved, Returned, Guard, MovesOn, Rests, Walks, Holding,
       Recorded, Unclaimed, Through, Passing, Bringing
<1>29. ASSUME Commit(c) PROVE MovesOn(c)
  <2>1. Moved(c, "evidence", cli[c].then, cli[c].st)
    BY <1>1, <1>2, <1>3, <1>4, <1>29, GoIs DEF Commit
  <2>2. QED
    BY <1>1, <1>2, <1>29, <2>1 DEF Moved, Returned, Commit, MovesOn, Walks, Holding,
       Recorded, Unclaimed, Through, Passing, Bringing
<1>30. ASSUME RecordEvidence(c) PROVE MovesOn(c)
  <2>1. CASE Refused(c)
    <3>1. Returned(c) /\ (past.cut => past'.cut)
      BY <1>1, <2>1, RefusedIs, ReturnIs DEF Faults
    <3>2. QED
      BY <1>30, <3>1 DEF RecordEvidence, Returned, MovesOn, Rests
  <2>2. CASE ~Refused(c)
    <3>1. Moved(c, "after", cli[c].then, cli[c].st)
      BY <1>1, <1>2, <1>3, <1>4, <1>30, <2>2, GoIs DEF RecordEvidence
    <3>2. QED
      BY <1>1, <1>2, <1>30, <2>2, <3>1 DEF Moved, RecordEvidence, MovesOn, Walks, Holding,
         Recorded, Unclaimed, Through, Passing, Bringing
  <2>3. QED
    BY <2>1, <2>2
<1>31. ASSUME WorkspaceBreach(c) PROVE MovesOn(c)
  <2>1. Returned(c)
    BY <1>1, <1>2, <1>3, <1>4, <1>31, ReturnIs DEF WorkspaceBreach
  <2>2. QED
    BY <1>1, <1>2, <1>31, <2>1 DEF Moved, Returned, WorkspaceBreach, MovesOn, Rests
<1>32. ASSUME AfterCommit(c) PROVE MovesOn(c)
  <2>1. \/ Moved(c, "complete_find", "pass", cli[c].st)
        \/ Moved(c, "write", "row", SubmittedState(cli[c].st, cli[c].step))
    BY <1>1, <1>2, <1>3, <1>4, <1>32, GoThenIs, WriteThenIs, SubmittedIs DEF AfterCommit
  <2>2. QED
    BY <1>1, <1>2, <1>32, <2>1 DEF Moved, Returned, AfterCommit, MovesOn, Updates, Walks,
       Holding, Recorded, Unclaimed, Through, Passing, Bringing
<1>33. ASSUME Pass(c) PROVE MovesOn(c)
  <2>0. (past.cut => past'.cut) /\ (Refused(c) => Return(c))
    BY <1>1, <1>33, RefusedIs DEF Pass, Faults
  <2>1. \/ Returned(c)
        \/ Moved(c, "write", "passed", SubmittedState(cli[c].st, cli[c].step))
    BY <1>1, <1>2, <1>3, <1>4, <1>33, <2>0, WriteThenIs, ReturnIs, SubmittedIs DEF Pass
  <2>2. QED
    BY <1>1, <1>2, <1>33, <2>0, <2>1 DEF Moved, Returned, Pass, MovesOn, Rests, Updates,
       Holding
<1>34. ASSUME Passed(c) PROVE MovesOn(c)
  <2>1. Moved(c, "write", "return", [cli[c].st EXCEPT !.done = TRUE])
    BY <1>1, <1>2, <1>3, <1>4, <1>34, WriteThenIs, DoneIs DEF Passed
  <2>2. QED
    BY <1>1, <1>2, <1>34, <2>1 DEF Moved, Returned, Passed, MovesOn, Updates, Holding, Unclaimed
<1>35. ASSUME Crash(c) PROVE MovesOn(c)
  <2>1. Returned(c) /\ (cli[c].pc = "flush" \/ past.cut => past'.cut)
    BY <1>1, <1>35, ReturnIs, CutIs DEF Crash, Faults
  <2>2. QED
    BY <1>35, <2>1 DEF Crash, Returned, MovesOn, Rests
<1>36. QED
  BY <1>5, <1>6, <1>7, <1>8, <1>9, <1>10, <1>11, <1>12, <1>13, <1>14, <1>15, <1>16, <1>17,
     <1>18, <1>19, <1>20, <1>21, <1>22, <1>23, <1>24, <1>25, <1>26, <1>27, <1>28, <1>29,
     <1>30, <1>31, <1>32, <1>33, <1>34, <1>35
     DEF Run, Claim, FinishIteration, Submit

LEMMA NextMoves ==
  ASSUME OnceInv, [Next]_vars
  PROVE  (\E c \in Cli : StepOf(c) /\ MovesOn(c)) \/ Stop \/ UNCHANGED vars
BY StepsAreSuch, StepsMoveOn DEF OnceInv, Next

-----------------------------------------------------------------------------
(* The resume point                                                        *)

\* A state is no further back than another.
NotBehind(st, old) ==
  \/ st.iter > old.iter
  \/ st.iter = old.iter /\ st.index >= old.index

Unbroken == ~past.crossed /\ ~past.cut

\* While no call has crossed another and no write was cut short, state.json is broken off
\* only while somebody writes it, nobody holds a state that is behind it, and a step just
\* committed is not behind the state that will be told of it.
ResumeInv ==
  Unbroken =>
    /\ file.kind \in {"empty", "torn"} <=> \E c \in Cli : cli[c].pc = "flush"
    /\ file.kind = "absent" => file.st = DefaultState
    /\ \A c \in Cli : LET me == cli[c] IN
         /\ Holding(me) => NotBehind(me.st, file.st)
         /\ Recorded(me) => IndexOf(me.step) >= me.st.index

LEMMA StatesAreNumbers ==
  ASSUME NEW st \in State
  PROVE  st.iter \in Nat /\ st.index \in Nat
<1>1. MaxIters \in Nat /\ Len(Strategy) \in Nat
  BY NativeAssumption, StrategyAssumption
<1>2. QED
  BY <1>1, StateIs

LEMMA BehindOrNot ==
  ASSUME NEW r \in State, NEW s \in State, NEW t \in State
  PROVE  /\ NotBehind(r, r)
         /\ NotBehind(r, s) /\ NotBehind(s, t) => NotBehind(r, t)
BY StatesAreNumbers DEF NotBehind

\* Unbroken calls were so before.
LEMMA UnbrokenBefore ==
  ASSUME NEW c \in Cli, StepOf(c), MovesOn(c), Unbroken'
  PROVE  Unbroken
BY DEF StepOf, Calls, MovesOn, Unbroken

\* A process that reads the file finds what was written last.
LEMMA ReadsTheFile ==
  ASSUME OnceInv, OrderInv, ResumeInv, Unbroken, NEW c \in Cli, Loads(c)
  PROVE  Read(file) = file.st
<1>1. cli[c].pc \in {"prepare", "load", "submit_load"}
  BY DEF Loads
<1>2. \A d \in Cli : cli[d].pc # "flush"
  BY <1>1, OthersWait DEF OrderInv, Unbroken
<1>3. file.kind \in Kinds
  BY DEF OnceInv, Types
<1>4. file.kind \in {"absent", "state"} /\ (file.kind = "absent" => file.st = DefaultState)
  BY <1>2, <1>3 DEF ResumeInv, Kinds
<1>5. QED
  BY <1>4 DEF Read

\* A step that is committed is not behind the state of its submission.
LEMMA CommitIsAhead ==
  ASSUME OnceInv, OrderInv, Unbroken, NEW c \in Cli, cli[c].pc = "commit"
  PROVE  IndexOf(cli[c].step) >= cli[c].st.index
<1>1. /\ Types /\ cli[c].call = "submit" /\ cli[c].step = cli[c].view.step
      /\ cli[c].st.iter = cli[c].view.iter
  BY DEF OnceInv, PlacesFit, Fits, Bringing, Submitting
<1>2. cli[c].step \in StepIds /\ ~Committed(log, cli[c].st.iter, cli[c].step)
  BY <1>1 DEF OnceInv, ViewsFit, GuardsHold
<1>3. DoneBefore(log, cli[c].st.iter, cli[c].st.index)
  BY DEF OrderInv, StatesReached, Reached, Kept, Unbroken
<1>4. IndexOf(cli[c].step) \in Nat /\ cli[c].st.index \in Nat
  BY <1>1, <1>2, IndexIsPlace, StatesAreNumbers, ProcessIs, StrategyAssumption DEF Types
<1>5. QED
  BY <1>2, <1>3, <1>4 DEF DoneBefore

\* What a process makes of its state is not behind it.
LEMMA UpdatesGoOn ==
  ASSUME OnceInv, ResumeInv, Unbroken, NEW c \in Cli, Updates(c)
  PROVE  NotBehind(cli'[c].st, cli[c].st)
<1>1. /\ cli[c].st \in State /\ cli[c].st.iter \in Nat /\ cli[c].st.index \in Nat
      /\ Fits(cli[c])
  BY ProcessIs, StatesAreNumbers DEF OnceInv, Types, PlacesFit
<1>2. CASE cli'[c].st = [cli[c].st EXCEPT !.active = NoView]
  BY <1>1, <1>2, UnclaimedIs DEF NotBehind
<1>3. CASE cli[c].pc = "issue" /\ cli'[c].st = ClaimedState(cli[c].st, cli[c].step)
  <2>1. cli[c].step \in StepIds
    BY <1>1, <1>3 DEF Fits, Telling
  <2>2. QED
    BY <1>1, <1>3, <2>1, ClaimedIs DEF NotBehind
<1>4. CASE cli[c].st.iter + 1 < MaxIters /\ cli'[c].st = NextIterationState(cli[c].st)
  BY <1>1, <1>4, NextIterationIs DEF NotBehind
<1>5. CASE cli'[c].st = [cli[c].st EXCEPT !.done = TRUE]
  BY <1>1, <1>5, DoneIs DEF NotBehind
<1>6. CASE /\ cli[c].pc \in {"after", "pass"}
           /\ cli'[c].st = SubmittedState(cli[c].st, cli[c].step)
  <2>1. /\ cli[c].step \in StepIds /\ IndexOf(cli[c].step) >= cli[c].st.index
    BY <1>1, <1>6 DEF OnceInv, ViewsFit, Fits, Bringing, Passing, Recording, Submitting,
       Recorded, ResumeInv
  <2>2. IndexOf(cli[c].step) \in Nat
    BY <2>1, IndexIsPlace, StrategyAssumption
  <2>3. QED
    BY <1>1, <1>6, <2>1, <2>2, SubmittedIs DEF NotBehind
<1>7. QED
  BY <1>2, <1>3, <1>4, <1>5, <1>6 DEF Updates

\* The file keeps its state, or is given that of a process that did not fall behind.
LEMMA FileGoesOn ==
  ASSUME OnceInv, ResumeInv, Unbroken, NEW c \in Cli, MovesOn(c)
  PROVE  /\ file'.st = file.st \/ (WritesOut(c) /\ file'.st = cli[c].st)
         /\ NotBehind(file'.st, file.st)
<1>1. file.st \in State /\ cli[c].st \in State
  BY ProcessIs DEF OnceInv, Types
<1>2. file'.st = file.st \/ (WritesOut(c) /\ file'.st = cli[c].st)
  BY DEF MovesOn, Rests, Loads, Walks, Updates, Begins, WritesOut, Answers
<1>3. WritesOut(c) => NotBehind(cli[c].st, file.st)
  BY DEF WritesOut, ResumeInv, Holding, Away
<1>4. QED
  BY <1>1, <1>2, <1>3, BehindOrNot

LEMMA ResumeKept ==
  ASSUME OnceInv, OrderInv, ResumeInv, [Next]_vars
  PROVE  ResumeInv'
<1>1. ASSUME NEW c \in Cli, StepOf(c), MovesOn(c)
      PROVE  ResumeInv'
  <2>1. SUFFICES ASSUME Unbroken'
                 PROVE  ResumeInv'
    BY DEF ResumeInv
  <2>2. Unbroken /\ Apart /\ ~past.crossed
    BY <1>1, <2>1, UnbrokenBefore DEF OrderInv, Unbroken
  <2>3. /\ file.st \in State /\ cli[c].st \in State /\ cli'[c].st \in State
        /\ \A d \in Cli : d # c => cli'[d] = cli[d]
    BY <1>1, ProcessIs DEF OnceInv, Types, StepOf
  <2>4. /\ file.kind \in {"empty", "torn"} <=> \E d \in Cli : cli[d].pc = "flush"
        /\ file.kind = "absent" => file.st = DefaultState
    BY <2>2 DEF ResumeInv
  <2>5. ASSUME NEW d \in Cli, Holding(cli[d])
        PROVE  NotBehind(cli[d].st, file.st)
    BY <2>2, <2>5 DEF ResumeInv
  <2>6. ASSUME NEW d \in Cli, Recorded(cli[d])
        PROVE  IndexOf(cli[d].step) >= cli[d].st.index
    BY <2>2, <2>6 DEF ResumeInv
  <2>7. ASSUME WritesOut(c), NEW d \in Cli, d # c
        PROVE  ~Holding(cli[d]) /\ cli[d].pc # "flush"
    <3>1. cli[d].pc \in {"idle", "lock"}
      BY <2>2, <2>7, OthersWait DEF WritesOut
    <3>2. QED
      BY <3>1 DEF Holding, Away
  <2>8. /\ file'.kind \in {"empty", "torn"} <=> \E d \in Cli : cli'[d].pc = "flush"
        /\ file'.kind = "absent" => file'.st = DefaultState
    <3>1. CASE Rests(c) \/ Loads(c) \/ Walks(c) \/ Updates(c) \/ Answers(c)
      <4>1. file' = file /\ cli[c].pc # "flush" /\ cli'[c].pc # "flush"
        BY <2>1, <3>1 DEF Rests, Loads, Walks, Updates, Answers, Away, Unbroken
      <4>2. QED
        BY <2>3, <2>4, <4>1
    <3>2. CASE Begins(c)
      BY <3>2 DEF Begins
    <3>3. CASE WritesOut(c)
      <4>1. file'.kind = "state" /\ cli'[c].pc # "flush"
        BY <2>4, <3>3 DEF WritesOut
      <4>2. QED
        BY <2>3, <2>7, <3>3, <4>1
    <3>4. QED
      BY <1>1, <3>1, <3>2, <3>3 DEF MovesOn
  <2>9. ASSUME NEW d \in Cli
        PROVE  /\ Holding(cli'[d]) => NotBehind(cli'[d].st, file'.st)
               /\ Recorded(cli'[d]) => IndexOf(cli'[d].step) >= cli'[d].st.index
    <3>1. CASE d # c
      BY <1>1, <2>2, <2>3, <2>5, <2>6, <2>7, <3>1, FileGoesOn
    <3>2. CASE Rests(c) \/ Answers(c)
      BY <2>3, <2>5, <2>6, <3>1, <3>2 DEF Rests, Answers, Holding, Away, Recorded, Recording,
         Passing, Closing
    <3>3. CASE Loads(c)
      <4>1. cli'[c].st = file.st /\ file' = file
        BY <2>2, <3>3, ReadsTheFile DEF Loads
      <4>2. ~Recorded(cli'[c])
        BY <3>3 DEF Loads, Recorded, Recording, Passing, Closing
      <4>3. QED
        BY <2>3, <3>1, <4>1, <4>2, BehindOrNot
    <3>4. CASE Walks(c)
      <4>1. cli'[c].st = cli[c].st /\ file' = file /\ Holding(cli[c])
        BY <3>4 DEF Walks
      <4>2. ASSUME Recorded(cli'[c])
            PROVE  IndexOf(cli'[c].step) >= cli'[c].st.index
        <5>1. cli'[c].step = cli[c].step /\ (Recorded(cli[c]) \/ cli[c].pc = "commit")
          BY <3>4, <4>2 DEF Walks, Recorded, Bringing
        <5>2. QED
          BY <2>2, <2>6, <4>1, <5>1, CommitIsAhead
      <4>3. QED
        BY <2>5, <3>1, <4>1, <4>2
    <3>5. CASE Updates(c)
      <4>1. NotBehind(cli'[c].st, cli[c].st) /\ NotBehind(cli[c].st, file.st)
        BY <2>2, <2>5, <3>5, UpdatesGoOn DEF Updates
      <4>2. file' = file /\ ~Recorded(cli'[c])
        BY <3>5 DEF Updates, Recorded, Recording, Passing, Closing
      <4>3. QED
        BY <2>3, <3>1, <4>1, <4>2, BehindOrNot
    <3>6. CASE Begins(c)
      <4>1. /\ Holding(cli[c]) /\ cli'[c].st = cli[c].st /\ file'.st = file.st
            /\ ~Recorded(cli'[c])
        BY <3>6 DEF Begins, Holding, Away, Recorded, Recording, Passing, Closing
      <4>2. QED
        BY <2>5, <3>1, <4>1
    <3>7. CASE WritesOut(c)
      <4>1. Holding(cli'[c]) => cli'[c].st = file'.st
        BY <3>7 DEF WritesOut, Holding, Away
      <4>2. ~Recorded(cli'[c])
        BY <3>7 DEF WritesOut, Recorded, Recording, Passing, Closing
      <4>3. QED
        BY <2>3, <3>1, <4>1, <4>2, BehindOrNot
    <3>8. QED
      BY <1>1, <3>1, <3>2, <3>3, <3>4, <3>5, <3>6, <3>7 DEF MovesOn
  <2>10. QED
    BY <2>8, <2>9 DEF ResumeInv
<1>2. CASE Stop
  BY <1>2 DEF Stop, ResumeInv, Unbroken
<1>3. CASE UNCHANGED vars
  BY <1>3 DEF vars, ResumeInv, Unbroken
<1>4. QED
  BY <1>1, <1>2, <1>3, NextMoves

LEMMA ResumeInit ==
  ASSUME Init
  PROVE  ResumeInv
BY IdleIs DEF Init, ResumeInv, Holding, Away, Recorded, Recording, Passing, Closing

LEMMA ResumeInvariant == Spec => [](OnceInv /\ OrderInv /\ ResumeInv)
<1>1. Init => ResumeInv
  BY ResumeInit
<1>2. OnceInv /\ OrderInv /\ ResumeInv /\ [Next]_vars => ResumeInv'
  BY ResumeKept
<1>3. QED
  BY <1>1, <1>2, OrderInvariant, PTL DEF Spec

\* No write of state.json takes the run back to an earlier step or iteration, as long as
\* no call has crossed another and no write was cut short (agent_native_state.py).
THEOREM ResumePointsGoOn == Spec => ResumePointNeverGoesBack
<1>1. OnceInv /\ ResumeInv /\ [Next]_vars =>
        [\/ past.crossed \/ past.cut
         \/ file'.st.iter > file.st.iter
         \/ file'.st.iter = file.st.iter /\ file'.st.index >= file.st.index]_file
  <2>1. SUFFICES ASSUME OnceInv, ResumeInv, [Next]_vars, Unbroken, file' # file
                 PROVE  NotBehind(file'.st, file.st)
    BY DEF Unbroken, NotBehind
  <2>2. QED
    BY <2>1, NextMoves, FileGoesOn DEF Stop, vars
<1>2. QED
  BY <1>1, ResumeInvariant, PTL DEF Spec, ResumePointNeverGoesBack

-----------------------------------------------------------------------------
(* The inputs of a parallel group                                          *)

\* The claim of a state is the one its snapshot was taken for.
ActiveFits(st) ==
  st.active # NoView =>
    st.snapshot = IF GroupOf[st.active.step] = NoGroup THEN DefaultState.snapshot
                  ELSE [group |-> GroupOf[st.active.step], iter |-> st.active.iter,
                        inputs |-> st.active.inputs]

\* A view of a group that has a step to do, and the snapshot it was taken from.
OpenGroup(v) ==
  /\ GroupOf[v.step] # NoGroup
  /\ \E s \in GroupMates(v.step) : ~Committed(log, v.iter, s)

SnapshotOf(v) == [group |-> GroupOf[v.step], iter |-> v.iter, inputs |-> v.inputs]

\* Whoever is about to hand out a claim, hands out one that is not done; whoever has found
\* none, has none; who brings a result, brings that of the claim it has read.
Returning(me) == me.pc \in Writing /\ me.then = "return"

Knows(me) ==
  /\ me.pc = "refresh" => me.st = file.st
  /\ Unclaimed(me) => me.st.active = NoView
  /\ (Returning(me) /\ me.st.active # NoView) =>
       ~Committed(log, me.st.active.iter, me.st.active.step)
  /\ Bringing(me) => me.st.active.step = me.step

SameInputs(v, w) ==
  (v.iter = w.iter /\ GroupOf[v.step] = GroupOf[w.step] /\ GroupOf[v.step] # NoGroup) =>
    v.inputs = w.inputs

\* Until the last step of a group is committed, the snapshot its views were taken from is
\* in the file and in every state that a process holds.
SnapshotsStay ==
  \A v \in handed : OpenGroup(v) =>
    /\ file.st.snapshot = SnapshotOf(v)
    /\ \A c \in Cli : Holding(cli[c]) => cli[c].st.snapshot = SnapshotOf(v)

GroupInv ==
  /\ ActiveFits(file.st) /\ \A c \in Cli : ActiveFits(cli[c].st)
  /\ Unbroken =>
       /\ \A v \in handed : v.iter <= file.st.iter
       /\ SnapshotsStay
       /\ \A c \in Cli : Knows(cli[c])
       /\ \A v, w \in handed : SameInputs(v, w)

LEMMA SnapshotIsRecord ==
  ASSUME NEW st \in State
  PROVE  st.snapshot = [group |-> st.snapshot.group, iter |-> st.snapshot.iter,
                        inputs |-> st.snapshot.inputs]
<1> DEFINE Taken == [group : {GroupOf[s] : s \in StepIds} \cup {NoGroup},
                         iter : Nat, inputs : SUBSET StepIds]
<1>1. st.snapshot \in Taken
  BY DEF State
<1>2. \A r \in Taken : r = [group |-> r.group, iter |-> r.iter, inputs |-> r.inputs]
  OBVIOUS
<1> HIDE DEF Taken
<1>3. QED
  BY <1>1, <1>2

\* What a claim makes of the state: the snapshot is kept or taken anew.
LEMMA ClaimTakesSnapshot ==
  ASSUME NEW st \in State, NEW step \in StepIds
  PROVE  LET now == ClaimedState(st, step) IN
         /\ now.snapshot = SnapshotFor(st, step)
         /\ now.active = [step |-> step, iter |-> st.iter,
                          inputs |-> IF GroupOf[step] = NoGroup THEN st.results
                                     ELSE SnapshotFor(st, step).inputs]
<1> DEFINE snapshot == SnapshotFor(st, step)
           active == [step |-> step, iter |-> st.iter,
                      inputs |-> IF GroupOf[step] = NoGroup THEN st.results
                                 ELSE snapshot.inputs]
<1>1. ClaimedState(st, step) = [[st EXCEPT !.snapshot = snapshot] EXCEPT !.active = active]
  BY DEF ClaimedState
<1> HIDE DEF snapshot, active
<1>2. QED
  BY <1>1 DEF State, snapshot, active

LEMMA ClaimFits ==
  ASSUME NEW st \in State, NEW step \in StepIds
  PROVE  ActiveFits(ClaimedState(st, step))
<1> DEFINE snapshot == SnapshotFor(st, step)
           now == ClaimedState(st, step)
<1>1. now.snapshot = snapshot /\ now.active.step = step /\ now.active.iter = st.iter
      /\ (GroupOf[step] # NoGroup => now.active.inputs = snapshot.inputs)
  <2>1. now.snapshot = snapshot
    BY ClaimTakesSnapshot
  <2>2. PICK inputs :
          /\ now.active = [step |-> step, iter |-> st.iter, inputs |-> inputs]
          /\ GroupOf[step] # NoGroup => inputs = snapshot.inputs
    BY ClaimTakesSnapshot
  <2> HIDE DEF now, snapshot
  <2>3. QED
    BY <2>1, <2>2
<1>2. CASE GroupOf[step] = NoGroup
  BY <1>1, <1>2 DEF SnapshotFor, ActiveFits
<1>3. CASE GroupOf[step] # NoGroup
  <2>1. snapshot = [group |-> GroupOf[step], iter |-> st.iter, inputs |-> snapshot.inputs]
    <3>1. CASE st.snapshot.group = GroupOf[step] /\ st.snapshot.iter = st.iter
      BY <1>3, <3>1, SnapshotIsRecord DEF SnapshotFor
    <3>2. CASE ~(st.snapshot.group = GroupOf[step] /\ st.snapshot.iter = st.iter)
      BY <1>3, <3>2 DEF SnapshotFor
    <3>3. QED
      BY <3>1, <3>2
  <2> HIDE DEF snapshot, now
  <2>2. QED
    BY <1>1, <1>3, <2>1 DEF ActiveFits, now
<1>4. QED
  BY <1>2, <1>3

\* Every state is one whose claim fits its snapshot.
LEMMA ActiveFitsKept ==
  ASSUME OnceInv, GroupInv, NEW c \in Cli, StepOf(c)
  PROVE  ActiveFits(file'.st) /\ \A d \in Cli : ActiveFits(cli'[d].st)
<1>1. /\ file.st \in State /\ cli[c].st \in State /\ Carries(c)
      /\ \A d \in Cli : d # c => cli'[d] = cli[d]
  BY ProcessIs DEF OnceInv, Types, StepOf
<1>2. ActiveFits(file.st) /\ \A d \in Cli : ActiveFits(cli[d].st)
  BY DEF GroupInv
<1>3. ActiveFits(DefaultState)
  BY DefaultIs DEF ActiveFits
<1>4. ActiveFits(cli'[c].st)
  <2>1. CASE cli'[c].st \in {cli[c].st, Read(file), DefaultState}
    BY <1>2, <1>3, <2>1 DEF Read
  <2>2. CASE cli'[c].st = [cli[c].st EXCEPT !.active = NoView]
    BY <1>1, <2>2, UnclaimedIs DEF ActiveFits
  <2>3. CASE cli'[c].st = [cli[c].st EXCEPT !.done = TRUE]
    <3>1. cli'[c].st.active = cli[c].st.active /\ cli'[c].st.snapshot = cli[c].st.snapshot
      BY <1>1, <2>3 DEF State
    <3>2. QED
      BY <1>2, <3>1 DEF ActiveFits
  <2>4. CASE Issue(c) /\ cli'[c].st = ClaimedState(cli[c].st, cli[c].step)
    <3>1. cli[c].step \in StepIds
      BY <2>4 DEF OnceInv, PlacesFit, Fits, Issue, Telling
    <3>2. QED
      BY <1>1, <2>4, <3>1, ClaimFits
  <2>5. CASE cli[c].st.iter + 1 < MaxIters /\ cli'[c].st = NextIterationState(cli[c].st)
    BY <1>1, <2>5, NextIterationIs DEF ActiveFits
  <2>6. CASE /\ cli[c].pc = "after" \/ cli[c].pc = "pass"
             /\ cli'[c].st = SubmittedState(cli[c].st, cli[c].step)
    <3>1. cli[c].step \in StepIds
      BY <2>6 DEF OnceInv, PlacesFit, Fits, ViewsFit, Bringing, Passing, Recording, Submitting
    <3>2. QED
      BY <1>1, <2>6, <3>1, SubmittedIs DEF ActiveFits
  <2>7. QED
    BY <1>1, <2>1, <2>2, <2>3, <2>4, <2>5, <2>6 DEF Carries
<1>5. QED
  BY <1>1, <1>2, <1>4 DEF Carries

\* Steps between two steps of a group are of the group.
LEMMA BetweenMates ==
  ASSUME NEW a \in StepIds, NEW s \in StepIds, NEW b \in StepIds,
         IndexOf(a) <= IndexOf(s), IndexOf(s) <= IndexOf(b),
         GroupOf[a] = GroupOf[b], GroupOf[a] # NoGroup
  PROVE  GroupOf[s] = GroupOf[a]
<1>1. DOMAIN Strategy = 1 .. Len(Strategy)
  BY StrategyAssumption
<1>2. \A r \in {a, s, b} : IndexOf(r) \in DOMAIN Strategy /\ Strategy[IndexOf(r)] = r
  BY <1>1, IndexIsPlace
<1>3. QED
  BY <1>2, GroupsAssumption

\* A group that is begun and not done is that of the step whose turn it is, in the
\* iteration the states have come to.
LEMMA OpenGroupsTurn ==
  ASSUME OnceInv, OrderInv, Unbroken, NEW v \in handed, OpenGroup(v),
         NEW step \in StepIds, Turn(log, past.crossed, v.iter, step),
         ~Committed(log, v.iter, step)
  PROVE  GroupOf[step] = GroupOf[v.step]
<1>1. v.step \in StepIds /\ Turn(log, past.crossed, v.iter, v.step)
  BY DEF OnceInv, ViewsFit, OrderInv, TurnsKept
<1>2. PICK s \in StepIds : GroupOf[s] = GroupOf[v.step] /\ ~Committed(log, v.iter, s)
  BY DEF OpenGroup, GroupMates
<1>3. DoneBefore(log, v.iter, IndexOf(step)) /\ DoneBefore(log, v.iter, IndexOf(v.step))
  BY <1>1 DEF Turn, Kept, Unbroken
<1>4. IndexOf(step) \in Nat /\ IndexOf(v.step) \in Nat /\ IndexOf(s) \in Nat
  BY <1>1, <1>2, IndexIsPlace, StrategyAssumption
<1>5. IndexOf(v.step) <= IndexOf(step) /\ IndexOf(step) <= IndexOf(s)
  BY <1>1, <1>2, <1>3, <1>4 DEF DoneBefore
<1>6. QED
  BY <1>1, <1>2, <1>5, BetweenMates DEF OpenGroup

LEMMA OpenGroupsIteration ==
  ASSUME OnceInv, OrderInv, ResumeInv, GroupInv, Unbroken, NEW v \in handed, OpenGroup(v),
         NEW c \in Cli, Holding(cli[c])
  PROVE  v.iter = cli[c].st.iter
<1>1. PICK s \in StepIds : ~Committed(log, v.iter, s)
  BY DEF OpenGroup, GroupMates
<1>2. /\ v.iter \in 0 .. MaxIters /\ cli[c].st.iter \in Nat /\ file.st.iter \in Nat
      /\ MaxIters \in Nat
  BY ViewIs, ProcessIs, StatesAreNumbers, NativeAssumption DEF OnceInv, Types
<1>3. FinishedBefore(log, past.crossed, cli[c].st.iter)
  BY DEF OrderInv, StatesReached, Reached
<1>4. ~(v.iter < cli[c].st.iter)
  BY <1>1, <1>2, <1>3 DEF FinishedBefore, Finished, Kept, Unbroken
<1>5. v.iter <= file.st.iter /\ file.st.iter <= cli[c].st.iter
  BY <1>2 DEF GroupInv, ResumeInv, NotBehind
<1>6. QED
  BY <1>2, <1>4, <1>5

\* What a process makes of its state keeps the snapshot of a group that is not done.
LEMMA UpdatesKeepSnapshot ==
  ASSUME OnceInv, OrderInv, ResumeInv, GroupInv, Unbroken, NEW c \in Cli, Updates(c),
         NEW v \in handed, OpenGroup(v)
  PROVE  cli'[c].st.snapshot = SnapshotOf(v)
<1>1. /\ cli[c].st \in State /\ Fits(cli[c]) /\ Holding(cli[c]) /\ v.step \in StepIds
      /\ GroupOf[v.step] # NoGroup
  BY ProcessIs DEF OnceInv, Types, PlacesFit, ViewsFit, Updates, OpenGroup
<1>2. cli[c].st.snapshot = SnapshotOf(v)
  BY <1>1 DEF GroupInv, SnapshotsStay
<1>3. v.iter = cli[c].st.iter
  BY <1>1, OpenGroupsIteration
<1>4. CASE \/ cli'[c].st = [cli[c].st EXCEPT !.active = NoView]
           \/ cli'[c].st = [cli[c].st EXCEPT !.done = TRUE]
  BY <1>1, <1>2, <1>4 DEF State
<1>5. CASE cli[c].pc = "issue" /\ cli'[c].st = ClaimedState(cli[c].st, cli[c].step)
  <2>1. cli[c].step \in StepIds /\ Turn(log, past.crossed, v.iter, cli[c].step)
    BY <1>1, <1>3, <1>5 DEF Fits, Telling, OrderInv, TurnsKept
  <2>2. ~Committed(log, v.iter, cli[c].step)
    BY <1>3, <1>5 DEF OrderInv, ToldOnce, Tells, Telling, Unbroken
  <2>3. GroupOf[cli[c].step] = GroupOf[v.step]
    BY <2>1, <2>2, OpenGroupsTurn
  <2>4. SnapshotFor(cli[c].st, cli[c].step) = cli[c].st.snapshot
    BY <1>1, <1>2, <1>3, <2>3 DEF SnapshotFor, SnapshotOf
  <2>5. QED
    BY <1>1, <1>2, <1>5, <2>1, <2>4, ClaimTakesSnapshot
<1>6. CASE cli[c].pc = "advance"
  <2>1. Finished(log, v.iter)
    BY <1>3, <1>6 DEF OrderInv, TurnsKept, Through, Kept, Unbroken
  <2>2. QED
    BY <2>1 DEF Finished, OpenGroup, GroupMates
<1>7. CASE /\ cli[c].pc \in {"after", "pass"}
           /\ cli'[c].st = SubmittedState(cli[c].st, cli[c].step)
  <2> DEFINE step == cli[c].step
  <2>1. /\ Bringing(cli[c]) /\ cli[c].call = "submit" /\ step = cli[c].view.step
        /\ cli[c].st.iter = cli[c].view.iter
    BY <1>1, <1>7 DEF Fits, Bringing, Recording, Passing, Submitting
  <2>2. /\ step \in StepIds /\ Turn(log, past.crossed, v.iter, step)
        /\ Committed(log, v.iter, step)
    BY <1>3, <1>7, <2>1 DEF OnceInv, ViewsFit, OrderInv, TurnsKept, Recording, Passing
  <2>3. cli[c].st.active.step = step /\ cli[c].st.active # NoView
    BY <2>1, <2>2, ViewIs, StrategyAssumption DEF GroupInv, Knows
  <2>4. GroupOf[step] = GroupOf[v.step]
    <3>1. ActiveFits(cli[c].st)
      BY DEF GroupInv
    <3>2. SnapshotOf(v).group = GroupOf[v.step] /\ DefaultState.snapshot.group = NoGroup
      BY DEF SnapshotOf, DefaultState
    <3>3. QED
      BY <1>1, <1>2, <2>3, <3>1, <3>2 DEF ActiveFits
  <2>5. PICK s \in StepIds : GroupOf[s] = GroupOf[v.step] /\ ~Committed(log, v.iter, s)
    BY DEF OpenGroup, GroupMates
  <2>6. /\ IndexOf(step) \in 1 .. Len(Strategy) /\ IndexOf(s) \in 1 .. Len(Strategy)
        /\ Strategy[IndexOf(step)] = step /\ Strategy[IndexOf(s)] = s /\ Len(Strategy) \in Nat
    BY <2>2, <2>5, IndexIsPlace, StrategyAssumption
  <2>7. IndexOf(step) < IndexOf(s)
    <3>1. DoneBefore(log, v.iter, IndexOf(step)) /\ s # step
      BY <2>2, <2>5 DEF Turn, Kept, Unbroken
    <3>2. ~(IndexOf(s) < IndexOf(step)) /\ IndexOf(s) # IndexOf(step)
      BY <2>5, <2>6, <3>1 DEF DoneBefore
    <3>3. QED
      BY <2>6, <3>2
  <2>8. PICK k \in 1 .. Len(Strategy) : k = IndexOf(step) + 1
    BY <2>6, <2>7
  <2>9. GroupOf[Strategy[k]] = GroupOf[step]
    <3>1. Strategy[k] \in StepIds /\ IndexOf(Strategy[k]) = k
      BY IndexIsPlace
    <3>2. QED
      BY <1>1, <2>2, <2>4, <2>5, <2>6, <2>7, <2>8, <3>1, BetweenMates
  <2>10. ~LastOfGroup(step)
    BY <1>1, <2>4, <2>6, <2>7, <2>8, <2>9 DEF LastOfGroup
  <2>11. SubmittedState(cli[c].st, step).snapshot = cli[c].st.snapshot
    BY <1>1, <2>10 DEF SubmittedState, State
  <2>12. QED
    BY <1>2, <1>7, <2>11
<1>8. QED
  BY <1>4, <1>5, <1>6, <1>7 DEF Updates

\* Who does not commit leaves what is not committed so.
LEMMA NothingCommitted ==
  ASSUME Types, NEW c, Writes(c), RowWrites \/ cli[c].pc # "commit", NEW i, NEW step,
         ~Committed(log, i, step)
  PROVE  ~Committed(log', i, step)
BY CommitsOnlyThere DEF Committed

\* A claim that is not stale is of a step to do.
LEMMA CurrentIsOpen ==
  ASSUME OrderInv, Unbroken, NEW view \in View, view # NoView, view.step \in StepIds,
         ~Stale(view)
  PROVE  ~Committed(log, view.iter, view.step)
<1>1. Snapshot(log).step = view.step /\ Snapshot(log).iter = view.iter
  BY DEF Stale
<1>2. Open(Snapshot(log), log) /\ view.step # NoStep
  BY StrategyAssumption DEF OrderInv, ToldOnce, Unbroken
<1>3. QED
  BY <1>1, <1>2 DEF Open

\* What the process that moves knows then.
LEMMA ActorKnows ==
  ASSUME OnceInv, OrderInv, ResumeInv, GroupInv, Unbroken, NEW c \in Cli, StepOf(c), MovesOn(c),
         Unbroken'
  PROVE  Knows(cli[c])'
<1>1. /\ Types /\ cli[c].st \in State /\ cli[c].st.active \in View /\ Fits(cli[c])
      /\ cli[c].st.active # NoView => cli[c].st.active.step \in StepIds
      /\ Writes(c)
  BY ProcessIs, StateIs, StepsWrite DEF OnceInv, Types, PlacesFit, ViewsFit
<1>2. Knows(cli[c])
  BY DEF GroupInv
<1> USE DEF Writing, Closing, Telling, Guarding, Recording
<1>3. SUFFICES /\ cli'[c].pc = "refresh" => cli'[c].st = file'.st
               /\ Unclaimed(cli'[c]) => cli'[c].st.active = NoView
               /\ (Returning(cli'[c]) /\ cli'[c].st.active # NoView) =>
                    ~Committed(log', cli'[c].st.active.iter, cli'[c].st.active.step)
               /\ Bringing(cli'[c]) => cli'[c].st.active.step = cli'[c].step
  BY DEF Knows
<1>4. CASE Rests(c) \/ Answers(c)
  BY <1>4 DEF Rests, Answers, Away, Unclaimed, Returning, Bringing, Through, Passing
<1>5. CASE Loads(c)
  <2>1. cli'[c].st = file.st /\ file' = file
    BY <1>5, ReadsTheFile DEF Loads
  <2>2. QED
    BY <1>5, <2>1 DEF Loads, Unclaimed, Returning, Bringing, Through, Passing
<1>6. CASE Walks(c)
  <2>1. ASSUME Returning(cli'[c]), cli'[c].st.active # NoView
        PROVE  ~Committed(log', cli'[c].st.active.iter, cli'[c].st.active.step)
    <3>1. cli[c].pc = "refresh" /\ ~Stale(cli[c].st.active) /\ cli'[c].st = cli[c].st
      BY <1>6, <2>1 DEF Walks, Returning
    <3>2. ~Committed(log, cli[c].st.active.iter, cli[c].st.active.step)
      BY <1>1, <2>1, <3>1, CurrentIsOpen
    <3>3. QED
      BY <1>1, <3>1, <3>2, NothingCommitted
  <2>2. QED
    BY <1>2, <1>6, <2>1 DEF Walks, Knows
<1>7. CASE Updates(c)
  <2>1. cli'[c].pc = "write" /\ ~Bringing(cli'[c])
    BY <1>7 DEF Updates, Bringing, Passing
  <2>2. CASE cli'[c].st = [cli[c].st EXCEPT !.active = NoView]
    BY <1>1, <2>1, <2>2, UnclaimedIs
  <2>3. CASE /\ cli[c].pc = "issue" /\ cli'[c].then = "return"
             /\ cli'[c].st = ClaimedState(cli[c].st, cli[c].step)
    <3>1. cli[c].step \in StepIds /\ ~Committed(log, cli[c].st.iter, cli[c].step)
      BY <1>1, <2>3 DEF Fits, OrderInv, ToldOnce, Tells, Unbroken
    <3>2. ~Committed(log', cli[c].st.iter, cli[c].step)
      BY <1>1, <2>3, <3>1, NothingCommitted
    <3>3. QED
      BY <1>1, <2>1, <2>3, <3>1, <3>2, ClaimedIs DEF Unclaimed, Through
  <2>4. CASE /\ cli[c].pc = "advance" /\ cli[c].st.iter + 1 < MaxIters
             /\ cli'[c].st = NextIterationState(cli[c].st)
    BY <1>1, <2>1, <2>4, NextIterationIs
  <2>5. CASE Unclaimed(cli[c]) /\ cli'[c].st = [cli[c].st EXCEPT !.done = TRUE]
    BY <1>1, <1>2, <2>1, <2>5, DoneIs DEF Knows
  <2>6. CASE /\ cli[c].pc \in {"after", "pass"}
             /\ cli'[c].st = SubmittedState(cli[c].st, cli[c].step)
    <3>1. cli[c].step \in StepIds
      BY <2>6 DEF OnceInv, PlacesFit, Fits, ViewsFit, Bringing, Passing, Submitting
    <3>2. QED
      BY <1>1, <2>1, <2>6, <3>1, SubmittedIs
  <2>7. QED
    BY <1>7, <2>2, <2>3, <2>4, <2>5, <2>6 DEF Updates
<1>8. CASE Begins(c)
  <2>1. /\ cli'[c].st = cli[c].st /\ cli'[c].pc = "flush" /\ cli[c].pc = "write"
        /\ cli'[c].then = cli[c].then
    BY <1>8 DEF Begins
  <2>2. ASSUME Returning(cli'[c]), cli'[c].st.active # NoView
        PROVE  ~Committed(log', cli'[c].st.active.iter, cli'[c].st.active.step)
    BY <1>1, <1>2, <2>1, <2>2, NothingCommitted DEF Knows, Returning
  <2>3. QED
    BY <1>2, <2>1, <2>2 DEF Knows, Unclaimed, Bringing, Through, Passing
<1>9. CASE WritesOut(c)
  BY <1>2, <1>9 DEF WritesOut, Knows, Unclaimed, Returning, Bringing, Through, Passing
<1>10. QED
  BY <1>4, <1>5, <1>6, <1>7, <1>8, <1>9 DEF MovesOn

\* What the others know meanwhile: they wait, or the one that moves does.
LEMMA OthersKnow ==
  ASSUME OnceInv, OrderInv, ResumeInv, GroupInv, Unbroken, NEW c \in Cli, StepOf(c), MovesOn(c),
         NEW d \in Cli, d # c
  PROVE  Knows(cli[d])'
<1>1. /\ Types /\ Writes(c) /\ cli'[d] = cli[d] /\ Knows(cli[d]) /\ ~past.crossed /\ Apart
  BY StepsWrite DEF OnceInv, StepOf, GroupInv, OrderInv, Unbroken
<1>2. CASE cli[d].pc \in {"idle", "lock"}
  BY <1>1, <1>2 DEF Knows, Unclaimed, Returning, Bringing, Through, Passing, Telling, Closing,
     Guarding, Recording, Writing
<1>3. CASE cli[d].pc \notin {"idle", "lock"}
  <2>1. cli[c].pc \in {"idle", "lock"}
    BY <1>1, <1>3, OthersWait
  <2>2. file'.st = file.st
    BY <2>1, FileGoesOn DEF WritesOut
  <2>3. \A i, step : ~Committed(log, i, step) => ~Committed(log', i, step)
    BY <1>1, <2>1, NothingCommitted
  <2>4. QED
    BY <1>1, <2>2, <2>3 DEF Knows
<1>4. QED
  BY <1>2, <1>3

\* A claim that is handed out is of a step to do, and of the state in the file.
LEMMA NewViewIs ==
  ASSUME OnceInv, OrderInv, ResumeInv, GroupInv, Unbroken, NEW c \in Cli, StepOf(c), MovesOn(c),
         NEW v \in handed', v \notin handed
  PROVE  /\ v = cli[c].st.active /\ v # NoView /\ v.step \in StepIds
         /\ v.iter = cli[c].st.iter
         /\ WritesOut(c) \/ Answers(c)
         /\ cli'[c].pc = "idle" /\ file'.st = cli[c].st /\ Holding(cli[c])
         /\ cli[c].pc \notin {"idle", "lock"}
         /\ ~Committed(log, v.iter, v.step)
<1>1. \/ WritesOut(c) /\ v \in {cli[c].st.active} \ {NoView} /\ cli[c].then = "return"
      \/ Answers(c) /\ v = cli[c].st.active
  BY DEF MovesOn, Rests, Loads, Walks, Updates, Begins, WritesOut, Answers
<1>2. v = cli[c].st.active /\ v # NoView
  BY <1>1 DEF Answers
<1>3. /\ Knows(cli[c]) /\ v \in View /\ v.step \in StepIds /\ v.iter = cli[c].st.iter
  BY <1>2, ProcessIs, StateIs DEF GroupInv, OnceInv, Types, ViewsFit
<1>4. CASE WritesOut(c) /\ cli[c].then = "return"
  BY <1>2, <1>3, <1>4 DEF WritesOut, Knows, Returning, Writing, Holding, Away
<1>5. CASE Answers(c)
  <2>1. cli[c].pc = "refresh" /\ ~Stale(v) /\ file' = file /\ cli'[c].pc = "idle"
    BY <1>2, <1>5 DEF Answers
  <2>2. ~Committed(log, v.iter, v.step)
    BY <1>2, <1>3, <2>1, CurrentIsOpen
  <2>3. QED
    BY <1>2, <1>3, <1>5, <2>1, <2>2 DEF Knows, Holding, Away
<1>6. QED
  BY <1>1, <1>4, <1>5

LEMMA SnapshotsKept ==
  ASSUME OnceInv, OrderInv, ResumeInv, GroupInv, Unbroken, NEW c \in Cli, StepOf(c), MovesOn(c),
         Unbroken', NEW v \in handed', OpenGroup(v)'
  PROVE  /\ file'.st.snapshot = SnapshotOf(v)
         /\ \A d \in Cli : Holding(cli'[d]) => cli'[d].st.snapshot = SnapshotOf(v)
<1>1. /\ Types /\ Apart /\ ~past.crossed /\ Writes(c)
      /\ \A d \in Cli : d # c => cli'[d] = cli[d]
  BY StepsWrite DEF OnceInv, OrderInv, Unbroken, StepOf
<1>2. OpenGroup(v)
  <2>1. \A i, step : Committed(log, i, step) => Committed(log', i, step)
    BY <1>1, Extended, CommittedStays
  <2>2. QED
    BY <2>1 DEF OpenGroup
<1>3. CASE v \in handed
  <2>1. /\ file.st.snapshot = SnapshotOf(v)
        /\ \A d \in Cli : Holding(cli[d]) => cli[d].st.snapshot = SnapshotOf(v)
    BY <1>2, <1>3 DEF GroupInv, SnapshotsStay
  <2>2. file'.st.snapshot = SnapshotOf(v)
    <3>1. file'.st = file.st \/ (WritesOut(c) /\ file'.st = cli[c].st)
      BY FileGoesOn
    <3>2. WritesOut(c) => Holding(cli[c])
      BY DEF WritesOut, Holding, Away
    <3>3. QED
      BY <2>1, <3>1, <3>2
  <2>3. Holding(cli'[c]) => cli'[c].st.snapshot = SnapshotOf(v)
    <3>1. CASE Rests(c) \/ Answers(c)
      BY <3>1 DEF Rests, Answers, Holding, Away
    <3>2. CASE Loads(c)
      BY <2>1, <3>2, ReadsTheFile DEF Loads
    <3>3. CASE Walks(c) \/ Begins(c) \/ WritesOut(c)
      BY <2>1, <3>3 DEF Walks, Begins, WritesOut, Holding, Away
    <3>4. CASE Updates(c)
      BY <1>2, <1>3, <3>4, UpdatesKeepSnapshot
    <3>5. QED
      BY <3>1, <3>2, <3>3, <3>4 DEF MovesOn
  <2>4. QED
    BY <1>1, <2>1, <2>2, <2>3
<1>4. CASE v \notin handed
  <2>1. /\ v = cli[c].st.active /\ v # NoView /\ cli'[c].pc = "idle" /\ file'.st = cli[c].st
        /\ cli[c].pc \notin {"idle", "lock"}
    BY <1>4, NewViewIs
  <2>2. cli[c].st.snapshot = SnapshotOf(v)
    BY <1>2, <2>1 DEF GroupInv, ActiveFits, OpenGroup, SnapshotOf
  <2>3. \A d \in Cli : ~Holding(cli'[d])
    BY <1>1, <2>1, OthersWait DEF Holding, Away
  <2>4. QED
    BY <2>1, <2>2, <2>3
<1>5. QED
  BY <1>3, <1>4

\* A claim of a group is handed out with the inputs that its group was given before.
LEMMA NewViewsAgree ==
  ASSUME OnceInv, OrderInv, ResumeInv, GroupInv, Unbroken, NEW c \in Cli, StepOf(c), MovesOn(c),
         NEW v \in handed', v \notin handed, NEW w \in handed,
         v.iter = w.iter, GroupOf[v.step] = GroupOf[w.step], GroupOf[v.step] # NoGroup
  PROVE  v.inputs = w.inputs
<1>1. /\ v = cli[c].st.active /\ v # NoView /\ v.step \in StepIds /\ Holding(cli[c])
      /\ ~Committed(log, v.iter, v.step)
  BY NewViewIs
<1>2. OpenGroup(w)
  BY <1>1 DEF OpenGroup, GroupMates
<1>3. cli[c].st.snapshot = SnapshotOf(w)
  BY <1>1, <1>2 DEF GroupInv, SnapshotsStay
<1>4. cli[c].st.snapshot = SnapshotOf(v)
  BY <1>1 DEF GroupInv, ActiveFits, SnapshotOf
<1>5. SnapshotOf(w).inputs = w.inputs /\ SnapshotOf(v).inputs = v.inputs
  BY DEF SnapshotOf
<1>6. QED
  BY <1>3, <1>4, <1>5

LEMMA GroupKept ==
  ASSUME OnceInv, OrderInv, ResumeInv, GroupInv, [Next]_vars
  PROVE  GroupInv'
<1>1. ASSUME NEW c \in Cli, StepOf(c), MovesOn(c)
      PROVE  GroupInv'
  <2>1. ActiveFits(file'.st) /\ \A d \in Cli : ActiveFits(cli'[d].st)
    BY <1>1, ActiveFitsKept
  <2>2. SUFFICES ASSUME Unbroken'
                 PROVE  /\ \A v \in handed' : v.iter <= file'.st.iter
                        /\ SnapshotsStay'
                        /\ \A d \in Cli : Knows(cli[d])'
                        /\ \A v, w \in handed' : SameInputs(v, w)
    BY <2>1 DEF GroupInv, ActiveFits
  <2>3. Unbroken
    BY <1>1, <2>2, UnbrokenBefore
  <2>4. ASSUME NEW v \in handed'
        PROVE  v.iter <= file'.st.iter
    <3>1. CASE v \in handed
      <4>1. v.iter <= file.st.iter /\ NotBehind(file'.st, file.st)
        BY <1>1, <2>3, <3>1, FileGoesOn DEF GroupInv
      <4>2. v.iter \in Nat /\ file.st.iter \in Nat /\ file'.st.iter \in Nat
        BY <1>1, <3>1, ViewIs, StatesAreNumbers, NativeAssumption DEF OnceInv, Types, StepOf
      <4>3. QED
        BY <4>1, <4>2 DEF NotBehind
    <3>2. CASE v \notin handed
      <4>1. v.iter = file'.st.iter
        BY <1>1, <2>3, <2>4, <3>2, NewViewIs
      <4>2. file'.st.iter \in Nat
        BY <1>1, StatesAreNumbers DEF StepOf
      <4>3. QED
        BY <4>1, <4>2
    <3>3. QED
      BY <3>1, <3>2
  <2>5. SnapshotsStay'
    BY <1>1, <2>2, <2>3, SnapshotsKept DEF SnapshotsStay
  <2>6. \A d \in Cli : Knows(cli[d])'
    BY <1>1, <2>2, <2>3, ActorKnows, OthersKnow
  <2>7. ASSUME NEW v \in handed', NEW w \in handed'
        PROVE  SameInputs(v, w)
    <3>1. CASE v \in handed /\ w \in handed
      BY <2>3, <3>1 DEF GroupInv
    <3>2. CASE v \notin handed /\ w \in handed
      BY <1>1, <2>3, <2>7, <3>2, NewViewsAgree DEF SameInputs
    <3>3. CASE v \in handed /\ w \notin handed
      BY <1>1, <2>3, <2>7, <3>3, NewViewsAgree DEF SameInputs
    <3>4. CASE v \notin handed /\ w \notin handed
      <4>1. v = w
        BY <1>1, <2>3, <2>7, <3>4, NewViewIs
      <4>2. QED
        BY <4>1 DEF SameInputs
    <3>5. QED
      BY <3>1, <3>2, <3>3, <3>4
  <2>8. QED
    BY <2>4, <2>5, <2>6, <2>7
<1>2. CASE Stop
  <2>1. RowWrites /\ Writes(None) /\ UNCHANGED <<file, handed, cli, past>> /\ Types
    BY <1>2, StopWrites DEF Writes, Stop, OnceInv
  <2>2. \A i, step : Committed(log, i, step) <=> Committed(log', i, step)
    BY <2>1, NothingCommitted, Extended, CommittedStays
  <2>3. QED
    BY <2>1, <2>2 DEF GroupInv, Unbroken, SnapshotsStay, OpenGroup, Knows
<1>3. CASE UNCHANGED vars
  BY <1>3 DEF vars, GroupInv, Unbroken, SnapshotsStay, OpenGroup, Knows
<1>4. QED
  BY <1>1, <1>2, <1>3, NextMoves

LEMMA GroupInit ==
  ASSUME Init
  PROVE  GroupInv
<1>1. /\ handed = {} /\ file.st = DefaultState /\ \A c \in Cli : cli[c] = Idle
  BY DEF Init
<1>2. ActiveFits(DefaultState)
  BY DefaultIs DEF ActiveFits
<1>3. \A c \in Cli : Knows(cli[c])
  BY <1>1, IdleIs DEF Knows, Unclaimed, Returning, Bringing, Through, Passing, Telling, Closing,
     Guarding, Recording, Writing
<1>4. QED
  BY <1>1, <1>2, <1>3, IdleIs DEF GroupInv, SnapshotsStay

\* The steps of a parallel group are given the same inputs, however many claims, refused
\* submissions and deaths lie between them, for every strategy whose groups are contiguous,
\* as long as no call has crossed another and no write was cut short
\* (parallel_group_snapshot).
THEOREM GroupsSeeTheSame == Spec => []GroupSeesTheSameInputs
<1>1. Init => GroupInv
  BY GroupInit
<1>2. OnceInv /\ OrderInv /\ ResumeInv /\ GroupInv /\ [Next]_vars => GroupInv'
  BY GroupKept
<1>3. GroupInv => GroupSeesTheSameInputs
  BY DEF GroupInv, SameInputs, GroupSeesTheSameInputs, Unbroken
<1>4. QED
  BY <1>1, <1>2, <1>3, ResumeInvariant, PTL DEF Spec

-----------------------------------------------------------------------------
(* A pass ends the run                                                     *)

\* A process that has committed a pass and is to end the run with it.
LEMMA CarryingIs ==
  ASSUME NEW me
  PROVE  Carrying(me) <=> (me.passed /\ Recorded(me))
BY DEF Carrying, Recorded, Recording, Passing, Closing

PassCommitted == \E k \in DOMAIN log : log[k].passed

\* No state, view or result is of an iteration past the last, and only a GateKeeper brings
\* a pass.
ItersFit ==
  /\ file.st.iter < MaxIters
  /\ \A v \in handed : v.iter < MaxIters
  /\ \A c \in Cli : LET me == cli[c] IN
       /\ me.st.iter < MaxIters
       /\ me.pc = "exhaust" => me.st.iter + 1 >= MaxIters
       /\ me.call = "submit" =>
            me.view.iter < MaxIters /\ (me.passed => me.view.step \in Finishers)

\* A run fails over iterations that are all done, so nobody has a result to bring then.
NothingBroughtLate ==
  ~past.crossed =>
    /\ row = "failed" => \A i \in 0 .. MaxIters - 1 : Finished(log, i)
    /\ \A c \in Cli : Recorded(cli[c]) => row # "failed"

\* A committed pass has ended the run or is about to.
PassInv ==
  /\ ItersFit
  /\ Mode = "gatekeeper" =>
       /\ NothingBroughtLate
       /\ (~past.dropped /\ PassCommitted) =>
            \/ RowTerminal /\ (row = "failed" => past.crossed)
            \/ \E c \in Cli : Carrying(cli[c])

\* What a step does to the results that are brought and to the run's end.
Brings(c) ==
  LET old == cli[c]  now == cli'[c] IN
  /\ now.call = "submit" =>
       \/ old.call = "submit" /\ now.passed = old.passed
       \/ old.pc = "idle" /\ (now.passed => now.view.step \in Finishers)
  /\ now.pc = "exhaust" => now.st = old.st /\ old.st.iter + 1 >= MaxIters
  /\ row' = "failed" => row = "failed" \/ old.pc = "exhaust"
  /\ PassCommitted' => PassCommitted \/ (old.pc = "commit" /\ Carrying(now))
  /\ past.dropped => past'.dropped
  /\ (Carrying(old) /\ Mode = "gatekeeper" /\ ~past'.dropped) =>
       \/ Carrying(now) \/ row' = "succeeded"
       \/ row' = row /\ ~RowUpdatable("succeeded")

LEMMA OneMore ==
  ASSUME NEW S, NEW s \in Seq(S), NEW e \in S
  PROVE  /\ DOMAIN s = 1 .. Len(s) /\ Len(s) \in Nat
         /\ DOMAIN Append(s, e) = 1 .. Len(s) + 1 /\ Append(s, e)[Len(s) + 1] = e
         /\ \A k \in 1 .. Len(s) : Append(s, e)[k] = s[k]
OBVIOUS

LEMMA NoPassAppended ==
  ASSUME log \in Seq(Events), NEW type, NEW step, NEW iter,
         log' = Append(log, Event(type, step, iter, FALSE))
  PROVE  PassCommitted' => PassCommitted
<1> DEFINE new == Event(type, step, iter, FALSE)
           All == Events \cup {new}
<1>1. log \in Seq(All) /\ new \in All /\ ~new.passed
  BY DEF Event
<1>2. log' = Append(log, new)
  OBVIOUS
<1> HIDE DEF new, All
<1>3. /\ DOMAIN log = 1 .. Len(log) /\ Len(log) \in Nat
      /\ DOMAIN log' = 1 .. Len(log) + 1 /\ log'[Len(log) + 1] = new
      /\ \A k \in 1 .. Len(log) : log'[k] = log[k]
  <2>1. /\ DOMAIN log = 1 .. Len(log) /\ Len(log) \in Nat
        /\ DOMAIN Append(log, new) = 1 .. Len(log) + 1
        /\ Append(log, new)[Len(log) + 1] = new
        /\ \A k \in 1 .. Len(log) : Append(log, new)[k] = log[k]
    BY <1>1, OneMore
  <2>2. QED
    BY <1>2, <2>1
<1>4. ASSUME NEW k \in DOMAIN log', log'[k].passed
      PROVE  PassCommitted
  <2>1. k # Len(log) + 1
    BY <1>1, <1>3, <1>4
  <2>2. k \in DOMAIN log /\ log[k].passed
    BY <1>3, <1>4, <2>1
  <2>3. QED
    BY <2>2 DEF PassCommitted
<1>5. QED
  BY <1>4 DEF PassCommitted

LEMMA NoPassByRow ==
  ASSUME log \in Seq(Events), NEW status, UpdateRow(status)
  PROVE  row' = status /\ (PassCommitted' => PassCommitted)
<1>1. CASE row = status
  BY <1>1 DEF UpdateRow, PassCommitted
<1>2. CASE row # status
  BY <1>2, NoPassAppended DEF UpdateRow, RunEvent
<1>3. QED
  BY <1>1, <1>2

LEMMA StepsBring ==
  ASSUME Types, PlacesFit, ItersFit, NEW c \in Cli, ViewsFit
  PROVE  (CallPrepare(c) \/ CallNext(c) \/ Run(c) \/ Crash(c)
            \/ \E view \in handed, passed \in BOOLEAN : CallSubmit(c, view, passed)) =>
           Brings(c)
<1> USE DEF Places, Preparing, Telling, Claiming, Closing, Writing, Guarding, Recording,
            Submitting
<1>1. /\ cli \in [Cli -> Process] /\ cli[c] \in Process /\ log \in Seq(Events)
      /\ file.st \in State /\ file \in [kind : Kinds, st : State]
      /\ past \in Pasts
  BY DEF Types
<1>2. /\ cli[c].pc \in Places /\ cli[c].then \in Places \cup {"return"}
      /\ cli[c].st \in State /\ Fits(cli[c])
  <2> HIDE DEF Places, Preparing, Telling, Claiming, Closing, Writing, Guarding, Recording,
               Submitting
  <2>1. QED
    BY <1>1, ProcessIs DEF PlacesFit
<1>3. Read(file) \in State
  BY <1>1, DefaultIs DEF Read
<1>4. /\ cli[c].pc \in {"after", "pass"} => cli[c].step \in StepIds
      /\ (cli[c].pc = "after" /\ cli[c].passed) => cli[c].step \notin Workers
  BY NativeAssumption DEF PlacesFit, ViewsFit, ItersFit, Fits, Bringing, Passing
<1>5. ASSUME CallPrepare(c) PROVE Brings(c)
  <2>1. /\ cli'[c].pc = "prepare" /\ cli'[c].call = "prepare" /\ UNCHANGED <<log, row>>
        /\ cli[c].pc = "idle" /\ past'.dropped = past.dropped
    BY <1>1, <1>5 DEF CallPrepare, MayStart, Process, Pasts
  <2>2. QED
    BY <2>1 DEF Moved, Returned, Brings, Carrying, Recorded, Passing, PassCommitted
<1>6. ASSUME CallNext(c) PROVE Brings(c)
  <2>1. /\ cli'[c].pc = "load" /\ cli'[c].call = "next" /\ UNCHANGED <<log, row>>
        /\ cli[c].pc = "idle" /\ past'.dropped = past.dropped
    BY <1>1, <1>6 DEF CallNext, MayStart, Process, Pasts
  <2>2. QED
    BY <2>1 DEF Moved, Returned, Brings, Carrying, Recorded, Passing, PassCommitted
<1>7. ASSUME BeginWrite(c) PROVE Brings(c)
  <2>1. Moved(c, "flush", cli[c].then, cli[c].st)
    BY <1>1, <1>2, <1>3, <1>4, <1>7, GoIs DEF BeginWrite
  <2>2. QED
    BY <1>1, <1>2, <1>4, <1>7, <2>1 DEF BeginWrite, Moved, Returned, Brings, Carrying,
       Recorded, Passing, PassCommitted
<1>8. ASSUME EndWrite(c) PROVE Brings(c)
  <2>1. \/ cli[c].then = "return" /\ Returned(c)
        \/ /\ cli[c].then \in {"row", "refresh", "events", "passed"}
           /\ Moved(c, cli[c].then, cli[c].then, cli[c].st)
    BY <1>1, <1>2, <1>3, <1>4, <1>8, GoIs, ReturnIs DEF EndWrite, Fits
  <2>2. QED
    BY <1>1, <1>2, <1>4, <1>8, <2>1 DEF EndWrite, Moved, Returned, Brings, Carrying,
       Recorded, Passing, PassCommitted, Fits
<1>9. ASSUME PrepareLoad(c) PROVE Brings(c)
  <2>1. Returned(c) \/ Moved(c, "prepare_row", cli[c].then, Read(file))
    BY <1>1, <1>2, <1>3, <1>4, <1>9, GoWithIs, ReturnIs DEF PrepareLoad
  <2>2. QED
    BY <1>1, <1>2, <1>4, <1>9, <2>1 DEF PrepareLoad, Moved, Returned, Brings, Carrying,
       Recorded, Passing, PassCommitted
<1>10. ASSUME PrepareRow(c) PROVE Brings(c)
  <2>1. Returned(c) \/ Moved(c, "write", "row", cli[c].st)
    BY <1>1, <1>2, <1>3, <1>4, <1>10, WriteThenIs, ReturnIs DEF PrepareRow
  <2>2. /\ cli[c].pc = "prepare_row" /\ past' = past
        /\ UNCHANGED <<log, row>> \/ UpdateRow("awaiting_agent")
    BY <1>10 DEF PrepareRow
  <2>3. (PassCommitted' => PassCommitted) /\ (row' = "failed" => row = "failed")
    BY <1>1, <2>2, NoPassByRow DEF PassCommitted
  <2>4. QED
    BY <1>2, <2>1, <2>2, <2>3 DEF Moved, Returned, Brings, Carrying, Recorded, Passing
<1>11. ASSUME ReadRow(c) PROVE Brings(c)
  <2>1. Returned(c) \/ Moved(c, "load", cli[c].then, cli[c].st)
    BY <1>1, <1>2, <1>3, <1>4, <1>11, GoIs, ReturnIs DEF ReadRow
  <2>2. QED
    BY <1>1, <1>2, <1>4, <1>11, <2>1 DEF ReadRow, Moved, Returned, Brings, Carrying,
       Recorded, Passing, PassCommitted
<1>12. ASSUME Load(c) PROVE Brings(c)
  <2>1. \/ Returned(c) \/ Moved(c, "refresh", cli[c].then, Read(file))
        \/ Moved(c, "write", "refresh", Read(file))
    BY <1>1, <1>2, <1>3, <1>4, <1>12, GoWithIs, WriteThenIs, ReturnIs DEF Load
  <2>2. QED
    BY <1>1, <1>2, <1>4, <1>12, <2>1 DEF Load, Moved, Returned, Brings, Carrying, Recorded,
       Passing, PassCommitted
<1>13. ASSUME Refresh(c) PROVE Brings(c)
  <2>1. \/ Returned(c)
        \/ Moved(c, "events", cli[c].then, cli[c].st)
        \/ Moved(c, "write", "events", [cli[c].st EXCEPT !.active = NoView])
        \/ Moved(c, "write", "return", cli[c].st)
    BY <1>1, <1>2, <1>3, <1>4, <1>13, GoIs, WriteThenIs, ReturnIs, UnclaimedIs DEF Refresh
  <2>2. QED
    BY <1>1, <1>2, <1>4, <1>13, <2>1 DEF Refresh, Moved, Returned, Brings, Carrying,
       Recorded, Passing, PassCommitted
<1>14. ASSUME ReadEvents(c) PROVE Brings(c)
  <2>1. /\ cli'[c].pc = "plan" /\ cli'[c].call = cli[c].call
        /\ cli'[c].passed = cli[c].passed /\ cli[c].pc = "events"
    BY <1>1, <1>14 DEF ReadEvents, Process
  <2>2. QED
    BY <1>14, <2>1 DEF ReadEvents, Moved, Returned, Brings, Carrying, Recorded, Passing,
       PassCommitted
<1>15. ASSUME Plan(c) PROVE Brings(c)
  <2>1. /\ cli'[c].pc = "start_find" \/ cli'[c].pc = "complete_find"
        /\ cli'[c].call = cli[c].call /\ cli'[c].passed = cli[c].passed
    <3>1. CASE GoThen(c, "complete_find", "advance")
      <4>1. "complete_find" \in Places /\ "advance" \in Places \cup {"return"}
        OBVIOUS
      <4>2. Moved(c, "complete_find", "advance", cli[c].st)
        BY <1>1, <3>1, <4>1, GoThenIs
      <4>3. QED
        BY <4>2 DEF Moved
    <3>2. CASE ~GoThen(c, "complete_find", "advance")
      BY <1>1, <1>15, <3>2 DEF Plan, Process
    <3>3. QED
      BY <3>1, <3>2
  <2>2. cli[c].pc = "plan" /\ UNCHANGED <<log, row, past>>
    BY <1>15 DEF Plan
  <2>3. QED
    BY <2>1, <2>2 DEF Moved, Returned, Brings, Carrying, Recorded, Passing, PassCommitted
<1>16. ASSUME FindStarted(c) PROVE Brings(c)
  <2>1. \/ Moved(c, "pause", cli[c].then, cli[c].st)
        \/ Moved(c, "start", cli[c].then, cli[c].st)
    BY <1>1, <1>2, <1>3, <1>4, <1>16, GoIs DEF FindStarted
  <2>2. QED
    BY <1>1, <1>2, <1>4, <1>16, <2>1 DEF FindStarted, Moved, Returned, Brings, Carrying,
       Recorded, Passing, PassCommitted
<1>17. ASSUME StartIteration(c) PROVE Brings(c)
  <2>1. Moved(c, "pause", cli[c].then, cli[c].st)
    BY <1>1, <1>2, <1>3, <1>4, <1>17, GoIs DEF StartIteration
  <2>2. cli[c].pc = "start" /\ UNCHANGED <<row, past>> /\ (PassCommitted' => PassCommitted)
    BY <1>1, <1>17, NoPassAppended DEF StartIteration
  <2>3. QED
    BY <1>2, <2>1, <2>2 DEF Moved, Returned, Brings, Carrying, Recorded, Passing, Fits
<1>18. ASSUME PauseRow(c) PROVE Brings(c)
  <2>1. Returned(c) \/ Moved(c, "issue", cli[c].then, cli[c].st)
    BY <1>1, <1>2, <1>3, <1>4, <1>18, GoIs, ReturnIs DEF PauseRow
  <2>2. /\ cli[c].pc = "pause" /\ past' = past
        /\ UNCHANGED <<log, row>> \/ UpdateRow("awaiting_agent")
    BY <1>18 DEF PauseRow
  <2>3. (PassCommitted' => PassCommitted) /\ (row' = "failed" => row = "failed")
    BY <1>1, <2>2, NoPassByRow DEF PassCommitted
  <2>4. QED
    BY <1>2, <2>1, <2>2, <2>3 DEF Moved, Returned, Brings, Carrying, Recorded, Passing
<1>19. ASSUME Issue(c) PROVE Brings(c)
  <2>1. Moved(c, "write", "return", ClaimedState(cli[c].st, cli[c].step))
    BY <1>1, <1>2, <1>3, <1>4, <1>19, WriteThenIs, ClaimedIs DEF Issue, Fits
  <2>2. cli[c].pc = "issue" /\ UNCHANGED <<row, past>> /\ (PassCommitted' => PassCommitted)
    BY <1>1, <1>19, NoPassAppended DEF Issue
  <2>3. QED
    BY <1>2, <2>1, <2>2 DEF Moved, Returned, Brings, Carrying, Recorded, Passing, Fits
<1>20. ASSUME FindCompleted(c) PROVE Brings(c)
  <2>1. \/ Moved(c, "complete", cli[c].then, cli[c].st)
        \/ /\ cli[c].then \in {"advance", "pass"}
           /\ Moved(c, cli[c].then, cli[c].then, cli[c].st)
    BY <1>1, <1>2, <1>3, <1>4, <1>20, GoIs DEF FindCompleted, Fits
  <2>2. QED
    BY <1>1, <1>2, <1>4, <1>20, <2>1 DEF FindCompleted, Moved, Returned, Brings, Carrying,
       Recorded, Passing, PassCommitted, Fits
<1>21. ASSUME CompleteIteration(c) PROVE Brings(c)
  <2>1. /\ cli[c].then \in {"advance", "pass"}
        /\ Moved(c, cli[c].then, cli[c].then, cli[c].st)
    BY <1>1, <1>2, <1>3, <1>4, <1>21, GoIs DEF CompleteIteration, Fits
  <2>2. cli[c].pc = "complete" /\ UNCHANGED <<row, past>> /\ (PassCommitted' => PassCommitted)
    BY <1>1, <1>21, NoPassAppended DEF CompleteIteration
  <2>3. QED
    BY <1>2, <2>1, <2>2 DEF Moved, Returned, Brings, Carrying, Recorded, Passing, Fits
<1>22. ASSUME Advance(c) PROVE Brings(c)
  <2>1. \/ /\ cli[c].st.iter + 1 >= MaxIters
           /\ Moved(c, "exhaust", cli[c].then, cli[c].st)
        \/ Moved(c, "write", "row", NextIterationState(cli[c].st))
    BY <1>1, <1>2, <1>3, <1>4, <1>22, GoIs, WriteThenIs, NextIterationIs, StateIs,
       NativeAssumption DEF Advance
  <2>2. QED
    BY <1>1, <1>2, <1>4, <1>22, <2>1 DEF Advance, Moved, Returned, Brings, Carrying,
       Recorded, Passing, PassCommitted
<1>23. ASSUME Exhaust(c) PROVE Brings(c)
  <2>1. \/ Returned(c)
        \/ Moved(c, "write", "return", [cli[c].st EXCEPT !.done = TRUE])
    BY <1>1, <1>2, <1>3, <1>4, <1>23, WriteThenIs, ReturnIs, DoneIs DEF Exhaust
  <2>2. /\ cli[c].pc = "exhaust" /\ (past.dropped => past'.dropped)
        /\ UNCHANGED <<log, row>> \/ UpdateRow(IF Mode = "rounds" THEN "succeeded" ELSE "failed")
    BY <1>1, <1>23, ExhaustFaults DEF Exhaust, Faults
  <2>3. PassCommitted' => PassCommitted
    BY <1>1, <2>2, NoPassByRow DEF PassCommitted
  <2>4. QED
    BY <1>2, <2>1, <2>2, <2>3 DEF Moved, Returned, Brings, Carrying, Recorded, Passing
<1>24. ASSUME Lock(c) PROVE Brings(c)
  <2>1. Moved(c, "submit_load", cli[c].then, cli[c].st)
    BY <1>1, <1>2, <1>3, <1>4, <1>24, GoIs DEF Lock
  <2>2. QED
    BY <1>1, <1>2, <1>4, <1>24, <2>1 DEF Lock, Moved, Returned, Brings, Carrying, Recorded,
       Passing, PassCommitted
<1>25. ASSUME SubmitLoad(c) PROVE Brings(c)
  <2>1. CASE Return(c)
    BY <1>1, <1>25, <2>1, ReturnIs DEF SubmitLoad, Moved, Returned, Brings, Carrying,
       Recorded, Passing, PassCommitted
  <2>2. CASE ~Return(c)
    <3>1. /\ cli'[c].pc = "guard_events" /\ cli'[c].call = cli[c].call
          /\ cli'[c].passed = cli[c].passed
      BY <1>1, <1>25, <2>2 DEF SubmitLoad, Process
    <3>2. QED
      BY <1>25, <3>1 DEF SubmitLoad, Moved, Returned, Brings, Carrying, Recorded, Passing,
         PassCommitted
  <2>3. QED
    BY <2>1, <2>2
<1>26. ASSUME GuardEvents(c) PROVE Brings(c)
  <2>1. /\ cli'[c].pc = "guard" /\ cli'[c].call = cli[c].call
        /\ cli'[c].passed = cli[c].passed /\ cli[c].pc = "guard_events"
    BY <1>1, <1>26 DEF GuardEvents, Process
  <2>2. QED
    BY <1>26, <2>1 DEF GuardEvents, Moved, Returned, Brings, Carrying, Recorded, Passing,
       PassCommitted
<1>27. ASSUME Guard(c) PROVE Brings(c)
  <2>1. \/ Returned(c)
        \/ /\ cli[c].then \in {"guard_events", "commit"}
           /\ Moved(c, cli[c].then, "commit", cli[c].st)
    BY <1>1, <1>2, <1>3, <1>4, <1>27, GoThenIs, ReturnIs DEF Guard, Fits
  <2>2. QED
    BY <1>1, <1>2, <1>4, <1>27, <2>1 DEF Guard, Moved, Returned, Brings, Carrying, Recorded,
       Passing, PassCommitted
<1>28. ASSUME Commit(c) PROVE Brings(c)
  <2>1. Moved(c, "evidence", cli[c].then, cli[c].st)
    BY <1>1, <1>2, <1>3, <1>4, <1>28, GoIs DEF Commit
  <2>2. cli[c].pc = "commit" /\ UNCHANGED <<row, past>>
    BY <1>28 DEF Commit
  <2>3. PassCommitted' => PassCommitted \/ cli[c].passed
    BY <1>1, <1>28, NoPassAppended DEF Commit, Process
  <2>4. QED
    BY <1>2, <2>1, <2>2, <2>3 DEF Moved, Brings, Carrying, Recorded, Passing
<1>29. ASSUME RecordEvidence(c) PROVE Brings(c)
  <2>1. CASE Refused(c) /\ log' = log
    <3>1. Returned(c) /\ Faults(c)
      BY <1>1, <2>1, RefusedIs, ReturnIs
    <3>2. cli[c].pc = "evidence" /\ UNCHANGED <<log, row>>
      BY <1>29, <2>1 DEF RecordEvidence
    <3>3. (Carrying(cli[c]) => past'.dropped) /\ (past.dropped => past'.dropped)
      BY <1>1, <2>1, FailsIs DEF Refused
    <3>4. QED
      BY <3>1, <3>2, <3>3 DEF Returned, Brings, Carrying, PassCommitted
  <2>2. CASE ~(Refused(c) /\ log' = log)
    <3>1. Moved(c, "after", cli[c].then, cli[c].st)
      BY <1>1, <1>2, <1>3, <1>4, <1>29, <2>2, GoIs DEF RecordEvidence
    <3>2. /\ cli[c].pc = "evidence" /\ UNCHANGED <<row, past>>
          /\ PassCommitted' => PassCommitted
      BY <1>1, <1>29, <2>2, NoPassAppended DEF RecordEvidence
    <3>3. QED
      BY <1>2, <3>1, <3>2 DEF Moved, Brings, Carrying, Recorded, Passing, Fits
  <2>3. QED
    BY <2>1, <2>2
<1>30. ASSUME WorkspaceBreach(c) PROVE Brings(c)
  <2>1. Returned(c)
    BY <1>1, <1>2, <1>3, <1>4, <1>30, ReturnIs DEF WorkspaceBreach
  <2>2. QED
    BY <1>1, <1>2, <1>4, <1>30, <2>1 DEF WorkspaceBreach, Moved, Returned, Brings, Carrying,
       Recorded, Passing, PassCommitted
<1>31. ASSUME AfterCommit(c) PROVE Brings(c)
  <2>1. \/ Moved(c, "complete_find", "pass", cli[c].st)
        \/ ~Finishes(c) /\ Moved(c, "write", "row", SubmittedState(cli[c].st, cli[c].step))
    BY <1>1, <1>2, <1>3, <1>4, <1>31, GoThenIs, WriteThenIs, SubmittedIs DEF AfterCommit
  <2>2. QED
    BY <1>1, <1>2, <1>4, <1>31, <2>1 DEF AfterCommit, Moved, Returned, Brings, Carrying,
       Recorded, Passing, PassCommitted, Finishes
<1>32. ASSUME Pass(c) PROVE Brings(c)
  <2>1. cli[c].pc = "pass"
    BY <1>32 DEF Pass
  <2>2. CASE Refused(c) /\ UNCHANGED <<log, row>>
    <3>1. Returned(c)
      BY <1>1, <2>2, RefusedIs, ReturnIs
    <3>2. (Carrying(cli[c]) => past'.dropped) /\ (past.dropped => past'.dropped)
      BY <1>1, <2>2, FailsIs DEF Refused
    <3>3. QED
      BY <2>1, <2>2, <3>1, <3>2 DEF Returned, Brings, Carrying, PassCommitted
  <2>3. CASE Return(c) /\ UNCHANGED <<log, row, past>> /\ ~RowUpdatable("succeeded")
    <3>1. Returned(c)
      BY <1>1, <2>3, ReturnIs
    <3>2. QED
      BY <2>1, <2>3, <3>1 DEF Returned, Brings, Carrying, PassCommitted
  <2>4. CASE /\ UpdateRow("succeeded") /\ past' = past
             /\ WriteThen(c, SubmittedState(cli[c].st, cli[c].step), "passed")
    <3>1. Moved(c, "write", "passed", SubmittedState(cli[c].st, cli[c].step))
      BY <1>1, <1>2, <1>3, <1>4, <2>1, <2>4, WriteThenIs, SubmittedIs
    <3>2. row' = "succeeded" /\ (PassCommitted' => PassCommitted)
      BY <1>1, <2>4, NoPassByRow
    <3>3. QED
      BY <1>2, <2>1, <2>4, <3>1, <3>2 DEF Moved, Brings, Carrying
  <2>5. QED
    BY <1>32, <2>2, <2>3, <2>4 DEF Pass
<1>33. ASSUME Passed(c) PROVE Brings(c)
  <2>1. Moved(c, "write", "return", [cli[c].st EXCEPT !.done = TRUE])
    BY <1>1, <1>2, <1>3, <1>4, <1>33, WriteThenIs, DoneIs DEF Passed
  <2>2. QED
    BY <1>1, <1>2, <1>4, <1>33, <2>1 DEF Passed, Moved, Returned, Brings, Carrying, Recorded,
       Passing, PassCommitted
<1>34. ASSUME Crash(c) PROVE Brings(c)
  <2>1. Returned(c) /\ UNCHANGED <<log, row>>
    BY <1>1, <1>34, ReturnIs DEF Crash
  <2>2. (Carrying(cli[c]) => past'.dropped) /\ (past.dropped => past'.dropped)
    <3>1. past' = [Fails(c) EXCEPT !.cut = @ \/ cli[c].pc = "flush"]
      BY <1>34 DEF Crash
    <3>2. past'.dropped = Fails(c).dropped
      BY <1>1, <3>1, FailsIs DEF Pasts
    <3>3. QED
      BY <1>1, <3>2, FailsIs
  <2>3. QED
    BY <2>1, <2>2 DEF Returned, Brings, Carrying, PassCommitted
<1>35. ASSUME NEW view \in handed, NEW passed \in BOOLEAN, CallSubmit(c, view, passed)
      PROVE  Brings(c)
  <2>1. /\ cli'[c].pc = "lock" /\ cli'[c].view = view /\ cli'[c].passed = passed
        /\ UNCHANGED <<log, row>> /\ cli[c].pc = "idle" /\ past'.dropped = past.dropped
        /\ passed => view.step \in Finishers
    BY <1>1, <1>35 DEF CallSubmit, MayStart, Process, Pasts
  <2>2. QED
    BY <2>1 DEF Moved, Returned, Brings, Carrying, Recorded, Passing, PassCommitted
<1>36. QED
  BY <1>5, <1>6, <1>7, <1>8, <1>9, <1>10, <1>11, <1>12, <1>13, <1>14, <1>15, <1>16, <1>17,
     <1>18, <1>19, <1>20, <1>21, <1>22, <1>23, <1>24, <1>25, <1>26, <1>27, <1>28, <1>29,
     <1>30, <1>31, <1>32, <1>33, <1>34, <1>35
     DEF Run, Claim, FinishIteration, Submit

LEMMA NextBrings ==
  ASSUME OnceInv, ItersFit, [Next]_vars
  PROVE  (\E c \in Cli : StepOf(c) /\ Brings(c)) \/ Stop \/ UNCHANGED vars
BY StepsAreSuch, StepsBring DEF OnceInv, Next

LEMMA ItersKept ==
  ASSUME OnceInv, ItersFit, NEW c \in Cli, StepOf(c), Brings(c)
  PROVE  ItersFit'
<1>1. /\ file.st \in State /\ cli[c].st \in State /\ cli'[c].st \in State
      /\ cli[c].st.iter < MaxIters /\ file.st.iter < MaxIters
      /\ MaxIters \in Nat \ {0} /\ cli[c].st.iter \in Nat
      /\ \A d \in Cli : d # c => cli'[d] = cli[d]
  BY ProcessIs, StatesAreNumbers, NativeAssumption DEF OnceInv, Types, StepOf, ItersFit
<1>2. Carries(c) /\ Calls(c)
  BY DEF StepOf
<1>3. file'.st.iter < MaxIters
  BY <1>1, <1>2 DEF Carries
<1>4. \A v \in handed' : v.iter < MaxIters
  <2>1. cli[c].st.active # NoView => cli[c].st.active.iter < MaxIters
    BY <1>1 DEF OnceInv, ViewsFit
  <2>2. QED
    BY <1>2, <2>1 DEF Carries, ItersFit
<1>5. cli'[c].st.iter < MaxIters
  <2>1. CASE cli'[c].st \in {cli[c].st, Read(file), DefaultState}
    BY <1>1, <2>1, DefaultIs DEF Read
  <2>2. CASE cli'[c].st = [cli[c].st EXCEPT !.active = NoView]
    BY <1>1, <2>2, UnclaimedIs
  <2>3. CASE cli'[c].st = [cli[c].st EXCEPT !.done = TRUE]
    BY <1>1, <2>3, DoneIs
  <2>4. CASE Issue(c) /\ cli'[c].st = ClaimedState(cli[c].st, cli[c].step)
    <3>1. cli[c].step \in StepIds
      BY <2>4 DEF OnceInv, PlacesFit, Fits, Issue, Telling
    <3>2. QED
      BY <1>1, <2>4, <3>1, ClaimedIs
  <2>5. CASE cli[c].st.iter + 1 < MaxIters /\ cli'[c].st = NextIterationState(cli[c].st)
    BY <1>1, <2>5, NextIterationIs
  <2>6. CASE /\ cli[c].pc = "after" \/ cli[c].pc = "pass"
             /\ cli'[c].st = SubmittedState(cli[c].st, cli[c].step)
    <3>1. cli[c].step \in StepIds
      BY <2>6 DEF OnceInv, PlacesFit, Fits, ViewsFit, Bringing, Passing, Recording, Submitting
    <3>2. QED
      BY <1>1, <2>6, <3>1, SubmittedIs
  <2>7. QED
    BY <1>2, <2>1, <2>2, <2>3, <2>4, <2>5, <2>6 DEF Carries
<1>6. cli'[c].pc = "exhaust" => cli'[c].st.iter + 1 >= MaxIters
  BY DEF Brings
<1>7. ASSUME cli'[c].call = "submit"
      PROVE  /\ cli'[c].view.iter < MaxIters
             /\ cli'[c].passed => cli'[c].view.step \in Finishers
  <2>1. cli[c].pc = "idle" => cli[c].call # "submit"
    BY DEF OnceInv, PlacesFit, Fits
  <2>2. QED
    BY <1>2, <1>7, <2>1 DEF Brings, Calls, ItersFit
<1>8. QED
  BY <1>1, <1>3, <1>4, <1>5, <1>6, <1>7 DEF ItersFit

\* Whoever finds the iterations exhausted finds them done.
LEMMA ExhaustedIsDone ==
  ASSUME OnceInv, OrderInv, ItersFit, ~past.crossed, NEW c \in Cli, cli[c].pc = "exhaust"
  PROVE  \A i \in 0 .. MaxIters - 1 : Finished(log, i)
<1>1. /\ cli[c].st.iter + 1 >= MaxIters /\ cli[c].st.iter < MaxIters
      /\ cli[c].st.iter \in Nat /\ MaxIters \in Nat
  BY ProcessIs, StatesAreNumbers, NativeAssumption DEF OnceInv, Types, ItersFit
<1>2. Finished(log, cli[c].st.iter) /\ FinishedBefore(log, past.crossed, cli[c].st.iter)
  BY DEF OrderInv, TurnsKept, StatesReached, Reached, Through, Kept
<1>3. ASSUME NEW i \in 0 .. MaxIters - 1
      PROVE  i = cli[c].st.iter \/ (i \in 0 .. MaxIters /\ i < cli[c].st.iter)
  BY <1>1, <1>3
<1>4. QED
  BY <1>2, <1>3 DEF FinishedBefore, Kept

\* A row that cannot be set to succeeded has ended.
LEMMA RefusedHasEnded ==
  ASSUME OnceInv, ~RowUpdatable("succeeded")
  PROVE  RowTerminal
<1>1. \E k \in DOMAIN log : log[k].type \in DOMAIN EndOf
  BY DEF RowUpdatable, Store!LifecycleAllowed, Store!Terminated, Store!TerminalEventTypes,
     EndOf
<1>2. QED
  BY <1>1 DEF OnceInv, EndedOnce

\* A row that has ended stays as it is.
LEMMA EndedRowStays ==
  ASSUME OnceInv, RowTerminal, NEW c \in Cli, StepOf(c)
  PROVE  row' = row
<1>1. Writes(c)
  BY StepsWrite DEF OnceInv
<1>2. \E k \in DOMAIN log : log[k].type \in DOMAIN EndOf
  BY DEF OnceInv, EndedOnce
<1>3. QED
  BY <1>1, <1>2 DEF Writes, RowWrites

LEMMA PassKept ==
  ASSUME OnceInv, OrderInv, PassInv, [Next]_vars
  PROVE  PassInv'
<1>1. ASSUME NEW c \in Cli, StepOf(c), Brings(c)
      PROVE  PassInv'
  <2>1. ItersFit /\ ItersFit'
    BY <1>1, ItersKept DEF PassInv
  <2>2. SUFFICES ASSUME Mode = "gatekeeper"
                 PROVE  /\ NothingBroughtLate'
                        /\ (~past'.dropped /\ PassCommitted') =>
                             \/ RowTerminal' /\ (row' = "failed" => past'.crossed)
                             \/ \E d \in Cli : Carrying(cli'[d])
    BY <2>1 DEF PassInv
  <2>3. /\ Apart /\ Enters(c)
        /\ \A d \in Cli : d # c => cli'[d] = cli[d]
        /\ ~past'.crossed => ~past.crossed
    BY <1>1, <2>2 DEF StepOf, Calls, OrderInv
  <2>4. /\ NothingBroughtLate
        /\ (~past.dropped /\ PassCommitted) =>
             \/ RowTerminal /\ (row = "failed" => past.crossed)
             \/ \E d \in Cli : Carrying(cli[d])
    BY <2>2 DEF PassInv
  <2>5. ASSUME ~past'.crossed, row' = "failed"
        PROVE  \A i \in 0 .. MaxIters - 1 : Finished(log', i)
    <3>1. \A i \in 0 .. MaxIters - 1 : Finished(log, i)
      BY <1>1, <2>1, <2>3, <2>4, <2>5, ExhaustedIsDone DEF Brings, NothingBroughtLate
    <3>2. Extends(log, log')
      BY <1>1, StepsWrite, Extended DEF OnceInv
    <3>3. QED
      BY <3>1, <3>2, CommittedStays DEF Finished
  <2>6. ASSUME ~past'.crossed, NEW d \in Cli, Recorded(cli'[d])
        PROVE  row' # "failed"
    <3>1. row' = "failed" => row = "failed" \/ cli[c].pc = "exhaust"
      BY <1>1 DEF Brings
    <3>2. CASE d # c
      <4>1. Recorded(cli[d]) /\ cli[d].pc \notin {"idle", "lock"}
        BY <2>3, <2>6, <3>2 DEF Recorded, Recording, Passing, Closing
      <4>2. cli[c].pc # "exhaust"
        BY <2>3, <2>6, <3>2, <4>1, OthersWait
      <4>3. QED
        BY <2>3, <2>4, <2>6, <3>1, <4>1, <4>2 DEF NothingBroughtLate
    <3>3. CASE d = c /\ Recorded(cli[c])
      <4>1. cli[c].pc # "exhaust"
        BY <3>3 DEF Recorded, Recording, Passing, Closing
      <4>2. QED
        BY <2>3, <2>4, <2>6, <3>1, <3>3, <4>1 DEF NothingBroughtLate
    <3>4. CASE d = c /\ Commit(c)
      <4>1. cli[c].pc = "commit" /\ row' = row
        BY <3>4 DEF Commit
      <4>2. /\ cli[c].call = "submit" /\ cli[c].view \in View
            /\ ~Committed(log, cli[c].view.iter, cli[c].view.step)
        BY <4>1, ProcessIs DEF OnceInv, Types, PlacesFit, Fits, GuardsHold, Submitting
      <4>3. cli[c].view.iter < MaxIters /\ cli[c].view.step \in StepIds
        BY <2>1, <4>2 DEF ItersFit, OnceInv, ViewsFit
      <4>4. cli[c].view.iter \in 0 .. MaxIters - 1
        BY <4>2, <4>3, ViewIs, NativeAssumption
      <4>5. QED
        BY <2>3, <2>4, <2>6, <4>1, <4>2, <4>3, <4>4 DEF Finished, NothingBroughtLate
    <3>5. d = c => Recorded(cli[c]) \/ Commit(c)
      BY <2>3, <2>6 DEF Enters, Recorded
    <3>6. QED
      BY <3>2, <3>3, <3>4, <3>5
  <2>7. ASSUME ~past'.dropped, PassCommitted'
        PROVE  \/ RowTerminal' /\ (row' = "failed" => past'.crossed)
               \/ \E d \in Cli : Carrying(cli'[d])
    <3>1. ~past.dropped /\ (PassCommitted \/ Carrying(cli'[c]))
      BY <1>1, <2>7 DEF Brings
    <3>2. CASE RowTerminal /\ (row = "failed" => past.crossed)
      <4>1. row' = row
        BY <1>1, <3>2, EndedRowStays
      <4>2. QED
        BY <2>3, <3>2, <4>1 DEF RowTerminal
    <3>3. ASSUME NEW d \in Cli, d # c, Carrying(cli[d])
          PROVE  Carrying(cli'[d])
      BY <2>3, <3>3
    <3>4. CASE Carrying(cli[c])
      <4>1. \/ Carrying(cli'[c]) \/ row' = "succeeded"
            \/ row' = row /\ ~RowUpdatable("succeeded")
        BY <1>1, <2>2, <2>7, <3>4 DEF Brings
      <4>2. ASSUME row' = row, ~RowUpdatable("succeeded")
            PROVE  RowTerminal' /\ (row' = "failed" => past'.crossed)
        <5>1. RowTerminal
          BY <4>2, RefusedHasEnded
        <5>2. row = "failed" => past.crossed
          BY <2>4, <3>4, CarryingIs DEF NothingBroughtLate
        <5>3. QED
          BY <2>3, <4>2, <5>1, <5>2 DEF RowTerminal
      <4>3. QED
        BY <4>1, <4>2 DEF RowTerminal
    <3>5. QED
      BY <2>4, <3>1, <3>2, <3>3, <3>4
  <2>8. QED
    BY <2>5, <2>6, <2>7 DEF NothingBroughtLate
<1>2. CASE Stop
  <2>1. row' = "stopped" /\ UNCHANGED <<file, handed, cli, past>>
    BY <1>2 DEF Stop, UpdateRow
  <2>2. QED
    BY <2>1 DEF PassInv, ItersFit, NothingBroughtLate, RowTerminal
<1>3. CASE UNCHANGED vars
  BY <1>3 DEF vars, PassInv, ItersFit, PassCommitted, NothingBroughtLate, RowTerminal
<1>4. QED
  BY <1>1, <1>2, <1>3, NextBrings DEF PassInv

LEMMA PassInit ==
  ASSUME Init
  PROVE  PassInv
<1>1. /\ log = <<RunEvent("RunCreated")>> /\ row = "queued" /\ handed = {}
      /\ file.st = DefaultState /\ \A c \in Cli : cli[c] = Idle
  BY DEF Init
<1>2. ~PassCommitted
  BY <1>1 DEF PassCommitted, RunEvent, Event
<1>3. DefaultState.iter < MaxIters
  BY DefaultIs, NativeAssumption
<1>4. QED
  BY <1>1, <1>2, <1>3, IdleIs DEF PassInv, ItersFit, NothingBroughtLate, Recorded, Recording,
     Passing, Closing

LEMMA PassInvariant == Spec => [](OnceInv /\ OrderInv /\ PassInv)
<1>1. Init => PassInv
  BY PassInit
<1>2. OnceInv /\ OrderInv /\ PassInv /\ [Next]_vars => PassInv'
  BY PassKept
<1>3. QED
  BY <1>1, <1>2, OrderInvariant, PTL DEF Spec

\* Once the calls have returned, a GateKeeper's committed pass has ended the run, whatever
\* ran and died beside its submission, unless the submission itself was cut off by a death
\* or by an event the store refused; and it has ended it as succeeded, unless the user
\* stopped it or a claim beside another call exhausted it
\* (_finish_runner_gatekeeper_success, _finalize_terminal_run).
THEOREM PassesEndRuns == Spec => []PassEndsTheRun
<1>1. PassInv => PassEndsTheRun
  BY DEF PassInv, PassCommitted, Carrying, RowTerminal, PassEndsTheRun
<1>2. QED
  BY <1>1, PassInvariant, PTL
=============================================================================
