------------------------- MODULE HeadlessRunnerProofs -------------------------
(***************************************************************************)
(* What a headless run keeps for every strategy, set of controls, number   *)
(* of iterations and limit of retries: its steps are committed in order,   *)
(* its success is earned, and a stop that a role saw is not swallowed.     *)
(*                                                                         *)
(* The worker's own thread knows at each place what became of the others:  *)
(* while it goes from step to step none of them stirs, while it waits for  *)
(* a group only the members it has not come to do, and once something is   *)
(* wrong the step it was at says what.                                     *)
(***************************************************************************)
EXTENDS HeadlessRunner, FiniteSetTheorems, TLAPS

-----------------------------------------------------------------------------
(* Numbers and the strategy                                                *)

\* The first element of a set of numbers.
LEMMA FirstOf ==
  ASSUME NEW S \in SUBSET Nat, S # {}
  PROVE  \E m \in S : \A k \in S : m <= k
<1>1. PICK m \in S : \A k \in S : ~(<<k, m>> \in OpToRel(<, Nat))
  BY NatLessThanWellFounded, WFMin
<1>2. \A k \in S : ~(k < m)
  BY <1>1 DEF OpToRel
<1>3. QED
  BY <1>2

\* No step occurs twice in the strategy.
LEMMA PlacesAreOwn ==
  \A i, k \in 1 .. Len(Strategy) : Strategy[i] = Strategy[k] => i = k
<1>1. Len(Strategy) \in Nat /\ Strategy \in [1 .. Len(Strategy) -> StepIds]
  BY StrategyAssumption
<1>2. Strategy \in Surjection(1 .. Len(Strategy), StepIds)
  BY <1>1 DEF Surjection, StepIds
<1>3. IsFiniteSet(1 .. Len(Strategy)) /\ Cardinality(1 .. Len(Strategy)) = Len(Strategy)
  <2>1. 1 \in Int /\ Len(Strategy) \in Int
    BY <1>1
  <2>2. /\ IsFiniteSet(1 .. Len(Strategy))
        /\ Cardinality(1 .. Len(Strategy)) =
             IF 1 > Len(Strategy) THEN 0 ELSE Len(Strategy) - 1 + 1
    BY <2>1, FS_Interval
  <2>3. QED
    BY <1>1, <2>2
<1>4. Cardinality(1 .. Len(Strategy)) = Cardinality(StepIds)
  BY <1>3, StrategyAssumption
<1>5. Strategy \in Injection(1 .. Len(Strategy), StepIds)
  BY <1>2, <1>3, <1>4, FS_SurjSameCardinalityImpliesInj
<1>6. QED
  BY <1>5 DEF Injection, IsInjective

LEMMA IndexIsPlace ==
  /\ \A s \in StepIds : IndexOf(s) \in 1 .. Len(Strategy) /\ Strategy[IndexOf(s)] = s
  /\ \A k \in 1 .. Len(Strategy) : Strategy[k] \in StepIds /\ IndexOf(Strategy[k]) = k
<1>1. DOMAIN Strategy = 1 .. Len(Strategy)
  BY StrategyAssumption
<1>2. \A s \in StepIds : IndexOf(s) \in 1 .. Len(Strategy) /\ Strategy[IndexOf(s)] = s
  BY <1>1 DEF IndexOf, StepIds
<1>3. \A k \in 1 .. Len(Strategy) : Strategy[k] \in StepIds
  BY <1>1 DEF StepIds
<1>4. QED
  BY <1>2, <1>3, PlacesAreOwn

-----------------------------------------------------------------------------
(* The replay of a stream is a recursive function; that it exists, and     *)
(* goes on with the next event, is shown by the least place where it would *)
(* not.                                                                    *)

\* g holds the replay of every prefix of events up to its n-th.
Replays(g, events, n) ==
  g = [k \in 0 .. n |-> IF k = 0 THEN EmptySnapshot ELSE Apply(g[k - 1], events[k])]

\* Two streams agree up to their n-th event.
Agree(events, longer, n) == \A k \in 1 .. n : longer[k] = events[k]

LEMMA ReplayExists ==
  ASSUME NEW events, NEW n \in Nat
  PROVE  \E g : Replays(g, events, n)
<1> DEFINE Bad == {k \in Nat : ~\E g : Replays(g, events, k)}
<1>1. SUFFICES Bad = {}
  OBVIOUS
<1>2. SUFFICES ASSUME Bad # {} PROVE FALSE
  OBVIOUS
<1>3. PICK m \in Bad : \A k \in Bad : m <= k
  <2>1. Bad \in SUBSET Nat
    OBVIOUS
  <2> HIDE DEF Bad
  <2>2. QED
    BY <1>2, <2>1, FirstOf
<1>4. m \in Nat /\ ~\E g : Replays(g, events, m)
  OBVIOUS
<1>5. CASE m = 0
  <2> DEFINE g == [k \in 0 .. 0 |-> EmptySnapshot]
  <2>1. Replays(g, events, 0)
    BY DEF Replays
  <2>2. QED
    BY <1>4, <1>5, <2>1
<1>6. CASE m # 0
  <2>1. m - 1 \in Nat /\ m - 1 \notin Bad
    BY <1>3, <1>4, <1>6
  <2>2. PICK g : Replays(g, events, m - 1)
    BY <2>1
  <2> DEFINE h == [k \in 0 .. m |->
                     IF k = 0 THEN EmptySnapshot ELSE Apply(g[k - 1], events[k])]
  <2>3. \A k \in 0 .. m : k # 0 => k - 1 \in 0 .. m - 1
    BY <1>4
  <2>4. \A k \in 0 .. m - 1 : h[k] = g[k]
    <3>1. g = [k \in 0 .. m - 1 |->
                 IF k = 0 THEN EmptySnapshot ELSE Apply(g[k - 1], events[k])]
      BY <2>2 DEF Replays
    <3>2. \A k \in 0 .. m - 1 :
            g[k] = IF k = 0 THEN EmptySnapshot ELSE Apply(g[k - 1], events[k])
      BY <3>1
    <3>3. \A k \in 0 .. m - 1 : k \in 0 .. m
      BY <1>4
    <3>4. QED
      BY <3>2, <3>3
  <2>5. h = [k \in 0 .. m |->
               IF k = 0 THEN EmptySnapshot ELSE Apply(h[k - 1], events[k])]
    BY <2>3, <2>4
  <2>6. Replays(h, events, m)
    BY <2>5 DEF Replays
  <2>7. QED
    BY <1>4, <2>6
<1>7. QED
  BY <1>5, <1>6

\* The replays of two streams agree as long as the streams do.
LEMMA ReplaysAgree ==
  ASSUME NEW events, NEW longer, NEW n \in Nat, NEW m \in Nat, n <= m,
         Agree(events, longer, n), NEW g, NEW h, Replays(g, events, n), Replays(h, longer, m)
  PROVE  g[n] = h[n]
<1> DEFINE Bad == {k \in 0 .. n : g[k] # h[k]}
<1>1. /\ \A k \in 0 .. n :
           g[k] = IF k = 0 THEN EmptySnapshot ELSE Apply(g[k - 1], events[k])
      /\ \A k \in 0 .. m :
           h[k] = IF k = 0 THEN EmptySnapshot ELSE Apply(h[k - 1], longer[k])
  <2>1. g = [k \in 0 .. n |-> IF k = 0 THEN EmptySnapshot ELSE Apply(g[k - 1], events[k])]
    BY DEF Replays
  <2>2. h = [k \in 0 .. m |-> IF k = 0 THEN EmptySnapshot ELSE Apply(h[k - 1], longer[k])]
    BY DEF Replays
  <2>3. QED
    BY <2>1, <2>2
<1>2. SUFFICES ASSUME Bad # {} PROVE FALSE
  OBVIOUS
<1>3. PICK b \in Bad : \A k \in Bad : b <= k
  <2>1. Bad \in SUBSET Nat
    OBVIOUS
  <2> HIDE DEF Bad
  <2>2. QED
    BY <1>2, <2>1, FirstOf
<1>4. b \in 0 .. n /\ b \in 0 .. m /\ g[b] # h[b]
  OBVIOUS
<1>5. b # 0
  BY <1>1, <1>4
<1>6. b - 1 \in 0 .. n /\ b \in 1 .. n /\ b - 1 \notin Bad
  BY <1>3, <1>4, <1>5
<1>7. g[b - 1] = h[b - 1]
  BY <1>6
<1> HIDE DEF Bad
<1>8. longer[b] = events[b]
  BY <1>6 DEF Agree
<1>9. g[b] = Apply(g[b - 1], events[b]) /\ h[b] = Apply(h[b - 1], longer[b])
  BY <1>1, <1>4, <1>5
<1>10. QED
  BY <1>4, <1>7, <1>8, <1>9

LEMMA SnapshotIs ==
  ASSUME NEW events, Len(events) \in Nat, NEW g, Replays(g, events, Len(events))
  PROVE  Snapshot(events) = g[Len(events)]
<1> DEFINE h == CHOOSE x : Replays(x, events, Len(events))
<1>1. Snapshot(events) = h[Len(events)]
  BY DEF Snapshot, Replays
<1>2. Replays(h, events, Len(events))
  <2>1. \E x : Replays(x, events, Len(events))
    OBVIOUS
  <2>2. QED
    BY <2>1
<1> HIDE DEF h
<1>3. h[Len(events)] = g[Len(events)]
  BY <1>2, ReplaysAgree DEF Agree
<1>4. QED
  BY <1>1, <1>3

\* Of no events nothing is replayed, and one more event is one more to apply.
LEMMA SnapshotOfNone ==
  Snapshot(<<>>) = EmptySnapshot
<1>1. Len(<<>>) = 0
  OBVIOUS
<1>2. PICK g : Replays(g, <<>>, 0)
  BY ReplayExists
<1>3. g[0] = EmptySnapshot
  BY <1>2 DEF Replays
<1>4. QED
  BY <1>1, <1>2, <1>3, SnapshotIs

LEMMA SnapshotOfOneMore ==
  ASSUME NEW S, NEW events \in Seq(S), NEW e
  PROVE  Snapshot(Append(events, e)) = Apply(Snapshot(events), e)
<1>1. events \in Seq(S \cup {e}) /\ e \in S \cup {e}
  OBVIOUS
<1>2. PICK n \in Nat, m \in Nat, longer \in {Append(events, e)} :
        n = Len(events) /\ m = n + 1
  <2>1. Len(events) \in Nat /\ Len(events) + 1 \in Nat
    BY <1>1
  <2>2. QED
    BY <2>1
<1>3. /\ n <= m /\ m \in 0 .. m /\ m # 0 /\ m - 1 = n /\ Len(longer) = m /\ longer[m] = e
      /\ \A k \in 1 .. n : longer[k] = events[k]
  BY <1>1, <1>2
<1>4. PICK g, h : Replays(g, events, n) /\ Replays(h, longer, m)
  BY ReplayExists
<1>5. Snapshot(events) = g[n] /\ Snapshot(longer) = h[m]
  BY <1>2, <1>3, <1>4, SnapshotIs
<1>6. g[n] = h[n]
  <2>1. Agree(events, longer, n)
    BY <1>3 DEF Agree
  <2>2. QED
    BY <1>3, <1>4, <2>1, ReplaysAgree
<1>7. h[m] = Apply(h[n], e)
  <2>1. h = [k \in 0 .. m |-> IF k = 0 THEN EmptySnapshot ELSE Apply(h[k - 1], longer[k])]
    BY <1>4 DEF Replays
  <2>2. h[m] = IF m = 0 THEN EmptySnapshot ELSE Apply(h[m - 1], longer[m])
    BY <1>3, <2>1
  <2>3. QED
    BY <1>3, <2>2
<1>8. QED
  BY <1>2, <1>5, <1>6, <1>7

-----------------------------------------------------------------------------
(* The inductive invariant                                                 *)

Resting == {"idle", "ok"}
StepsRest == \A s \in StepIds : job[s].pc \in Resting

\* What the worker's thread is doing.
InControls == main.pc \in {"signals", "control"}
Through == main.pc \in {"leaving", "ended"}
Troubles == {"role", "crash", "unsafe", "stop"}
Troubled == (InControls /\ main.cause = "role") \/ (Through /\ main.cause \in Troubles)

\* The causes of the places.
Causes ==
  /\ main.pc \in {"top", "plan", "waiting", "committing"} => main.cause = "none"
  /\ InControls => main.cause \in {"none", "role"}
  /\ Through => main.cause # "none"

\* A group is a part of the strategy, in its order; more than one step is a parallel group.
GroupShape ==
  /\ \A i, k \in DOMAIN main.group : i < k =>
       /\ GroupOf[main.group[i]] = GroupOf[main.group[k]] /\ GroupOf[main.group[i]] # NoGroup
       /\ IndexOf(main.group[i]) < IndexOf(main.group[k])
  /\ main.pc \in {"waiting", "committing"} =>
       /\ main.at \in DOMAIN main.group /\ Len(main.group) < main.index
       /\ \A i \in DOMAIN main.group :
            main.group[i] = Strategy[main.index - 1 - Len(main.group) + i]

\* A step stirs while its group is awaited, or after something went wrong there.
StepsFollow ==
  \A s \in StepIds : job[s].pc \notin Resting =>
    /\ main.pc = "waiting" \/ Troubled
    /\ \E i \in DOMAIN main.group : main.at <= i /\ main.group[i] = s

\* What went wrong is at the step the worker has come to.
TroubleIsHere ==
  Troubled =>
    \/ StepsRest
    \/ job[main.group[main.at]].pc \in {"failed", "broke"}
    \/ job[main.group[main.at]].pc = "halted" /\ Through /\ main.cause = "stop"
    \/ /\ job[main.group[main.at]].pc = "unsafe"
       /\ \A s \in StepIds : s # main.group[main.at] => job[s].pc \in Resting

\* A control stirs while it is called; a stop it saw, or the failure of a blocking one, is
\* what the worker leaves with.
ControlsFollow ==
  /\ main.pc = "control" => main.calling \in ControlIds
  /\ \A c \in ControlIds : ~(main.pc = "control" /\ main.calling = c) =>
       /\ ~Alive(c)
       /\ job[c].pc = "halted" => Through /\ main.cause = "stop"
       /\ (Blocking(c) /\ job[c].pc \notin Resting) => Through /\ main.cause \in Troubles

\* The row is written last, when every thread has ended, or not at all.
RowFollows ==
  /\ main.pc # "ended" => row.status = "running"
  /\ main.pc = "ended" =>
       /\ ThreadsJoined
       /\ \/ row.status = Outcome[main.cause]
          \/ row.status = "running" /\ main.cause \in Handled

\* Who is told to do something between two steps is a control.
NobodyToldAStep ==
  (main.pc \in {"top", "plan"} \/ (InControls /\ main.cause = "none")) =>
    log.snapshot.step \notin StepIds

Done(i, s) == Committed(log.events, i, s)

\* Committed are the steps of earlier iterations and the first n of this one.
CommittedUpTo(n) ==
  \A i \in 0 .. MaxIters, s \in StepIds :
    Done(i, s) <=> (i < main.iter \/ (i = main.iter /\ IndexOf(s) <= n))

Progress ==
  /\ main.pc \notin {"top", "leaving", "ended"} => main.iter < MaxIters
  /\ main.pc = "top" => CommittedUpTo(0)
  /\ main.pc = "plan" => CommittedUpTo(main.index - 1)
  /\ main.pc = "waiting" => CommittedUpTo(main.index - 1 - Len(main.group))
  /\ main.pc = "committing" => CommittedUpTo(main.index - 2 - Len(main.group) + main.at)
  /\ (InControls /\ main.cause = "none") => CommittedUpTo(Len(Strategy))

\* What a success was reached over stays the end of the stream.
SuccessRests ==
  Through =>
    /\ main.cause = "close" =>
         /\ row.mode = "gatekeeper"
         /\ \E k \in DOMAIN log.events : k = Len(log.events) - 1 /\ PassOfFinisher(log.events[k])
    /\ main.cause = "rounds" =>
         /\ row.mode = "rounds"
         /\ \A i \in 0 .. MaxIters - 1, s \in StepIds : Done(i, s)

HeadlessInv ==
  /\ Types /\ Causes /\ GroupShape /\ StepsFollow /\ TroubleIsHere /\ ControlsFollow
  /\ RowFollows /\ NobodyToldAStep /\ Progress /\ SuccessRests /\ StrategyInOrder

-----------------------------------------------------------------------------
(* The strategy, its groups and the cursor                                 *)


\* The group that starts at a place is a piece of the strategy; more than one step share
\* their parallel group.
LEMMA GroupIsPiece ==
  ASSUME NEW k \in 1 .. Len(Strategy)
  PROVE  /\ GroupFrom(k) \in Seq(StepIds) /\ Len(GroupFrom(k)) \in 1 .. Len(Strategy) + 1 - k
         /\ \A i \in 1 .. Len(GroupFrom(k)) : GroupFrom(k)[i] = Strategy[k - 1 + i]
         /\ \A i, j \in 1 .. Len(GroupFrom(k)) : i < j =>
              /\ GroupOf[GroupFrom(k)[i]] = GroupOf[GroupFrom(k)[j]]
              /\ GroupOf[GroupFrom(k)[i]] # NoGroup
<1>1. Len(Strategy) \in Nat /\ Strategy \in Seq(StepIds)
  BY StrategyAssumption
<1>2. CASE GroupOf[Strategy[k]] = NoGroup
  <2>1. GroupFrom(k) = <<Strategy[k]>> /\ Strategy[k] \in StepIds
    BY <1>1, <1>2 DEF GroupFrom
  <2>2. QED
    BY <1>1, <2>1
<1>3. CASE GroupOf[Strategy[k]] # NoGroup
  <2> DEFINE Stops(m) == /\ \A i \in k .. m : GroupOf[Strategy[i]] = GroupOf[Strategy[k]]
                         /\ m < Len(Strategy) => GroupOf[Strategy[m + 1]] # GroupOf[Strategy[k]]
             Others == {i \in k .. Len(Strategy) : GroupOf[Strategy[i]] # GroupOf[Strategy[k]]}
  <2>1. \E m \in k .. Len(Strategy) : Stops(m)
    <3>1. CASE Others = {}
      BY <1>1, <3>1
    <3>2. CASE Others # {}
      <4>1. PICK m \in Others : \A i \in Others : m <= i
        <5>1. Others \in SUBSET Nat
          BY <1>1
        <5> HIDE DEF Others
        <5>2. QED
          BY <3>2, <5>1, FirstOf
      <4>2. m \in k .. Len(Strategy) /\ m # k /\ GroupOf[Strategy[m]] # GroupOf[Strategy[k]]
        BY <4>1
      <4>3. \A i \in k .. (m - 1) : i \notin Others /\ i \in k .. Len(Strategy)
        BY <1>1, <4>1, <4>2
      <4>4. m - 1 \in k .. Len(Strategy) /\ (m - 1) + 1 = m
        BY <1>1, <4>2
      <4>5. \A i \in k .. (m - 1) : GroupOf[Strategy[i]] = GroupOf[Strategy[k]]
        BY <4>3
      <4>6. QED
        BY <4>2, <4>4, <4>5
    <3>3. QED
      BY <3>1, <3>2
  <2> DEFINE last == CHOOSE m \in k .. Len(Strategy) : Stops(m)
  <2>2. last \in k .. Len(Strategy) /\ Stops(last)
    <3> HIDE DEF Stops
    <3>1. QED
      BY <2>1
  <2>3. GroupFrom(k) = SubSeq(Strategy, k, last)
    BY <1>3 DEF GroupFrom
  <2> HIDE DEF last
  <2>4. /\ GroupFrom(k) \in Seq(StepIds) /\ Len(GroupFrom(k)) = last + 1 - k
        /\ \A i \in 1 .. last + 1 - k : GroupFrom(k)[i] = Strategy[k - 1 + i]
    BY <1>1, <2>2, <2>3
  <2>5. \A i \in 1 .. last + 1 - k : k - 1 + i \in k .. last
    BY <1>1, <2>2
  <2>6. \A i \in 1 .. last + 1 - k : GroupOf[GroupFrom(k)[i]] = GroupOf[Strategy[k]]
    BY <2>2, <2>4, <2>5
  <2>7. QED
    BY <1>1, <1>3, <2>2, <2>4, <2>6
<1>4. QED
  BY <1>2, <1>3

\* Between two steps the cursor stands after the last step committed.
LEMMA CursorIsIndex ==
  ASSUME Types, NobodyToldAStep, Progress, main.pc = "plan"
  PROVE  NextIndex = main.index
<1> DEFINE n == main.index - 1
           done == {k \in DOMAIN Strategy : Committed(log.events, main.iter, Strategy[k])}
           newest == CHOOSE k \in done : \A j \in done : j <= k
<1>1. CASE main.index > Len(Strategy)
  BY <1>1 DEF NextIndex
<1>2. CASE ~(main.index > Len(Strategy))
  <2>1. /\ main.index \in 1 .. Len(Strategy) /\ Len(Strategy) \in Nat
        /\ main.iter \in 0 .. MaxIters /\ DOMAIN Strategy = 1 .. Len(Strategy)
        /\ log.events \in Seq(Events) /\ log.snapshot.step \notin StepIds
    BY <1>2, StrategyAssumption DEF Types, Places, NobodyToldAStep
  <2>2. \A k \in 1 .. Len(Strategy) : Done(main.iter, Strategy[k]) <=> k <= n
    BY <2>1, IndexIsPlace, RunnerAssumption DEF Progress, CommittedUpTo
  <2>3. done = {k \in DOMAIN Strategy : Done(main.iter, Strategy[k])}
    BY DEF Done
  <2>4. done = 1 .. n
    BY <2>1, <2>2, <2>3
  <2>5. NextIndex = IF done # {} THEN 1 + newest ELSE main.index
    BY <1>2, <2>1 DEF NextIndex, Cursor
  <2>6. CASE n = 0
    BY <2>1, <2>4, <2>5, <2>6
  <2>7. CASE n # 0
    <3>1. n \in done /\ \A j \in done : j <= n
      BY <2>1, <2>4, <2>7
    <3> HIDE DEF done
    <3>2. \A k \in done : (\A j \in done : j <= k) => k = n
      BY <2>1, <2>4, <3>1
    <3>3. newest = n
      BY <3>1, <3>2
    <3> HIDE DEF newest
    <3>4. QED
      BY <2>1, <2>5, <3>1, <3>3
  <2>8. QED
    BY <2>6, <2>7
<1>3. QED
  BY <1>1, <1>2

-----------------------------------------------------------------------------
(* What an event adds to the stream                                        *)

LEMMA EventsOfTheRun ==
  ASSUME Types, NEW step \in Jobs \cup {NoStep}, NEW passed \in BOOLEAN,
         NEW type \in {"IterationStarted", "IterationCompleted", "StepInstructionIssued",
                       "StepCommitted"}
  PROVE  /\ Event(type, step, passed) \in Events
         /\ Event(type, step, passed).type = type /\ Event(type, step, passed).step = step
         /\ Event(type, step, passed).iter = main.iter
         /\ Event(type, step, passed).passed = passed
<1>1. main.iter \in Nat
  BY RunnerAssumption DEF Types, Places
<1>2. QED
  BY <1>1 DEF Event, Events

LEMMA IterationEvents ==
  ASSUME Types, NEW type \in {"IterationStarted", "IterationCompleted"}
  PROVE  /\ IterationEvent(type) \in Events /\ IterationEvent(type).type = type
         /\ IterationEvent(type).iter = main.iter
<1>1. main.iter \in Nat
  BY RunnerAssumption DEF Types, Places
<1>2. QED
  BY <1>1 DEF IterationEvent, Event, Events

\* An instruction names the step that is told, a commit takes it back.
LEMMA ReplayedStep ==
  ASSUME NEW s \in Replayed, NEW e \in Events
  PROVE  /\ Apply(s, e) \in Replayed
         /\ e.type = "StepInstructionIssued" => Apply(s, e).step = e.step
         /\ e.type = "StepCommitted" => Apply(s, e).step = NoStep
         /\ e.type \in {"IterationStarted", "IterationCompleted"} => Apply(s, e).step = s.step
<1>1. s.lifecycle \notin Ended
  BY DEF Replayed, Ended
<1>2. DOMAIN EndOf = {"RunClosed", "RunStopped", "RunFailed"}
  BY DEF EndOf
<1>3. CASE e.type = "StepInstructionIssued"
  <2>1. Apply(s, e) = [lifecycle |-> "awaiting_actor", step |-> e.step, iter |-> e.iter,
                       pending |-> TRUE]
    BY <1>1, <1>2, <1>3 DEF Apply
  <2>2. QED
    BY <1>3, <2>1 DEF Replayed, Events
<1>4. CASE e.type = "IterationStarted"
  <2>1. Apply(s, e) = [s EXCEPT !.iter = e.iter]
    BY <1>1, <1>2, <1>4 DEF Apply
  <2>2. QED
    BY <1>4, <2>1 DEF Replayed, Events
<1>5. CASE e.type = "StepCommitted"
  <2>1. Apply(s, e) = [s EXCEPT !.step = NoStep, !.pending = FALSE]
    BY <1>1, <1>2, <1>5 DEF Apply
  <2>2. QED
    BY <1>5, <2>1 DEF Replayed, Events
<1>6. CASE e.type = "IterationCompleted"
  <2>1. Apply(s, e) = s
    BY <1>1, <1>2, <1>6 DEF Apply
  <2>2. QED
    BY <1>6, <2>1 DEF Replayed, Events
<1>7. QED
  BY <1>3, <1>4, <1>5, <1>6 DEF Events

\* One more event is one more at the end, and one more to replay.
LEMMA LogGrows ==
  ASSUME Types, NEW e \in Events, log' = Logged(log, e)
  PROVE  /\ log' \in [events : Seq(Events), snapshot : Replayed]
         /\ Len(log.events) \in Nat /\ Len(log'.events) = Len(log.events) + 1
         /\ DOMAIN log.events = 1 .. Len(log.events)
         /\ DOMAIN log'.events = 1 .. Len(log.events) + 1
         /\ \A k \in 1 .. Len(log.events) : log'.events[k] = log.events[k]
         /\ log'.events[Len(log.events) + 1] = e
         /\ log'.snapshot = Apply(log.snapshot, e)
         /\ \A i, s : Done(i, s)' <=>
              Done(i, s) \/ (e.type = "StepCommitted" /\ e.iter = i /\ e.step = s)
<1>1. log.events \in Seq(Events) /\ log.snapshot \in Replayed
  BY DEF Types, Places
<1>2. Apply(log.snapshot, e) \in Replayed
  BY <1>1, ReplayedStep
<1>3. log'.events = Append(log.events, e) /\ log'.snapshot = Apply(log.snapshot, e)
  BY DEF Logged
<1>4. log' \in [events : Seq(Events), snapshot : Replayed]
  BY <1>1, <1>2 DEF Logged
<1>5. /\ Len(log.events) \in Nat /\ Len(log'.events) = Len(log.events) + 1
      /\ DOMAIN log.events = 1 .. Len(log.events)
      /\ DOMAIN log'.events = 1 .. Len(log.events) + 1
      /\ \A k \in 1 .. Len(log.events) : log'.events[k] = log.events[k]
      /\ log'.events[Len(log.events) + 1] = e
  BY <1>1, <1>3
<1>6. ASSUME NEW i, NEW s
      PROVE  Done(i, s)' <=>
               Done(i, s) \/ (e.type = "StepCommitted" /\ e.iter = i /\ e.step = s)
  <2>1. ASSUME Done(i, s)
        PROVE  Done(i, s)'
    <3>1. PICK k \in 1 .. Len(log.events) :
            /\ log.events[k].type = "StepCommitted"
            /\ log.events[k].iter = i /\ log.events[k].step = s
      BY <1>5, <2>1 DEF Done, Committed
    <3>2. k \in DOMAIN log'.events /\ log'.events[k] = log.events[k]
      BY <1>5
    <3>3. QED
      BY <3>1, <3>2 DEF Done, Committed
  <2>2. ASSUME e.type = "StepCommitted" /\ e.iter = i /\ e.step = s
        PROVE  Done(i, s)'
    BY <1>5, <2>2 DEF Done, Committed
  <2>3. ASSUME Done(i, s)', ~(e.type = "StepCommitted" /\ e.iter = i /\ e.step = s)
        PROVE  Done(i, s)
    <3>1. PICK k \in 1 .. Len(log.events) + 1 :
            /\ log'.events[k].type = "StepCommitted"
            /\ log'.events[k].iter = i /\ log'.events[k].step = s
      BY <1>5, <2>3 DEF Done, Committed
    <3>2. k \in 1 .. Len(log.events)
      BY <1>5, <2>3, <3>1
    <3>3. QED
      BY <1>5, <3>1, <3>2 DEF Done, Committed
  <2>4. QED
    BY <2>1, <2>2, <2>3
<1>7. QED
  BY <1>3, <1>4, <1>5, <1>6

\* StrategyInOrder of a sequence of events, in a run of a completion mode.
CommittedBy(events, n, i, s) ==
  \E k \in 1 .. n : /\ events[k].type = "StepCommitted"
                    /\ events[k].iter = i /\ events[k].step = s

InOrder(events, mode) ==
  \A k \in DOMAIN events :
    LET e == events[k] IN
    /\ (e.type = "StepCommitted" /\ e.step \in StepIds) =>
         \A i \in 0 .. MaxIters - 1, s \in StepIds :
           CommittedBy(events, k - 1, i, s) <=>
             (i < e.iter \/ (i = e.iter /\ IndexOf(s) < IndexOf(e.step)))
    /\ e.type = "IterationCompleted" =>
         \/ \A s \in StepIds : Committed(events, e.iter, s)
         \/ mode = "gatekeeper" /\ k > 1 /\ PassOfFinisher(events[k - 1])

LEMMA OrderOfTheStream ==
  StrategyInOrder <=> InOrder(log.events, row.mode)
BY DEF StrategyInOrder, InOrder, CommittedIn, CommittedBy

\* The order is kept by an event that is a step's commit only when its turn has come, and
\* the end of an iteration only over all its steps or a pass.
LEMMA OneMoreInOrder ==
  ASSUME NEW events \in Seq(Events), NEW mode, InOrder(events, mode), NEW e \in Events,
         (e.type = "StepCommitted" /\ e.step \in StepIds) =>
           \A i \in 0 .. MaxIters - 1, s \in StepIds :
             Committed(events, i, s) <=>
               (i < e.iter \/ (i = e.iter /\ IndexOf(s) < IndexOf(e.step))),
         e.type = "IterationCompleted" =>
           \/ \A s \in StepIds : Committed(events, e.iter, s)
           \/ mode = "gatekeeper" /\ Len(events) > 0 /\ PassOfFinisher(events[Len(events)])
  PROVE  InOrder(Append(events, e), mode)
<1> DEFINE n == Len(events)
           longer == Append(events, e)
<1>1. /\ n \in Nat /\ DOMAIN events = 1 .. n /\ DOMAIN longer = 1 .. n + 1
      /\ \A k \in 1 .. n : longer[k] = events[k]
      /\ longer[n + 1] = e
  OBVIOUS
<1> HIDE DEF longer
<1>2. ASSUME NEW i, NEW s, Committed(events, i, s)
      PROVE  Committed(longer, i, s)
  <2>1. PICK k \in 1 .. n :
          events[k].type = "StepCommitted" /\ events[k].iter = i /\ events[k].step = s
    BY <1>1, <1>2 DEF Committed
  <2>2. k \in DOMAIN longer /\ longer[k] = events[k]
    BY <1>1
  <2>3. QED
    BY <2>1, <2>2 DEF Committed
<1>3. ASSUME NEW k \in 1 .. n + 1, NEW i, NEW s
      PROVE  CommittedBy(longer, k - 1, i, s) <=> CommittedBy(events, k - 1, i, s)
  <2>1. 1 .. (k - 1) \subseteq 1 .. n
    BY <1>1
  <2>2. \A m \in 1 .. (k - 1) : longer[m] = events[m]
    BY <1>1, <2>1
  <2>3. QED
    BY <2>2 DEF CommittedBy
<1>4. \A i, s : CommittedBy(events, n, i, s) <=> Committed(events, i, s)
  BY <1>1 DEF CommittedBy, Committed
<1>5. SUFFICES ASSUME NEW k \in 1 .. n + 1
               PROVE  /\ (longer[k].type = "StepCommitted" /\ longer[k].step \in StepIds) =>
                           \A i \in 0 .. MaxIters - 1, s \in StepIds :
                             CommittedBy(longer, k - 1, i, s) <=>
                               \/ i < longer[k].iter
                               \/ i = longer[k].iter /\ IndexOf(s) < IndexOf(longer[k].step)
                      /\ longer[k].type = "IterationCompleted" =>
                           \/ \A s \in StepIds : Committed(longer, longer[k].iter, s)
                           \/ mode = "gatekeeper" /\ k > 1 /\ PassOfFinisher(longer[k - 1])
  BY <1>1 DEF InOrder, longer
<1> HIDE DEF n
<1>6. CASE k <= n
  <2>1. /\ (events[k].type = "StepCommitted" /\ events[k].step \in StepIds) =>
              \A i \in 0 .. MaxIters - 1, s \in StepIds :
                CommittedBy(events, k - 1, i, s) <=>
                  \/ i < events[k].iter
                  \/ i = events[k].iter /\ IndexOf(s) < IndexOf(events[k].step)
        /\ events[k].type = "IterationCompleted" =>
              \/ \A s \in StepIds : Committed(events, events[k].iter, s)
              \/ mode = "gatekeeper" /\ k > 1 /\ PassOfFinisher(events[k - 1])
    BY <1>1, <1>6 DEF InOrder
  <2>2. longer[k] = events[k] /\ (k > 1 => longer[k - 1] = events[k - 1])
    <3>1. k \in 1 .. n /\ (k > 1 => k - 1 \in 1 .. n)
      BY <1>1, <1>6
    <3>2. QED
      BY <1>1, <3>1
  <2>3. QED
    BY <1>2, <1>3, <2>1, <2>2
<1>7. CASE k = n + 1
  <2>1. longer[k] = e /\ k - 1 = n /\ (k > 1 => n \in 1 .. n)
    BY <1>1, <1>7
  <2>2. n \in 1 .. n => longer[k - 1] = events[n]
    BY <1>1, <2>1
  <2>3. \A i, s : CommittedBy(longer, k - 1, i, s) <=> Committed(events, i, s)
    BY <1>3, <1>4, <2>1
  <2>4. e.type = "IterationCompleted" =>
          \/ \A s \in StepIds : Committed(events, e.iter, s)
          \/ mode = "gatekeeper" /\ n > 0 /\ PassOfFinisher(events[n])
    BY DEF n
  <2>5. (e.type = "IterationCompleted" /\ n > 0) => k > 1
    BY <1>1, <1>7
  <2>6. QED
    BY <1>2, <2>1, <2>2, <2>3, <2>4, <2>5
<1>8. QED
  BY <1>1, <1>6, <1>7

LEMMA OrderGrows ==
  ASSUME Types, StrategyInOrder, NEW e \in Events, log' = Logged(log, e),
         row'.mode = row.mode,
         (e.type = "StepCommitted" /\ e.step \in StepIds) =>
           \A i \in 0 .. MaxIters - 1, s \in StepIds :
             Done(i, s) <=> (i < e.iter \/ (i = e.iter /\ IndexOf(s) < IndexOf(e.step))),
         e.type = "IterationCompleted" =>
           \/ \A s \in StepIds : Done(e.iter, s)
           \/ /\ row.mode = "gatekeeper" /\ Len(log.events) > 0
              /\ PassOfFinisher(log.events[Len(log.events)])
  PROVE  StrategyInOrder'
<1>1. log.events \in Seq(Events) /\ log'.events = Append(log.events, e)
  BY DEF Types, Logged
<1>2. InOrder(log.events, row.mode)
  BY OrderOfTheStream
<1>3. \A i, s : Done(i, s) <=> Committed(log.events, i, s)
  BY DEF Done
<1>4. InOrder(Append(log.events, e), row.mode)
  BY <1>1, <1>2, <1>3, OneMoreInOrder
<1>5. InOrder(log.events, row.mode)'
  BY SMTT(30), <1>1, <1>4 DEF InOrder, CommittedBy
<1>6. QED
  BY <1>5, OrderOfTheStream, PTL

LEMMA StreamRests ==
  ASSUME log' = log, row'.mode = row.mode
  PROVE  /\ StrategyInOrder => StrategyInOrder'
         /\ \A i, s : Done(i, s)' <=> Done(i, s)
BY DEF StrategyInOrder, CommittedIn, Done, Committed

-----------------------------------------------------------------------------
(* Steps of a role                                                         *)

\* The step the worker is at is one, if any step stirs.
LEMMA WhereItStirs ==
  ASSUME Types, StepsFollow, ~StepsRest
  PROVE  main.at \in DOMAIN main.group /\ main.group[main.at] \in StepIds
BY DEF Types, Places, StepsFollow, StepsRest

\* A role that is at work goes on or ends; it may put its claim into the stream.
LEMMA RoleMoves ==
  ASSUME HeadlessInv, NEW j \in Jobs, Alive(j), NEW q \in JobPcs, Types',
         job'[j].pc = q, \A k \in Jobs : k # j => job'[k] = job[k],
         row'.status = row.status, row'.mode = row.mode,
         log' = log \/ log' = Logged(log, Event("StepInstructionIssued", j, FALSE)),
         UNCHANGED main
  PROVE  HeadlessInv'
<1> USE DEF HeadlessInv
<1>1. job[j].pc \in {"claim", "try", "exec"} /\ job[j].pc \notin Resting
  BY DEF Alive, Resting
<1>2. StepIds \subseteq Jobs /\ ControlIds \subseteq Jobs /\ StepIds \cap ControlIds = {}
  BY RunnerAssumption DEF Jobs
<1>3. j \in StepIds => /\ main.pc = "waiting" \/ Troubled
                       /\ ~StepsRest
                       /\ \E i \in DOMAIN main.group : main.at <= i /\ main.group[i] = j
  BY <1>1 DEF StepsFollow, StepsRest
<1>4. j \in ControlIds => main.pc = "control" /\ main.calling = j
  BY DEF ControlsFollow
<1>5. j \in StepIds \/ j \in ControlIds
  BY DEF Jobs
<1>6. (Causes /\ GroupShape)'
  BY DEF Causes, GroupShape, InControls, Through
<1>7. StepsFollow'
  BY <1>2, <1>3 DEF StepsFollow, Troubled, InControls, Through
<1>8. TroubleIsHere'
  <2>1. Troubled' <=> Troubled
    BY DEF Troubled, InControls, Through
  <2>2. CASE j \in ControlIds
    BY <1>2, <2>1, <2>2, WhereItStirs DEF TroubleIsHere, StepsRest, Through
  <2>3. CASE j \in StepIds
    <3>1. main.at \in DOMAIN main.group /\ main.group[main.at] \in StepIds
      BY <1>3, <2>3, WhereItStirs
    <3>2. Troubled =>
            /\ j # main.group[main.at]
            /\ \/ job[main.group[main.at]].pc \in {"failed", "broke"}
               \/ job[main.group[main.at]].pc = "halted" /\ Through /\ main.cause = "stop"
      BY <1>1, <1>3, <2>3 DEF TroubleIsHere
    <3>3. QED
      BY <1>2, <2>1, <3>1, <3>2 DEF TroubleIsHere, Through
  <2>4. QED
    BY <1>5, <2>2, <2>3
<1>9. ControlsFollow'
  BY <1>2, <1>4 DEF ControlsFollow, Alive, Through, Blocking
<1>10. RowFollows'
  BY <1>1 DEF RowFollows, ThreadsJoined, Alive
<1>11. /\ NobodyToldAStep' /\ StrategyInOrder'
       /\ \A i, s : Done(i, s)' <=> Done(i, s)
       /\ log' # log => ~(Through /\ main.cause = "close")
  <2>1. CASE log' = log
    BY <2>1, StreamRests DEF NobodyToldAStep, InControls
  <2>2. CASE log' = Logged(log, Event("StepInstructionIssued", j, FALSE))
    <3>1. /\ Event("StepInstructionIssued", j, FALSE) \in Events
          /\ Event("StepInstructionIssued", j, FALSE).type = "StepInstructionIssued"
          /\ Event("StepInstructionIssued", j, FALSE).step = j
      BY EventsOfTheRun
    <3>2. StrategyInOrder' /\ \A i, s : Done(i, s)' <=> Done(i, s)
      BY <2>2, <3>1, LogGrows, OrderGrows
    <3>3. log'.snapshot = Apply(log.snapshot, Event("StepInstructionIssued", j, FALSE))
      BY <2>2, <3>1, LogGrows
    <3>4. log'.snapshot.step \in {log.snapshot.step, j}
      <4>1. log.snapshot \in Replayed
        BY DEF Types, Places
      <4> HIDE DEF HeadlessInv
      <4>2. Apply(log.snapshot, Event("StepInstructionIssued", j, FALSE)).step = j
        BY <3>1, <4>1, ReplayedStep
      <4>3. QED
        BY <3>3, <4>2
    <3>5. (main.pc \in {"top", "plan"} \/ (InControls /\ main.cause = "none")) => j \notin StepIds
      BY <1>3 DEF Troubled, InControls, Through, Troubles
    <3>6. NobodyToldAStep'
      BY <3>4, <3>5 DEF NobodyToldAStep, InControls
    <3>7. ~(Through /\ main.cause = "close")
      BY <1>3, <1>4, <1>5 DEF Troubled, InControls, Through, Troubles
    <3>8. QED
      BY <3>2, <3>6, <3>7
  <2>3. QED
    BY <2>1, <2>2
<1>12. Progress'
  BY <1>11 DEF Progress, CommittedUpTo, InControls
<1>13. SuccessRests'
  BY <1>11 DEF SuccessRests, Through
<1>14. QED
  BY <1>6, <1>7, <1>8, <1>9, <1>10, <1>11, <1>12, <1>13

\* The steps of a role are such moves.
LEMMA JobStepKeeps ==
  ASSUME HeadlessInv, NEW j \in Jobs, JobStep(j)
  PROVE  HeadlessInv'
<1>1. /\ Types /\ job \in [Jobs -> [pc : JobPcs, tries : Nat]]
      /\ job[j] \in [pc : JobPcs, tries : Nat]
  BY DEF HeadlessInv, Types, Places
<1>2. ASSUME NEW q \in JobPcs, Rest(j, q)
      PROVE  /\ job' \in [Jobs -> [pc : JobPcs, tries : Nat]]
             /\ job'[j].pc = q /\ \A k \in Jobs : k # j => job'[k] = job[k]
  BY <1>1, <1>2 DEF Rest
<1>3. CASE Claim(j)
  <2>1. Alive(j) /\ Rest(j, "try") /\ "try" \in JobPcs
    BY <1>3 DEF Claim, Alive, JobPcs
  <2>2. Event("StepInstructionIssued", j, FALSE) \in Events
    BY <1>1, EventsOfTheRun
  <2>3. Types'
    <3>1. log' \in [events : Seq(Events), snapshot : Replayed]
      BY <1>1, <1>3, <2>2, LogGrows DEF Claim
    <3>2. job' \in [Jobs -> [pc : JobPcs, tries : Nat]]
      BY <1>2, <2>1
    <3>3. QED
      BY <1>1, <1>3, <3>1, <3>2 DEF Claim, Types
  <2>4. QED
    BY <1>2, <1>3, <2>1, <2>3, RoleMoves DEF Claim
<1>4. CASE Attempt(j)
  <2>1. Alive(j) /\ "halted" \in JobPcs /\ "exec" \in JobPcs
    BY <1>4 DEF Attempt, Alive, JobPcs
  <2>2. CASE StopSeen(j)
    <3>1. Rest(j, "halted") /\ UNCHANGED <<row, log, main, fired, judged, stalled>>
      BY <1>4, <2>2 DEF Attempt
    <3>2. Types'
      BY <1>1, <1>2, <2>1, <3>1 DEF Types, Places
    <3>3. QED
      BY <1>2, <2>1, <3>1, <3>2, RoleMoves
  <2>3. CASE ~StopSeen(j)
    <3>1. /\ job' = [job EXCEPT ![j].pc = "exec",
                               ![j].tries = IF row.retries = 0 THEN 1 ELSE @ + 1]
          /\ row' = [row EXCEPT !.child = j]
          /\ UNCHANGED <<log, main, fired, judged, stalled>>
      BY <1>4, <2>3 DEF Attempt
    <3>2. /\ job' \in [Jobs -> [pc : JobPcs, tries : Nat]]
          /\ job'[j].pc = "exec" /\ \A k \in Jobs : k # j => job'[k] = job[k]
      <4> DEFINE t == IF row.retries = 0 THEN 1 ELSE job[j].tries + 1
      <4>1. t \in Nat /\ job' = [job EXCEPT ![j].pc = "exec", ![j].tries = t]
        BY <1>1, <3>1
      <4> HIDE DEF t
      <4>2. QED
        BY <1>1, <2>1, <4>1
    <3>3. Types' /\ row'.status = row.status /\ row'.mode = row.mode
      BY <1>1, <3>1, <3>2 DEF Types, Places
    <3>4. QED
      BY <2>1, <3>1, <3>2, <3>3, RoleMoves
  <2>4. QED
    BY <2>2, <2>3
<1>5. CASE ChildEnds(j)
  <2>1. PICK q \in {"ok", "broke", "failed", "try", "halted"} : Rest(j, q)
    BY <1>5 DEF ChildEnds
  <2>2. Alive(j) /\ q \in JobPcs
    BY <1>5 DEF ChildEnds, Alive, JobPcs
  <2>3. row' = [row EXCEPT !.child = None] /\ UNCHANGED <<log, main, fired, judged, stalled>>
    BY <1>5 DEF ChildEnds
  <2>4. Types' /\ row'.status = row.status /\ row'.mode = row.mode
    BY <1>1, <1>2, <2>1, <2>2, <2>3 DEF Types, Places
  <2>5. QED
    BY <1>2, <2>1, <2>2, <2>3, <2>4, RoleMoves
<1>6. QED
  BY <1>3, <1>4, <1>5 DEF JobStep

-----------------------------------------------------------------------------
(* Steps of the worker's thread                                            *)

\* Where the worker goes from step to step no step stirs.
LEMMA RestsBetween ==
  ASSUME HeadlessInv, main.pc # "waiting", ~Troubled
  PROVE  StepsRest
BY DEF HeadlessInv, StepsFollow, StepsRest

LEMMA Leaves ==
  ASSUME Types, NEW cause \in DOMAIN Outcome, Leave(cause)
  PROVE  /\ main' \in Places
         /\ main'.pc = "leaving" /\ main'.cause = cause /\ cause # "none"
         /\ main'.iter = main.iter /\ main'.index = main.index
         /\ main'.group = main.group /\ main'.at = main.at
<1>1. "leaving" \in MainPcs /\ "none" \notin DOMAIN Outcome
  BY DEF MainPcs, Outcome
<1>2. QED
  BY <1>1 DEF Types, Places, Leave

\* A worker that leaves does so with the trouble, or over the success, that it is at.
LEMMA LeavingKeeps ==
  ASSUME HeadlessInv, Types', NEW cause \in DOMAIN Outcome, Leave(cause), main.pc # "ended",
         row' = row, StepsFollow', TroubleIsHere', ControlsFollow', SuccessRests',
         StrategyInOrder'
  PROVE  HeadlessInv'
<1> USE DEF HeadlessInv
<1>1. /\ main'.pc = "leaving" /\ main'.cause = cause /\ cause # "none"
      /\ main'.iter = main.iter /\ main'.group = main.group /\ main'.at = main.at
  BY Leaves
<1>2. (Causes /\ GroupShape)'
  BY <1>1 DEF Causes, GroupShape, InControls, Through
<1>3. (RowFollows /\ NobodyToldAStep /\ Progress)'
  BY <1>1 DEF RowFollows, NobodyToldAStep, Progress, InControls
<1>4. QED
  BY <1>2, <1>3

LEMMA BeginIterationKeeps ==
  ASSUME HeadlessInv, BeginIteration
  PROVE  HeadlessInv'
<1> USE DEF HeadlessInv
<1>1. /\ main.pc = "top" /\ main.iter < MaxIters /\ UNCHANGED <<row, job, fired, stalled>>
      /\ StepsRest
  BY RestsBetween DEF BeginIteration, Troubled, InControls, Through
<1>2. CASE row.stop
  <2>1. Leave("stop") /\ UNCHANGED <<log, judged>> /\ "stop" \in DOMAIN Outcome
    BY <1>2 DEF BeginIteration, Outcome
  <2>2. Types' /\ main'.pc = "leaving" /\ main'.cause = "stop"
    BY <1>1, <2>1, Leaves DEF Types, Places
  <2>3. (StepsFollow /\ TroubleIsHere)'
    BY <1>1 DEF StepsFollow, TroubleIsHere, StepsRest
  <2>4. ControlsFollow'
    BY <1>1, <2>2 DEF ControlsFollow, Alive, Through, Blocking
  <2>5. (SuccessRests /\ StrategyInOrder)'
    BY <1>1, <2>1, <2>2, StreamRests DEF SuccessRests
  <2>6. QED
    BY <1>1, <2>1, <2>2, <2>3, <2>4, <2>5, LeavingKeeps
<1>3. CASE ~row.stop
  <2>1. /\ log' = Logged(log, IterationEvent("IterationStarted"))
        /\ main' = [main EXCEPT !.pc = "plan", !.index = 1] /\ judged' = "none"
    BY <1>3 DEF BeginIteration
  <2>2. /\ IterationEvent("IterationStarted") \in Events
        /\ IterationEvent("IterationStarted").type = "IterationStarted"
    BY IterationEvents
  <2>3. /\ log' \in [events : Seq(Events), snapshot : Replayed]
        /\ log'.snapshot = Apply(log.snapshot, IterationEvent("IterationStarted"))
        /\ \A i, s : Done(i, s)' <=> Done(i, s)
    BY <2>1, <2>2, LogGrows
  <2>4. /\ main'.pc = "plan" /\ main'.index = 1 /\ main'.iter = main.iter
        /\ main'.group = main.group /\ main'.at = main.at /\ main'.cause = "none"
    BY <1>1, <2>1 DEF Types, Places, Causes
  <2>5. Types'
    <3>1. "plan" \in MainPcs /\ 1 \in 1 .. Len(Strategy) + 1
      BY StrategyAssumption DEF MainPcs
    <3>2. QED
      BY <1>1, <2>1, <2>3, <3>1 DEF Types, Places
  <2>6. (Causes /\ GroupShape)'
    BY <2>4 DEF Causes, GroupShape, InControls, Through
  <2>7. (StepsFollow /\ TroubleIsHere)'
    BY <1>1 DEF StepsFollow, TroubleIsHere, StepsRest
  <2>8. (ControlsFollow /\ RowFollows)'
    BY <1>1, <2>4 DEF ControlsFollow, RowFollows, Alive, Through, Blocking
  <2>9. NobodyToldAStep'
    <3>1. log.snapshot \in Replayed /\ log.snapshot.step \notin StepIds
      BY <1>1 DEF Types, Places, NobodyToldAStep
    <3>2. log'.snapshot.step = log.snapshot.step
      BY <2>2, <2>3, <3>1, ReplayedStep
    <3>3. QED
      BY <3>1, <3>2 DEF NobodyToldAStep
  <2>10. Progress'
    BY <1>1, <2>3, <2>4 DEF Progress, CommittedUpTo, InControls
  <2>11. SuccessRests'
    BY <2>4 DEF SuccessRests, Through
  <2>12. StrategyInOrder'
    BY <1>1, <2>1, <2>2, OrderGrows
  <2>13. QED
    BY <2>5, <2>6, <2>7, <2>8, <2>9, <2>10, <2>11, <2>12
<1>4. QED
  BY <1>2, <1>3

LEMMA ExhaustKeeps ==
  ASSUME HeadlessInv, Exhaust
  PROVE  HeadlessInv'
<1> USE DEF HeadlessInv
<1>1. /\ main.pc = "top" /\ main.iter = MaxIters
      /\ UNCHANGED <<row, log, job, fired, judged, stalled>> /\ StepsRest
  BY RestsBetween DEF Exhaust, Troubled, InControls, Through
<1>2. PICK cause \in {"rounds", "exhausted"} :
        Leave(cause) /\ (cause = "rounds" => row.mode = "rounds")
  BY DEF Exhaust
<1>3. cause \in DOMAIN Outcome
  BY DEF Outcome
<1>4. Types' /\ main'.pc = "leaving" /\ main'.cause = cause
  BY <1>1, <1>2, <1>3, Leaves DEF Types, Places
<1>5. (StepsFollow /\ TroubleIsHere)'
  BY <1>1 DEF StepsFollow, TroubleIsHere, StepsRest
<1>6. ControlsFollow'
  BY <1>1, <1>4 DEF ControlsFollow, Alive, Through, Blocking
<1>7. \A i \in 0 .. MaxIters - 1, s \in StepIds : Done(i, s)
  BY <1>1, RunnerAssumption DEF Progress, CommittedUpTo
<1>8. (SuccessRests /\ StrategyInOrder)'
  BY <1>1, <1>2, <1>4, <1>7, StreamRests DEF SuccessRests
<1>9. QED
  BY <1>1, <1>2, <1>3, <1>4, <1>5, <1>6, <1>8, LeavingKeeps

LEMMA DispatchKeeps ==
  ASSUME HeadlessInv, Dispatch
  PROVE  HeadlessInv'
<1> USE DEF HeadlessInv
<1> DEFINE k == main.index
           group == GroupFrom(k)
<1>1. /\ main.pc = "plan" /\ UNCHANGED <<row, log, fired, judged, stalled>>
      /\ StepsRest /\ NextIndex = k
  BY RestsBetween, CursorIsIndex DEF Dispatch, Troubled, InControls, Through
<1>2. k \in 1 .. Len(Strategy) /\ Len(Strategy) \in Nat
  BY <1>1, StrategyAssumption DEF Dispatch, Types, Places
<1>3. /\ group \in Seq(StepIds) /\ Len(group) \in 1 .. Len(Strategy) + 1 - k
      /\ \A i \in 1 .. Len(group) : group[i] = Strategy[k - 1 + i]
      /\ \A i, j \in 1 .. Len(group) : i < j =>
           GroupOf[group[i]] = GroupOf[group[j]] /\ GroupOf[group[i]] # NoGroup
  BY <1>2, GroupIsPiece
<1>4. /\ main' = [main EXCEPT !.pc = "waiting", !.group = group, !.at = 1,
                              !.index = k + Len(group)]
      /\ job' = [j \in Jobs |-> IF j \in {group[i] : i \in DOMAIN group}
                                THEN [pc |-> "claim", tries |-> 0] ELSE job[j]]
  BY <1>1 DEF Dispatch
<1> HIDE DEF group
<1>5. k + Len(group) \in 1 .. Len(Strategy) + 1 /\ DOMAIN group = 1 .. Len(group)
  BY <1>2, <1>3
<1>6. /\ main'.pc = "waiting" /\ main'.group = group /\ main'.at = 1
      /\ main'.index = k + Len(group) /\ main'.iter = main.iter /\ main'.cause = main.cause
      /\ main'.cause = "none"
  BY <1>1, <1>4 DEF Types, Places, Causes
<1>7. job' \in [Jobs -> [pc : JobPcs, tries : Nat]]
  BY <1>4 DEF Types, Places, JobPcs
<1>8. Types'
  <2>1. "waiting" \in MainPcs /\ 1 \in Nat \ {0} /\ main \in Places
    BY DEF MainPcs, Types
  <2> HIDE DEF HeadlessInv
  <2>2. main' \in Places
    BY <1>3, <1>4, <1>5, <2>1 DEF Places
  <2> USE DEF HeadlessInv
  <2>3. QED
    BY <1>1, <1>7, <2>2 DEF Types
<1>9. Causes'
  BY <1>6 DEF Causes, InControls, Through
<1>10. GroupShape'
  <2>1. \A i \in 1 .. Len(group) : group[i] \in StepIds /\ IndexOf(group[i]) = k - 1 + i
    <3>1. \A i \in 1 .. Len(group) : k - 1 + i \in 1 .. Len(Strategy)
      BY <1>2, <1>3
    <3>2. QED
      BY <1>3, <3>1, IndexIsPlace
  <2>2. \A i \in 1 .. Len(group) : group[i] = Strategy[main'.index - 1 - Len(group) + i]
    BY <1>2, <1>3, <1>6
  <2>3. 1 \in DOMAIN group /\ Len(group) < main'.index
    BY <1>2, <1>3, <1>5, <1>6
  <2>4. \A i, j \in DOMAIN group : i < j =>
          /\ GroupOf[group[i]] = GroupOf[group[j]] /\ GroupOf[group[i]] # NoGroup
          /\ IndexOf(group[i]) < IndexOf(group[j])
    BY <1>2, <1>3, <1>5, <2>1
  <2>5. QED
    BY <1>5, <1>6, <2>2, <2>3, <2>4 DEF GroupShape
<1>11. StepsFollow'
  <2>1. \A s \in StepIds : job'[s].pc \notin Resting => \E i \in DOMAIN group : group[i] = s
    BY <1>1, <1>4 DEF StepsRest, Jobs
  <2>2. QED
    BY <1>5, <1>6, <2>1 DEF StepsFollow
<1>12. (TroubleIsHere /\ RowFollows /\ SuccessRests /\ NobodyToldAStep)'
  BY <1>1, <1>6 DEF TroubleIsHere, Troubled, RowFollows, SuccessRests, NobodyToldAStep,
     InControls, Through
<1>13. ControlsFollow'
  <2>1. \A c \in ControlIds : job'[c] = job[c]
    BY <1>3, <1>4, RunnerAssumption DEF Jobs
  <2>2. QED
    BY <1>1, <1>6, <2>1 DEF ControlsFollow, Alive, Through, Blocking
<1>14. StrategyInOrder' /\ \A i, s : Done(i, s)' <=> Done(i, s)
  BY <1>1, StreamRests
<1>15. Progress'
  <2>1. CommittedUpTo(k - 1) /\ main.iter < MaxIters
    BY <1>1 DEF Progress
  <2>2. main'.index - 1 - Len(main'.group) = k - 1
    BY <1>2, <1>3, <1>6
  <2>3. QED
    BY <1>6, <1>14, <2>1, <2>2 DEF Progress, CommittedUpTo, InControls
<1>16. QED
  BY <1>8, <1>9, <1>10, <1>11, <1>12, <1>13, <1>14, <1>15

LEMMA EndStepsKeeps ==
  ASSUME HeadlessInv, EndSteps
  PROVE  HeadlessInv'
<1> USE DEF HeadlessInv
<1>1. /\ main.pc = "plan" /\ UNCHANGED <<row, log, job, fired, judged, stalled>>
      /\ StepsRest /\ NextIndex = main.index
  BY RestsBetween, CursorIsIndex DEF EndSteps, Troubled, InControls, Through
<1>2. PICK queue \in SUBSET ControlIds :
        main' = [main EXCEPT !.pc = "signals", !.cause = "none", !.queue = queue]
  BY DEF EndSteps, Matching
<1>3. /\ main'.pc = "signals" /\ main'.cause = "none" /\ main'.iter = main.iter
      /\ main'.group = main.group /\ main'.at = main.at
  BY <1>2 DEF Types, Places
<1>4. Types'
  BY <1>1, <1>2 DEF Types, Places, MainPcs
<1>5. (Causes /\ GroupShape /\ StepsFollow /\ TroubleIsHere)'
  BY <1>1, <1>3 DEF Causes, GroupShape, StepsFollow, TroubleIsHere, StepsRest, InControls, Through
<1>6. (ControlsFollow /\ RowFollows /\ SuccessRests /\ NobodyToldAStep)'
  BY <1>1, <1>3 DEF ControlsFollow, RowFollows, SuccessRests, NobodyToldAStep, Alive, Blocking,
     InControls, Through
<1>7. StrategyInOrder' /\ \A i, s : Done(i, s)' <=> Done(i, s)
  BY <1>1, StreamRests
<1>8. Progress'
  <2>1. main.index = Len(Strategy) + 1 /\ Len(Strategy) \in Nat
    BY <1>1, StrategyAssumption DEF EndSteps, Types, Places
  <2>2. CommittedUpTo(Len(Strategy)) /\ main.iter < MaxIters
    BY <1>1, <2>1 DEF Progress
  <2>3. QED
    BY <1>3, <1>7, <2>2 DEF Progress, CommittedUpTo, InControls
<1>9. QED
  BY <1>4, <1>5, <1>6, <1>7, <1>8

\* A result that is in is passed over; a step that failed, broke or was stopped is the
\* trouble.
LEMMA AwaitStepKeeps ==
  ASSUME HeadlessInv, AwaitStep
  PROVE  HeadlessInv'
<1> USE DEF HeadlessInv
<1> DEFINE j == main.group[main.at]
<1>1. /\ main.pc = "waiting" /\ UNCHANGED <<row, log, job, fired, judged, stalled>>
      /\ main.at \in DOMAIN main.group /\ main.group \in Seq(StepIds) /\ main.cause = "none"
  BY DEF AwaitStep, GroupShape, Types, Places, Causes
<1>2. StrategyInOrder' /\ \A i, s : Done(i, s)' <=> Done(i, s)
  BY <1>1, StreamRests
<1>3. CASE job[j].pc = "ok"
  <2>1. CASE main.at < Len(main.group)
    <3>1. main' = [main EXCEPT !.at = @ + 1]
      BY <1>3, <2>1 DEF AwaitStep
    <3>2. /\ main'.pc = "waiting" /\ main'.at = main.at + 1 /\ main'.group = main.group
          /\ main'.iter = main.iter /\ main'.index = main.index /\ main'.cause = "none"
      BY <1>1, <3>1 DEF Types, Places
    <3>3. Types'
      <4>1. main.at + 1 \in Nat \ {0} /\ main \in Places
        BY DEF Types, Places
      <4>2. main' \in Places
        BY <3>1, <4>1 DEF Places
      <4>3. QED
        BY <1>1, <4>2 DEF Types
    <3>4. main.at + 1 \in DOMAIN main.group
      BY <1>1, <2>1
    <3>5. (Causes /\ GroupShape)'
      BY <3>2, <3>4, <1>1 DEF Causes, GroupShape, InControls, Through
    <3>6. StepsFollow'
      <4>1. ASSUME NEW s \in StepIds, job[s].pc \notin Resting
            PROVE  \E i \in DOMAIN main.group : main.at + 1 <= i /\ main.group[i] = s
        <5>1. PICK i \in DOMAIN main.group : main.at <= i /\ main.group[i] = s
          BY <4>1 DEF StepsFollow
        <5>2. i # main.at
          BY <1>3, <4>1, <5>1 DEF Resting
        <5>3. QED
          BY <1>1, <5>1, <5>2
      <4>2. QED
        BY <1>1, <3>2, <4>1 DEF StepsFollow
    <3>7. (TroubleIsHere /\ ControlsFollow /\ RowFollows /\ NobodyToldAStep /\ SuccessRests)'
      BY <1>1, <3>2 DEF TroubleIsHere, Troubled, ControlsFollow, RowFollows, NobodyToldAStep,
         SuccessRests, InControls, Through, Alive, Blocking
    <3>8. Progress'
      BY <1>1, <1>2, <3>2 DEF Progress, CommittedUpTo, InControls
    <3>9. QED
      BY <1>2, <3>3, <3>5, <3>6, <3>7, <3>8
  <2>2. CASE ~(main.at < Len(main.group))
    <3>1. main' = [main EXCEPT !.pc = "committing", !.at = 1]
      BY <1>3, <2>2 DEF AwaitStep
    <3>2. /\ main'.pc = "committing" /\ main'.at = 1 /\ main'.group = main.group
          /\ main'.iter = main.iter /\ main'.index = main.index /\ main'.cause = "none"
      BY <1>1, <3>1 DEF Types, Places
    <3>3. Types'
      <4>1. "committing" \in MainPcs /\ 1 \in Nat \ {0} /\ main \in Places
        BY DEF MainPcs, Types
      <4>2. main' \in Places
        BY <3>1, <4>1 DEF Places
      <4>3. QED
        BY <1>1, <4>2 DEF Types
    <3>4. 1 \in DOMAIN main.group /\ main.at = Len(main.group)
      BY <1>1, <2>2
    <3>5. (Causes /\ GroupShape)'
      BY <3>2, <3>4, <1>1 DEF Causes, GroupShape, InControls, Through
    <3>6. StepsRest
      <4>1. ASSUME NEW s \in StepIds, job[s].pc \notin Resting
            PROVE  FALSE
        <5>1. PICK i \in DOMAIN main.group : main.at <= i /\ main.group[i] = s
          BY <4>1 DEF StepsFollow
        <5>2. i = main.at
          BY <1>1, <3>4, <5>1
        <5>3. QED
          BY <1>3, <4>1, <5>1, <5>2 DEF Resting
      <4>2. QED
        BY <4>1 DEF StepsRest
    <3>7. (StepsFollow /\ TroubleIsHere)'
      BY <1>1, <3>6 DEF StepsFollow, TroubleIsHere, StepsRest
    <3>8. (ControlsFollow /\ RowFollows /\ NobodyToldAStep /\ SuccessRests)'
      BY <1>1, <3>2 DEF ControlsFollow, RowFollows, NobodyToldAStep,
         SuccessRests, InControls, Through, Alive, Blocking
    <3>9. Progress'
      <4>1. main'.index - 2 - Len(main'.group) + main'.at = main.index - 1 - Len(main.group)
        BY <1>1, <3>2, StrategyAssumption DEF Types, Places
      <4>2. QED
        BY <1>1, <1>2, <3>2, <4>1 DEF Progress, CommittedUpTo, InControls
    <3>10. QED
      BY <1>2, <3>3, <3>5, <3>7, <3>8, <3>9
  <2>3. QED
    BY <2>1, <2>2
<1>4. CASE job[j].pc = "failed"
  <2>1. PICK queue \in SUBSET ControlIds :
          main' = [main EXCEPT !.pc = "signals", !.queue = queue, !.cause = "role"]
    BY <1>4 DEF AwaitStep, Matching
  <2>2. /\ main'.pc = "signals" /\ main'.at = main.at /\ main'.group = main.group
        /\ main'.iter = main.iter /\ main'.index = main.index /\ main'.cause = "role"
    BY <1>1, <2>1 DEF Types, Places
  <2>3. Types'
    BY <1>1, <2>1 DEF Types, Places, MainPcs, Outcome
  <2>4. (Causes /\ GroupShape)'
    BY <2>2 DEF Causes, GroupShape, InControls, Through
  <2>5. (StepsFollow /\ TroubleIsHere)'
    BY <1>1, <1>4, <2>2 DEF StepsFollow, TroubleIsHere, Troubled, InControls, Through
  <2>6. (ControlsFollow /\ RowFollows /\ NobodyToldAStep /\ SuccessRests)'
    BY <1>1, <2>2 DEF ControlsFollow, RowFollows, NobodyToldAStep,
       SuccessRests, InControls, Through, Alive, Blocking
  <2>7. Progress'
    BY <1>1, <2>2 DEF Progress, InControls
  <2>8. QED
    BY <1>2, <2>3, <2>4, <2>5, <2>6, <2>7
<1>5. CASE job[j].pc \in {"halted", "broke"}
  <2>1. PICK cause \in {"stop", "crash"} :
          Leave(cause) /\ (job[j].pc = "halted" => cause = "stop")
    BY <1>5 DEF AwaitStep
  <2>2. cause \in DOMAIN Outcome /\ cause \in Troubles /\ cause # "close" /\ cause # "rounds"
    BY DEF Outcome, Troubles
  <2>3. /\ Types' /\ main'.pc = "leaving" /\ main'.cause = cause
        /\ main'.group = main.group /\ main'.at = main.at
    BY <1>1, <2>1, <2>2, Leaves DEF Types, Places
  <2>4. (StepsFollow /\ TroubleIsHere)'
    BY <1>1, <1>5, <2>1, <2>2, <2>3 DEF StepsFollow, TroubleIsHere, Troubled, Through
  <2>5. (ControlsFollow /\ SuccessRests)'
    BY <1>1, <2>2, <2>3 DEF ControlsFollow, SuccessRests, Through, Alive, Blocking
  <2>6. QED
    BY <1>1, <1>2, <2>1, <2>2, <2>3, <2>4, <2>5, LeavingKeeps
<1>6. QED
  BY <1>3, <1>4, <1>5 DEF AwaitStep

-----------------------------------------------------------------------------
(* Commits                                                                 *)

\* The step to commit is the next one of the strategy.
LEMMA StepToCommit ==
  ASSUME HeadlessInv, main.pc = "committing"
  PROVE  /\ StepsRest /\ main.cause = "none" /\ main.iter \in 0 .. MaxIters - 1
         /\ main.at \in DOMAIN main.group /\ main.group \in Seq(StepIds)
         /\ main.group[main.at] \in StepIds /\ main.group[main.at] \in Jobs
         /\ IndexOf(main.group[main.at]) = main.index - 1 - Len(main.group) + main.at
         /\ \A i \in 0 .. MaxIters, s \in StepIds :
              Done(i, s) <=> \/ i < main.iter
                             \/ i = main.iter /\ IndexOf(s) < IndexOf(main.group[main.at])
<1> USE DEF HeadlessInv
<1> DEFINE place == main.index - 1 - Len(main.group) + main.at
<1>1. StepsRest
  BY RestsBetween DEF Troubled, InControls, Through
<1>2. /\ main.cause = "none" /\ main.iter \in 0 .. MaxIters - 1
      /\ main.at \in DOMAIN main.group /\ main.group \in Seq(StepIds)
      /\ main.group[main.at] = Strategy[place] /\ Len(main.group) < main.index
  BY RunnerAssumption DEF Causes, Progress, GroupShape, Types, Places
<1>3. /\ main.at \in 1 .. Len(main.group) /\ Len(main.group) \in Nat
      /\ main.index \in 1 .. Len(Strategy) + 1 /\ Len(Strategy) \in Nat
  BY <1>2, StrategyAssumption DEF Types, Places
<1>4. place \in 1 .. Len(Strategy)
  BY <1>2, <1>3
<1>5. main.group[main.at] \in StepIds /\ IndexOf(main.group[main.at]) = place
  BY <1>2, <1>4, IndexIsPlace
<1>6. CommittedUpTo(main.index - 2 - Len(main.group) + main.at)
  BY DEF Progress
<1>7. main.index - 2 - Len(main.group) + main.at = place - 1
  BY <1>3
<1> HIDE DEF place
<1>8. place \in Nat /\ \A s \in StepIds : IndexOf(s) \in Nat
  BY <1>4, IndexIsPlace
<1>9. \A i \in 0 .. MaxIters, s \in StepIds :
        Done(i, s) <=> (i < main.iter \/ (i = main.iter /\ IndexOf(s) < place))
  BY <1>6, <1>7, <1>8, RunnerAssumption DEF CommittedUpTo
<1>10. QED
  BY <1>1, <1>2, <1>5, <1>9 DEF Jobs, place

\* Its commit is in order, and takes the instruction back.
LEMMA CommitGrows ==
  ASSUME HeadlessInv, main.pc = "committing", NEW passed \in BOOLEAN,
         NEW l, l = Logged(log, Event("StepCommitted", main.group[main.at], passed))
  PROVE  /\ l \in [events : Seq(Events), snapshot : Replayed] /\ l.snapshot.step = NoStep
         /\ (log' = l /\ row'.mode = row.mode) =>
              /\ StrategyInOrder'
              /\ Len(log'.events) > 0
              /\ \E e \in Events : /\ log'.events[Len(log'.events)] = e
                                   /\ e.type = "StepCommitted" /\ e.passed = passed
                                   /\ e.step = main.group[main.at]
              /\ \A i \in 0 .. MaxIters, s \in StepIds :
                   Done(i, s)' <=>
                     \/ i < main.iter
                     \/ i = main.iter /\ IndexOf(s) <= IndexOf(main.group[main.at])
<1> USE DEF HeadlessInv
<1> DEFINE j == main.group[main.at]
           e == Event("StepCommitted", j, passed)
<1>1. /\ j \in StepIds /\ j \in Jobs /\ main.iter \in 0 .. MaxIters - 1
      /\ \A i \in 0 .. MaxIters, s \in StepIds :
           Done(i, s) <=> (i < main.iter \/ (i = main.iter /\ IndexOf(s) < IndexOf(j)))
  BY StepToCommit
<1>2. /\ e \in Events /\ e.type = "StepCommitted" /\ e.step = j
      /\ e.iter = main.iter /\ e.passed = passed
  BY <1>1, EventsOfTheRun
<1> HIDE DEF e
<1>3. l.events = Append(log.events, e) /\ l.snapshot = Apply(log.snapshot, e)
  BY DEF Logged, e
<1>4. log.events \in Seq(Events) /\ log.snapshot \in Replayed
  BY DEF Types
<1>5. Apply(log.snapshot, e) \in Replayed /\ Apply(log.snapshot, e).step = NoStep
  BY <1>2, <1>4, ReplayedStep
<1>6. l \in [events : Seq(Events), snapshot : Replayed] /\ l.snapshot.step = NoStep
  BY <1>2, <1>3, <1>4, <1>5 DEF Logged, e
<1>7. ASSUME log' = l, row'.mode = row.mode
      PROVE  /\ StrategyInOrder'
             /\ Len(log'.events) > 0 /\ log'.events[Len(log'.events)] = e
             /\ \A i, s : Done(i, s)' <=> Done(i, s) \/ (main.iter = i /\ j = s)
  <2>1. log' = Logged(log, e)
    BY <1>7 DEF e
  <2>2. StrategyInOrder'
    BY <1>1, <1>2, <1>7, <2>1, OrderGrows, RunnerAssumption
  <2>3. /\ Len(log.events) \in Nat /\ Len(log'.events) = Len(log.events) + 1
        /\ log'.events[Len(log.events) + 1] = e
        /\ \A i, s : Done(i, s)' <=>
             Done(i, s) \/ (e.type = "StepCommitted" /\ e.iter = i /\ e.step = s)
    BY <1>2, <2>1, LogGrows
  <2>4. QED
    BY <1>2, <2>2, <2>3
<1>8. \A s \in StepIds : /\ IndexOf(s) \in Nat
                         /\ IndexOf(s) <= IndexOf(j) <=> IndexOf(s) < IndexOf(j) \/ s = j
  <2>1. \A s \in StepIds : IndexOf(s) \in Nat /\ Strategy[IndexOf(s)] = s
    BY IndexIsPlace
  <2>2. \A s \in StepIds : IndexOf(s) = IndexOf(j) => s = j
    BY <1>1, <2>1
  <2>3. QED
    BY <1>1, <2>1, <2>2
<1>9. QED
  BY <1>1, <1>2, <1>6, <1>7, <1>8

LEMMA SubmitFailsKeeps ==
  ASSUME HeadlessInv, SubmitFails
  PROVE  HeadlessInv'
<1> USE DEF HeadlessInv
<1> DEFINE j == main.group[main.at]
<1>1. /\ main.pc = "committing" /\ Rest(j, "broke") /\ Leave("crash")
      /\ UNCHANGED <<row, log, fired, judged, stalled>>
  BY DEF SubmitFails
<1>2. StepsRest /\ j \in StepIds /\ j \in Jobs /\ main.at \in DOMAIN main.group
  BY <1>1, StepToCommit
<1>3. "crash" \in DOMAIN Outcome /\ "crash" \in Troubles
  BY DEF Outcome, Troubles
<1>4. /\ job' \in [Jobs -> [pc : JobPcs, tries : Nat]] /\ job'[j].pc = "broke"
      /\ \A k \in Jobs : k # j => job'[k] = job[k]
  BY <1>1, <1>2 DEF Rest, Types, JobPcs
<1>5. /\ Types' /\ main'.pc = "leaving" /\ main'.cause = "crash"
      /\ main'.group = main.group /\ main'.at = main.at
  BY <1>1, <1>3, <1>4, Leaves DEF Types
<1>6. StepsFollow'
  <2>1. \A s \in StepIds : job'[s].pc \notin Resting => s = j
    BY <1>2, <1>4 DEF StepsRest, Jobs
  <2>2. main.at <= main.at
    BY DEF Types, Places
  <2>3. QED
    BY <1>2, <1>3, <1>5, <2>1, <2>2 DEF StepsFollow, Troubled, Through
<1>7. TroubleIsHere'
  BY <1>4, <1>5 DEF TroubleIsHere
<1>8. ControlsFollow'
  <2>1. \A c \in ControlIds : c \in Jobs /\ c # j
    BY <1>2, RunnerAssumption DEF Jobs
  <2>2. QED
    BY <1>1, <1>3, <1>4, <1>5, <2>1 DEF ControlsFollow, Alive, Through, Blocking
<1>9. (SuccessRests /\ StrategyInOrder)'
  BY <1>1, <1>5, StreamRests DEF SuccessRests
<1>10. QED
  BY <1>1, <1>3, <1>5, <1>6, <1>7, <1>8, <1>9, LeavingKeeps

\* A commit that leaves trouble behind is in order all the same.
LEMMA CommitFailsKeeps ==
  ASSUME HeadlessInv, CommitFails
  PROVE  HeadlessInv'
<1> USE DEF HeadlessInv
<1> DEFINE j == main.group[main.at]
<1>1. PICK pc \in {"broke", "unsafe"}, cause \in {"crash", "unsafe"} :
        Rest(j, pc) /\ Leave(cause)
  BY DEF CommitFails
<1>2. /\ main.pc = "committing" /\ log' = Logged(log, Event("StepCommitted", j, FALSE))
      /\ UNCHANGED <<row, fired, judged, stalled>>
  BY DEF CommitFails
<1>3. StepsRest /\ j \in StepIds /\ j \in Jobs /\ main.at \in DOMAIN main.group
  BY <1>2, StepToCommit
<1>4. cause \in DOMAIN Outcome /\ cause \in Troubles /\ cause \notin {"close", "rounds"}
  BY DEF Outcome, Troubles
<1>5. /\ job' \in [Jobs -> [pc : JobPcs, tries : Nat]] /\ job'[j].pc = pc
      /\ \A k \in Jobs : k # j => job'[k] = job[k]
  BY <1>1, <1>3 DEF Rest, Types, JobPcs
<1>6. log' \in [events : Seq(Events), snapshot : Replayed] /\ StrategyInOrder'
  BY <1>2, CommitGrows
<1>7. /\ Types' /\ main'.pc = "leaving" /\ main'.cause = cause
      /\ main'.group = main.group /\ main'.at = main.at
  BY <1>1, <1>2, <1>4, <1>5, <1>6, Leaves DEF Types
<1>8. StepsFollow'
  <2>1. \A s \in StepIds : job'[s].pc \notin Resting => s = j
    BY <1>3, <1>5 DEF StepsRest, Jobs
  <2>2. main.at <= main.at
    BY DEF Types, Places
  <2>3. QED
    BY <1>3, <1>4, <1>7, <2>1, <2>2 DEF StepsFollow, Troubled, Through
<1>9. TroubleIsHere'
  BY <1>3, <1>5, <1>7 DEF TroubleIsHere, StepsRest, Jobs
<1>10. ControlsFollow'
  <2>1. \A c \in ControlIds : c \in Jobs /\ c # j
    BY <1>3, RunnerAssumption DEF Jobs
  <2>2. QED
    BY <1>2, <1>4, <1>5, <1>7, <2>1 DEF ControlsFollow, Alive, Through, Blocking
<1>11. SuccessRests'
  BY <1>4, <1>7 DEF SuccessRests
<1>12. QED
  BY <1>1, <1>2, <1>4, <1>6, <1>7, <1>8, <1>9, <1>10, <1>11, LeavingKeeps

\* A step committed, the worker goes on to the next of the group or of the strategy.
LEMMA StepCommittedKeeps ==
  ASSUME HeadlessInv, main.pc = "committing", NEW passed \in BOOLEAN,
         log' = Logged(log, Event("StepCommitted", main.group[main.at], passed)),
         NextStep, Types', UNCHANGED <<row, job>>
  PROVE  HeadlessInv'
<1> USE DEF HeadlessInv
<1>1. /\ StepsRest /\ main.cause = "none" /\ main.iter \in 0 .. MaxIters - 1
      /\ main.at \in DOMAIN main.group /\ main.group \in Seq(StepIds)
      /\ IndexOf(main.group[main.at]) = main.index - 1 - Len(main.group) + main.at
  BY StepToCommit
<1>2. /\ StrategyInOrder' /\ log'.snapshot.step = NoStep
      /\ \A i \in 0 .. MaxIters, s \in StepIds :
           Done(i, s)' <=> \/ i < main.iter
                           \/ i = main.iter /\ IndexOf(s) <= IndexOf(main.group[main.at])
  BY CommitGrows
<1>3. /\ main'.pc \in {"committing", "plan"} /\ main'.group = main.group
      /\ main'.iter = main.iter /\ main'.index = main.index /\ main'.cause = "none"
      /\ main'.pc = "committing" => main'.at = main.at + 1 /\ main.at < Len(main.group)
      /\ main'.pc = "plan" => ~(main.at < Len(main.group))
  BY <1>1 DEF NextStep, Types, Places
<1>4. (Causes /\ GroupShape)'
  <2>1. main'.pc = "committing" => main'.at \in DOMAIN main'.group
    BY <1>1, <1>3
  <2>2. QED
    BY <1>3, <2>1 DEF Causes, GroupShape, InControls, Through
<1>5. (StepsFollow /\ TroubleIsHere)'
  BY <1>1 DEF StepsFollow, TroubleIsHere, StepsRest
<1>6. (ControlsFollow /\ RowFollows /\ SuccessRests /\ NobodyToldAStep)'
  <2>1. NoStep \notin StepIds
    BY StrategyAssumption
  <2>2. QED
    BY <1>2, <1>3, <2>1 DEF ControlsFollow, RowFollows, NobodyToldAStep, SuccessRests,
       InControls, Through, Alive, Blocking
<1>7. Progress'
  <2>1. /\ main'.pc = "committing" =>
             main'.index - 2 - Len(main'.group) + main'.at = IndexOf(main.group[main.at])
        /\ main'.pc = "plan" => main'.index - 1 = IndexOf(main.group[main.at])
    BY <1>1, <1>3 DEF Types, Places
  <2>2. main'.iter < MaxIters
    BY <1>1, <1>3, RunnerAssumption
  <2>3. CASE main'.pc = "committing"
    <3>1. CommittedUpTo(main.index - 2 - Len(main.group) + main.at)'
      BY <1>2, <1>3, <2>1, <2>3 DEF CommittedUpTo
    <3>2. QED
      BY <2>2, <2>3, <3>1 DEF Progress, InControls
  <2>4. CASE main'.pc = "plan"
    <3>1. CommittedUpTo(main.index - 1)'
      BY <1>2, <1>3, <2>1, <2>4 DEF CommittedUpTo
    <3>2. QED
      BY <2>2, <2>4, <3>1 DEF Progress, InControls
  <2>5. QED
    BY <1>3, <2>3, <2>4
<1>8. QED
  BY <1>2, <1>4, <1>5, <1>6, <1>7

LEMMA NextStepIsPlace ==
  ASSUME Types, main.at \in DOMAIN main.group, NextStep
  PROVE  main' \in Places
<1>1. main.at + 1 \in Nat \ {0} /\ "plan" \in MainPcs /\ main \in Places
  BY DEF Types, Places, MainPcs
<1>2. QED
  BY <1>1 DEF NextStep, Places

LEMMA CommitKeeps ==
  ASSUME HeadlessInv, Commit
  PROVE  HeadlessInv'
<1>1. /\ main.pc = "committing" /\ NextStep /\ UNCHANGED <<row, job, fired, judged, stalled>>
      /\ log' = Logged(log, Event("StepCommitted", main.group[main.at], FALSE))
  BY DEF Commit
<1>2. log' \in [events : Seq(Events), snapshot : Replayed] /\ Types
  BY <1>1, CommitGrows DEF HeadlessInv
<1>3. main' \in Places
  BY <1>1, StepToCommit, NextStepIsPlace DEF HeadlessInv
<1>4. Types'
  BY <1>1, <1>2, <1>3 DEF Types
<1>5. QED
  BY <1>1, <1>4, StepCommittedKeeps

\* A GateKeeper's result is such a commit; a pass that finishes the run is its last one.
LEMMA CommitJudgementKeeps ==
  ASSUME HeadlessInv, CommitJudgement
  PROVE  HeadlessInv'
<1> USE DEF HeadlessInv
<1> DEFINE j == main.group[main.at]
<1>1. PICK passed \in BOOLEAN :
        LET commit == Logged(log, Event("StepCommitted", j, passed)) IN
        /\ judged' = IF passed THEN "passed" ELSE "rejected"
        /\ IF passed /\ j \in Finishers /\ row.mode = "gatekeeper"
           THEN log' = Logged(commit, IterationEvent("IterationCompleted")) /\ Leave("close")
           ELSE log' = commit /\ NextStep
  BY DEF CommitJudgement
<1>2. main.pc = "committing" /\ stalled' \in BOOLEAN /\ UNCHANGED <<row, job, fired>>
  BY DEF CommitJudgement
<1> DEFINE commit == Logged(log, Event("StepCommitted", j, passed))
<1>3. judged' \in {"none", "passed", "rejected"}
  BY <1>1
<1>4. CASE ~(passed /\ j \in Finishers /\ row.mode = "gatekeeper")
  <2>1. log' = commit /\ NextStep
    BY <1>1, <1>4
  <2>2. log' \in [events : Seq(Events), snapshot : Replayed]
    BY <1>2, <2>1, CommitGrows
  <2>3. main' \in Places
    BY <1>2, <2>1, StepToCommit, NextStepIsPlace
  <2>4. Types'
    BY <1>2, <1>3, <2>2, <2>3 DEF Types
  <2>5. QED
    BY <1>2, <2>1, <2>4, StepCommittedKeeps
<1>5. CASE passed /\ j \in Finishers /\ row.mode = "gatekeeper"
  <2> DEFINE c == Event("StepCommitted", j, passed)
             e == IterationEvent("IterationCompleted")
  <2>1. log' = Logged(commit, e) /\ Leave("close")
    BY <1>1, <1>5
  <2>2. /\ StepsRest /\ main.cause = "none" /\ j \in Jobs /\ j \in StepIds
        /\ \A i \in 0 .. MaxIters, s \in StepIds :
             Done(i, s) <=> (i < main.iter \/ (i = main.iter /\ IndexOf(s) < IndexOf(j)))
    BY <1>2, StepToCommit
  <2>3. /\ c \in Events /\ c.type = "StepCommitted" /\ c.step = j /\ c.passed = passed
        /\ c.iter = main.iter
    BY <2>2, EventsOfTheRun
  <2>4. e \in Events /\ e.type = "IterationCompleted"
    BY IterationEvents
  <2> HIDE DEF c, e, commit
  <2>5. commit.events = Append(log.events, c) /\ commit.snapshot = Apply(log.snapshot, c)
    BY DEF Logged, commit, c
  <2>6. /\ log' = [events |-> Append(commit.events, e), snapshot |-> Apply(commit.snapshot, e)]
    BY <2>1 DEF Logged
  <2>7. log.events \in Seq(Events) /\ log.snapshot \in Replayed
    BY DEF Types
  <2>8. log' \in [events : Seq(Events), snapshot : Replayed]
    <3>1. commit.events \in Seq(Events) /\ commit.snapshot \in Replayed
      BY <2>3, <2>5, <2>7, ReplayedStep
    <3>2. Append(commit.events, e) \in Seq(Events) /\ Apply(commit.snapshot, e) \in Replayed
      BY <2>4, <3>1, ReplayedStep
    <3>3. QED
      BY <2>6, <3>2
  <2>9. /\ PassOfFinisher(c) /\ Len(commit.events) = Len(log.events) + 1
        /\ Len(log.events) \in Nat /\ commit.events \in Seq(Events)
        /\ commit.events[Len(commit.events)] = c
    BY <1>5, <2>3, <2>5, <2>7 DEF PassOfFinisher
  <2>10. InOrder(commit.events, row.mode)
    <3>1. InOrder(log.events, row.mode)
      BY OrderOfTheStream
    <3>2. (c.type = "StepCommitted" /\ c.step \in StepIds) =>
            \A i \in 0 .. MaxIters - 1, s \in StepIds :
              Committed(log.events, i, s) <=>
                (i < c.iter \/ (i = c.iter /\ IndexOf(s) < IndexOf(c.step)))
      BY <2>2, <2>3, RunnerAssumption DEF Done
    <3>3. c.type # "IterationCompleted"
      BY <2>3
    <3>4. InOrder(Append(log.events, c), row.mode)
      BY <2>3, <2>7, <3>1, <3>2, <3>3, OneMoreInOrder
    <3>5. QED
      BY <2>5, <3>4
  <2>11. InOrder(Append(commit.events, e), row.mode)
    <3>1. Len(commit.events) > 0 /\ PassOfFinisher(commit.events[Len(commit.events)])
      BY <2>9
    <3>2. QED
      BY <1>5, <2>4, <2>9, <2>10, <3>1, OneMoreInOrder
  <2>12. StrategyInOrder'
    <3>1. log'.events = Append(commit.events, e) /\ row'.mode = row.mode
      BY <1>2, <2>6
    <3>2. InOrder(log.events, row.mode)'
      BY <2>11, <3>1 DEF InOrder, CommittedBy
    <3>3. QED
      BY <3>2, OrderOfTheStream, PTL
  <2>13. "close" \in DOMAIN Outcome /\ "close" \notin Troubles
    BY DEF Outcome, Troubles
  <2>14. /\ main'.pc = "leaving" /\ main'.cause = "close" /\ main' \in Places
         /\ main'.group = main.group /\ main'.at = main.at
    BY <2>1, <2>13, Leaves
  <2>15. Types'
    BY <1>2, <1>3, <2>8, <2>14 DEF Types
  <2>16. (StepsFollow /\ TroubleIsHere)'
    BY <1>2, <2>2, <2>13, <2>14 DEF StepsFollow, TroubleIsHere, StepsRest
  <2>17. ControlsFollow'
    BY <1>2, <2>2, <2>13, <2>14 DEF ControlsFollow, Alive, Through, Blocking
  <2>18. SuccessRests'
    <3>1. log'.events = Append(commit.events, e)
      BY <2>6
    <3>2. /\ Len(log'.events) - 1 = Len(commit.events)
          /\ Len(commit.events) \in DOMAIN log'.events
          /\ log'.events[Len(commit.events)] = c
      BY <2>4, <2>9, <3>1
    <3>3. \E k \in DOMAIN log'.events : k = Len(log'.events) - 1 /\ PassOfFinisher(log'.events[k])
      BY <2>9, <3>2
    <3>4. QED
      BY <1>2, <1>5, <2>14, <3>3 DEF SuccessRests, PassOfFinisher
  <2>19. QED
    BY <1>2, <2>1, <2>12, <2>13, <2>15, <2>16, <2>17, <2>18, LeavingKeeps
<1>6. QED
  BY <1>4, <1>5

-----------------------------------------------------------------------------
(* Controls                                                                *)

LEMMA SkipControlKeeps ==
  ASSUME HeadlessInv, SkipControl
  PROVE  HeadlessInv'
<1> USE DEF HeadlessInv
<1>1. PICK c \in ControlIds : main' = [main EXCEPT !.queue = @ \ {c}]
  BY DEF SkipControl
<1>2. UNCHANGED <<row, log, job, fired, judged, stalled>>
  BY DEF SkipControl
<1>3. /\ main'.pc = main.pc /\ main'.iter = main.iter /\ main'.index = main.index
      /\ main'.group = main.group /\ main'.at = main.at /\ main'.calling = main.calling
      /\ main'.cause = main.cause
  BY <1>1 DEF Types, Places
<1>4. Types'
  BY <1>1, <1>2 DEF Types, Places
<1>5. (Causes /\ GroupShape /\ StepsFollow /\ TroubleIsHere)'
  BY <1>2, <1>3 DEF Causes, GroupShape, StepsFollow, TroubleIsHere, StepsRest, Troubled,
     InControls, Through
<1>6. (ControlsFollow /\ RowFollows /\ NobodyToldAStep)'
  BY <1>2, <1>3 DEF ControlsFollow, RowFollows, NobodyToldAStep, ThreadsJoined, Alive,
     InControls, Through, Blocking
<1>7. (Progress /\ SuccessRests /\ StrategyInOrder)'
  BY <1>2, <1>3, StreamRests DEF Progress, CommittedUpTo, SuccessRests, InControls, Through
<1>8. QED
  BY <1>4, <1>5, <1>6, <1>7

LEMMA FireControlKeeps ==
  ASSUME HeadlessInv, FireControl
  PROVE  HeadlessInv'
<1> USE DEF HeadlessInv
<1>1. PICK c \in ControlIds :
        /\ fired' = [fired EXCEPT ![c] = @ + 1]
        /\ job' = [job EXCEPT ![c] = [pc |-> "claim", tries |-> 0]]
        /\ main' = [main EXCEPT !.pc = "control", !.calling = c, !.queue = @ \ {c}]
  BY DEF FireControl
<1>2. main.pc = "signals" /\ UNCHANGED <<row, log, judged, stalled>>
  BY DEF FireControl
<1>3. /\ main'.pc = "control" /\ main'.iter = main.iter /\ main'.index = main.index
      /\ main'.group = main.group /\ main'.at = main.at /\ main'.calling = c
      /\ main'.cause = main.cause
  BY <1>1 DEF Types, Places
<1>4. /\ job' \in [Jobs -> [pc : JobPcs, tries : Nat]]
      /\ \A k \in Jobs : k # c => job'[k] = job[k]
      /\ c \in Jobs /\ c \notin StepIds
  BY <1>1, RunnerAssumption DEF Types, JobPcs, Jobs
<1>5. Types'
  <2>1. main' \in Places
    <3>1. main \in Places /\ "control" \in MainPcs
      BY DEF Types, MainPcs
    <3>2. QED
      BY <1>1, <3>1 DEF Places
  <2>2. fired' \in [ControlIds -> Nat]
    BY <1>1 DEF Types
  <2>3. QED
    BY <1>2, <1>4, <2>1, <2>2 DEF Types
<1>6. \A s \in StepIds : job'[s] = job[s]
  BY <1>4 DEF Jobs
<1>7. (Causes /\ GroupShape /\ StepsFollow)'
  BY <1>2, <1>3, <1>6 DEF Causes, GroupShape, StepsFollow, Troubled, InControls, Through
<1>8. TroubleIsHere'
  BY <1>2, <1>3, <1>6, WhereItStirs DEF TroubleIsHere, StepsRest, Troubled, InControls, Through
<1>9. ControlsFollow'
  BY <1>2, <1>3, <1>4 DEF ControlsFollow, Alive, Through, Blocking, Jobs
<1>10. (RowFollows /\ NobodyToldAStep)'
  BY <1>2, <1>3 DEF RowFollows, NobodyToldAStep, InControls
<1>11. (Progress /\ SuccessRests /\ StrategyInOrder)'
  BY <1>2, <1>3, StreamRests DEF Progress, CommittedUpTo, SuccessRests, InControls, Through
<1>12. QED
  BY <1>5, <1>7, <1>8, <1>9, <1>10, <1>11

\* What a control leaves: the next one is called, or the worker leaves with its error.
LEMMA ControlEnds ==
  ASSUME HeadlessInv, Types', main.pc = "control", row' = row,
         NEW q \in JobPcs \ {"claim", "try", "exec"}, job'[Calling].pc = q,
         \A k \in Jobs : k # Calling => job'[k] = job[k],
         log' = log \/ log' = Logged(log, Event("StepCommitted", Calling, FALSE)),
         \/ NextControl /\ q # "halted" /\ (Blocking(Calling) => q \in Resting)
         \/ \E cause \in Troubles : Leave(cause) /\ (q = "halted" => cause = "stop")
  PROVE  HeadlessInv'
<1> USE DEF HeadlessInv, Calling
<1>1. /\ main.calling \in ControlIds /\ main.calling \in Jobs /\ main.calling \notin StepIds
      /\ \A s \in StepIds : job'[s] = job[s]
  BY RunnerAssumption DEF ControlsFollow, Jobs
<1>2. InControls /\ ~Through /\ main.cause \in {"none", "role"}
  BY DEF InControls, Through, Causes
<1> DEFINE e == Event("StepCommitted", main.calling, FALSE)
<1>3. e \in Events /\ e.type = "StepCommitted" /\ e.step = main.calling
  BY <1>1, EventsOfTheRun
<1>4. log' = log \/ log' = Logged(log, e)
  OBVIOUS
<1> HIDE DEF e
<1>5. StrategyInOrder' /\ \A i, s : s \in StepIds => (Done(i, s)' <=> Done(i, s))
  <2>1. CASE log' = log
    BY <2>1, StreamRests
  <2>2. CASE log' = Logged(log, e)
    <3>1. \A i, s : Done(i, s)' <=>
            Done(i, s) \/ (e.type = "StepCommitted" /\ e.iter = i /\ e.step = s)
      BY <1>3, <2>2, LogGrows
    <3>2. StrategyInOrder'
      BY <1>3, <1>1, <2>2, OrderGrows
    <3>3. QED
      BY <1>3, <1>1, <3>1, <3>2
  <2>3. QED
    BY <1>4, <2>1, <2>2
<1>6. main.cause = "none" => log'.snapshot.step \notin StepIds
  <2>1. CASE log' = log
    BY <1>2, <2>1 DEF NobodyToldAStep
  <2>2. CASE log' = Logged(log, e)
    <3>1. log.snapshot \in Replayed /\ log'.snapshot = Apply(log.snapshot, e)
      BY <1>3, <2>2, LogGrows DEF Types
    <3>2. log'.snapshot.step = NoStep
      <4> HIDE DEF HeadlessInv
      <4>1. Apply(log.snapshot, e).step = NoStep
        BY <1>3, <3>1, ReplayedStep
      <4>2. QED
        BY <3>1, <4>1
    <3>3. QED
      BY <3>2, StrategyAssumption
  <2>3. QED
    BY <1>4, <2>1, <2>2
<1>7. CASE NextControl /\ q # "halted" /\ (Blocking(main.calling) => q \in Resting)
  <2>1. /\ main'.pc = "signals" /\ main'.iter = main.iter /\ main'.index = main.index
        /\ main'.group = main.group /\ main'.at = main.at /\ main'.cause = main.cause
    BY <1>7 DEF NextControl, Types, Places
  <2>2. (Causes /\ GroupShape /\ StepsFollow)'
    BY <1>1, <1>2, <2>1 DEF Causes, GroupShape, StepsFollow, Troubled, InControls, Through
  <2>3. TroubleIsHere'
    BY <1>1, <1>2, <2>1, WhereItStirs
       DEF TroubleIsHere, StepsRest, Troubled, InControls, Through
  <2>4. ControlsFollow'
    BY <1>1, <1>2, <1>7, <2>1 DEF ControlsFollow, Alive, Through, Blocking, Jobs
  <2>5. (RowFollows /\ NobodyToldAStep /\ SuccessRests)'
    BY <1>6, <2>1 DEF RowFollows, NobodyToldAStep, SuccessRests, InControls, Through
  <2>6. Progress'
    BY <1>2, <1>5, <2>1 DEF Progress, CommittedUpTo, InControls
  <2>7. QED
    BY <1>5, <2>2, <2>3, <2>4, <2>5, <2>6
<1>8. CASE \E cause \in Troubles : Leave(cause) /\ (q = "halted" => cause = "stop")
  <2>1. PICK cause \in Troubles : Leave(cause) /\ (q = "halted" => cause = "stop")
    BY <1>8
  <2>2. cause \in DOMAIN Outcome /\ cause \notin {"close", "rounds"}
    BY DEF Outcome, Troubles
  <2>3. /\ main'.pc = "leaving" /\ main'.cause = cause
        /\ main'.group = main.group /\ main'.at = main.at
    BY <2>1, <2>2, Leaves
  <2>4. StepsFollow'
    BY <1>1, <1>2, <2>3 DEF StepsFollow, Troubled, Through, InControls
  <2>5. TroubleIsHere'
    <3>1. CASE StepsRest
      BY <1>1, <3>1 DEF TroubleIsHere, StepsRest
    <3>2. CASE ~StepsRest
      <4>1. Troubled /\ main.group[main.at] \in StepIds
        BY <1>2, <3>2, WhereItStirs, RestsBetween
      <4>2. QED
        BY <1>1, <1>2, <2>3, <3>2, <4>1 DEF TroubleIsHere, StepsRest
    <3>3. QED
      BY <3>1, <3>2
  <2>6. ControlsFollow'
    BY <1>1, <1>2, <2>1, <2>3 DEF ControlsFollow, Alive, Through, Blocking, Jobs
  <2>7. SuccessRests'
    BY <2>2, <2>3 DEF SuccessRests
  <2>8. QED
    BY <1>5, <2>1, <2>2, <2>4, <2>5, <2>6, <2>7, LeavingKeeps
<1>9. QED
  BY <1>7, <1>8

LEMMA CallingMoves ==
  ASSUME Types,
         \/ NextControl
         \/ \E cause \in Troubles : Leave(cause)
  PROVE  main' \in Places
<1>1. "signals" \in MainPcs /\ main \in Places
  BY DEF Types, MainPcs
<1>2. ASSUME NextControl PROVE main' \in Places
  BY <1>1, <1>2 DEF NextControl, Places
<1>3. Troubles \subseteq DOMAIN Outcome
  BY DEF Troubles, Outcome
<1>4. QED
  BY <1>2, <1>3, Leaves

LEMMA AwaitControlKeeps ==
  ASSUME HeadlessInv, AwaitControl
  PROVE  HeadlessInv'
<1>1. main.pc = "control" /\ Types /\ UNCHANGED <<row, log, job, fired, judged, stalled>>
  BY DEF AwaitControl, HeadlessInv
<1>2. Calling \in Jobs
  BY <1>1 DEF HeadlessInv, ControlsFollow, Calling, Jobs
<1>3. job[Calling].pc \in {"failed", "broke", "halted"}
  BY DEF AwaitControl
<1>4. \/ NextControl /\ job[Calling].pc # "halted" /\ ~Blocking(Calling)
      \/ \E cause \in Troubles : Leave(cause) /\ (job[Calling].pc = "halted" => cause = "stop")
  <2>1. CASE job[Calling].pc = "halted"
    BY <2>1 DEF AwaitControl, ControlHalts, Troubles
  <2>2. CASE job[Calling].pc # "halted"
    <3>1. ControlRaises("role") \/ ControlRaises("crash")
      BY <2>2 DEF AwaitControl
    <3>2. QED
      BY <2>2, <3>1 DEF ControlRaises, Troubles
  <2>3. QED
    BY <2>1, <2>2
<1>5. main' \in Places
  BY <1>1, <1>4, CallingMoves
<1>6. Types'
  BY <1>1, <1>5 DEF Types
<1>7. job[Calling].pc \in JobPcs \ {"claim", "try", "exec"}
  BY <1>3 DEF JobPcs
<1>8. QED
  BY <1>1, <1>4, <1>6, <1>7, ControlEnds

LEMMA CommitControlKeeps ==
  ASSUME HeadlessInv, CommitControl
  PROVE  HeadlessInv'
<1>1. /\ main.pc = "control" /\ Types /\ UNCHANGED <<row, fired, judged, stalled>>
      /\ job[Calling].pc = "ok" /\ log' = Logged(log, Event("StepCommitted", Calling, FALSE))
  BY DEF CommitControl, HeadlessInv
<1>2. Calling \in Jobs
  BY <1>1 DEF HeadlessInv, ControlsFollow, Calling, Jobs
<1>3. PICK q \in {"ok", "broke", "unsafe"} :
        /\ q = "ok" => NextControl /\ UNCHANGED job
        /\ q # "ok" => Rest(Calling, q) /\ (ControlRaises("crash") \/ ControlRaises("unsafe"))
  BY DEF CommitControl
<1>4. /\ q \in JobPcs \ {"claim", "try", "exec"} /\ job'[Calling].pc = q
      /\ \A k \in Jobs : k # Calling => job'[k] = job[k]
      /\ job' \in [Jobs -> [pc : JobPcs, tries : Nat]]
  <2>1. q \in JobPcs \ {"claim", "try", "exec"} /\ q # "try"
    BY DEF JobPcs
  <2>2. job \in [Jobs -> [pc : JobPcs, tries : Nat]]
    BY <1>1 DEF Types
  <2>3. CASE q = "ok"
    BY <1>1, <1>3, <2>1, <2>2, <2>3
  <2>4. CASE q # "ok"
    BY <1>2, <1>3, <2>1, <2>2, <2>4 DEF Rest
  <2>5. QED
    BY <2>3, <2>4, <2>1
<1>5. \/ NextControl /\ q # "halted" /\ (Blocking(Calling) => q \in Resting)
      \/ \E cause \in Troubles : Leave(cause) /\ (q = "halted" => cause = "stop")
  BY <1>3 DEF ControlRaises, Troubles, Resting
<1>6. main' \in Places
  BY <1>1, <1>5, CallingMoves
<1>7. log' \in [events : Seq(Events), snapshot : Replayed]
  <2>1. Event("StepCommitted", Calling, FALSE) \in Events
    BY <1>1, <1>2, EventsOfTheRun
  <2>2. QED
    BY <1>1, <2>1, LogGrows
<1>8. Types'
  BY <1>1, <1>4, <1>6, <1>7 DEF Types
<1>9. QED
  BY <1>1, <1>4, <1>5, <1>8, ControlEnds

LEMMA SubmitControlFailsKeeps ==
  ASSUME HeadlessInv, SubmitControlFails
  PROVE  HeadlessInv'
<1>1. /\ main.pc = "control" /\ Types /\ UNCHANGED <<row, log, fired, judged, stalled>>
      /\ Rest(Calling, "broke") /\ ControlRaises("crash")
  BY DEF SubmitControlFails, HeadlessInv
<1>2. Calling \in Jobs
  BY <1>1 DEF HeadlessInv, ControlsFollow, Calling, Jobs
<1>3. /\ "broke" \in JobPcs \ {"claim", "try", "exec"} /\ job'[Calling].pc = "broke"
      /\ \A k \in Jobs : k # Calling => job'[k] = job[k]
      /\ job' \in [Jobs -> [pc : JobPcs, tries : Nat]]
  BY <1>1, <1>2 DEF Rest, Types, JobPcs
<1>4. \/ NextControl /\ ~Blocking(Calling)
      \/ \E cause \in Troubles : Leave(cause)
  BY <1>1 DEF ControlRaises, Troubles
<1>5. main' \in Places
  BY <1>1, <1>4, CallingMoves
<1>6. Types'
  BY <1>1, <1>3, <1>5 DEF Types
<1>7. QED
  BY <1>1, <1>3, <1>4, <1>6, ControlEnds

-----------------------------------------------------------------------------
(* The ends                                                                *)

\* The controls are through: the worker leaves with the role's failure, or the iteration,
\* whose steps are all committed, is closed.
LEMMA EndSignalsKeeps ==
  ASSUME HeadlessInv, EndSignals
  PROVE  HeadlessInv'
<1> USE DEF HeadlessInv
<1>1. main.pc = "signals" /\ UNCHANGED <<row, job, fired, judged, stalled>>
  BY DEF EndSignals
<1>2. InControls /\ ~Through /\ main.cause \in {"none", "role"}
  BY <1>1 DEF InControls, Through, Causes
<1>3. CASE main.cause # "none"
  <2>1. Leave("role") /\ UNCHANGED log
    BY <1>2, <1>3 DEF EndSignals
  <2>2. "role" \in DOMAIN Outcome /\ "role" \in Troubles
    BY DEF Outcome, Troubles
  <2>3. /\ main'.pc = "leaving" /\ main'.cause = "role" /\ main' \in Places
        /\ main'.group = main.group /\ main'.at = main.at
    BY <2>1, <2>2, Leaves
  <2>4. Types'
    BY <1>1, <2>1, <2>3 DEF Types
  <2>5. (StepsFollow /\ TroubleIsHere)'
    BY <1>1, <1>2, <1>3, <2>2, <2>3
       DEF StepsFollow, TroubleIsHere, StepsRest, Troubled, Through, InControls
  <2>6. ControlsFollow'
    BY <1>1, <1>2, <2>2, <2>3 DEF ControlsFollow, Alive, Through, Blocking
  <2>7. (SuccessRests /\ StrategyInOrder)'
    BY <1>1, <2>1, <2>3, StreamRests DEF SuccessRests
  <2>8. QED
    BY <1>1, <2>1, <2>2, <2>4, <2>5, <2>6, <2>7, LeavingKeeps
<1>4. CASE main.cause = "none"
  <2> DEFINE e == IterationEvent("IterationCompleted")
  <2>1. log' = Logged(log, e) /\ main' = [main EXCEPT !.pc = "top", !.iter = @ + 1]
    BY <1>4 DEF EndSignals
  <2>2. e \in Events /\ e.type = "IterationCompleted" /\ e.iter = main.iter
    BY IterationEvents
  <2> HIDE DEF e
  <2>3. /\ main.iter \in 0 .. MaxIters - 1 /\ MaxIters \in Nat
        /\ StepsRest /\ CommittedUpTo(Len(Strategy))
    <3>1. StepsRest
      BY <1>1, <1>2, <1>4, RestsBetween DEF Troubled
    <3>2. main.iter < MaxIters /\ CommittedUpTo(Len(Strategy))
      BY <1>1, <1>2, <1>4 DEF Progress
    <3>3. main.iter \in 0 .. MaxIters /\ MaxIters \in Nat
      BY RunnerAssumption DEF Types, Places
    <3>4. QED
      BY <3>1, <3>2, <3>3
  <2>4. /\ main'.pc = "top" /\ main'.iter = main.iter + 1 /\ main'.cause = "none"
        /\ main'.group = main.group /\ main'.at = main.at
    BY <1>4, <2>1 DEF Types, Places
  <2>5. /\ log' \in [events : Seq(Events), snapshot : Replayed]
        /\ log'.snapshot = Apply(log.snapshot, e)
        /\ \A i, s : Done(i, s)' <=> Done(i, s)
    BY <2>1, <2>2, LogGrows
  <2>6. Types'
    <3>1. main' \in Places
      <4>1. main \in Places /\ "top" \in MainPcs /\ main.iter + 1 \in 0 .. MaxIters
        BY <2>3 DEF Types, MainPcs
      <4>2. QED
        BY <2>1, <4>1 DEF Places
    <3>2. QED
      BY <1>1, <2>5, <3>1 DEF Types
  <2>7. \A i \in 0 .. MaxIters, s \in StepIds :
          Done(i, s) <=> (i < main.iter \/ i = main.iter)
    <3>1. \A s \in StepIds : IndexOf(s) <= Len(Strategy)
      BY IndexIsPlace
    <3>2. QED
      BY <2>3, <3>1 DEF CommittedUpTo
  <2>8. StrategyInOrder'
    <3>1. \A s \in StepIds : Done(e.iter, s)
      BY <2>2, <2>3, <2>7
    <3>2. QED
      BY <1>1, <2>1, <2>2, <3>1, OrderGrows
  <2>9. Progress'
    <3>1. \A s \in StepIds : ~(IndexOf(s) <= 0)
      BY IndexIsPlace
    <3>2. \A i \in 0 .. MaxIters : (i < main.iter \/ i = main.iter) <=> i < main.iter + 1
      BY <2>3
    <3>3. CommittedUpTo(0)'
      BY <2>4, <2>5, <2>7, <3>1, <3>2 DEF CommittedUpTo
    <3>4. QED
      BY <2>4, <3>3 DEF Progress, InControls
  <2>10. NobodyToldAStep'
    <3>1. log.snapshot.step \notin StepIds /\ log.snapshot \in Replayed
      BY <1>2, <1>4 DEF NobodyToldAStep, Types
    <3> HIDE DEF HeadlessInv
    <3>2. Apply(log.snapshot, e).step = log.snapshot.step
      BY <2>2, <3>1, ReplayedStep
    <3>3. QED
      BY <2>5, <3>1, <3>2 DEF NobodyToldAStep
  <2>11. (Causes /\ GroupShape /\ StepsFollow /\ TroubleIsHere)'
    BY <1>1, <2>3, <2>4 DEF Causes, GroupShape, StepsFollow, TroubleIsHere, StepsRest,
       Troubled, InControls, Through
  <2>12. (ControlsFollow /\ RowFollows /\ SuccessRests)'
    BY <1>1, <1>2, <2>4 DEF ControlsFollow, RowFollows, SuccessRests, Alive, Blocking, Through
  <2>13. QED
    BY <2>6, <2>8, <2>9, <2>10, <2>11, <2>12
<1>5. QED
  BY <1>3, <1>4

LEMMA EndKeeps ==
  ASSUME HeadlessInv, End
  PROVE  HeadlessInv'
<1> USE DEF HeadlessInv
<1>1. /\ main.pc = "leaving" /\ ThreadsJoined
      /\ row' = [row EXCEPT !.status = Outcome[main.cause]]
      /\ main' = [main EXCEPT !.pc = "ended"]
      /\ UNCHANGED <<log, job, fired, judged, stalled>>
  BY DEF End
<1>2. /\ main'.pc = "ended" /\ main'.iter = main.iter /\ main'.group = main.group
      /\ main'.at = main.at /\ main'.cause = main.cause
      /\ row'.status = Outcome[main.cause] /\ row'.mode = row.mode
  BY <1>1 DEF Types, Places
<1>3. Types'
  <2>1. main.cause \in DOMAIN Outcome
    BY <1>1 DEF Causes, Through, Types, Places
  <2>2. Outcome[main.cause] \in {"running", "succeeded", "failed", "stopped"}
    BY <2>1 DEF Outcome
  <2>3. main' \in Places
    <3>1. main \in Places /\ "ended" \in MainPcs
      BY DEF Types, MainPcs
    <3>2. QED
      BY <1>1, <3>1 DEF Places
  <2>4. QED
    BY <1>1, <2>2, <2>3 DEF Types
<1>4. (Causes /\ GroupShape /\ StepsFollow /\ TroubleIsHere)'
  BY <1>1, <1>2 DEF Causes, GroupShape, StepsFollow, TroubleIsHere, StepsRest,
     Troubled, InControls, Through
<1>5. (ControlsFollow /\ RowFollows /\ NobodyToldAStep)'
  BY <1>1, <1>2 DEF ControlsFollow, RowFollows, NobodyToldAStep, ThreadsJoined, Alive,
     Blocking, Through, InControls
<1>6. (Progress /\ SuccessRests /\ StrategyInOrder)'
  BY <1>1, <1>2, StreamRests DEF Progress, SuccessRests, InControls, Through
<1>7. QED
  BY <1>3, <1>4, <1>5, <1>6

LEMMA FinalizationFailsKeeps ==
  ASSUME HeadlessInv, FinalizationFails
  PROVE  HeadlessInv'
<1> USE DEF HeadlessInv
<1>1. /\ main.pc = "leaving" /\ ThreadsJoined /\ main.cause # "crash" /\ Through
      /\ UNCHANGED <<row, log, job, fired, judged, stalled>>
  BY DEF FinalizationFails, Through
<1>2. row.status = "running" /\ main \in Places /\ main.cause \in DOMAIN Outcome
  BY <1>1 DEF RowFollows, Types, Places, Causes
<1>3. CASE main.cause \in Handled
  <2>1. main' = [main EXCEPT !.pc = "ended"]
    BY <1>3 DEF FinalizationFails
  <2>2. /\ main'.pc = "ended" /\ main'.iter = main.iter /\ main'.group = main.group
        /\ main'.at = main.at /\ main'.cause = main.cause
    BY <1>2, <2>1 DEF Places
  <2>3. Types'
    <3>1. "ended" \in MainPcs
      BY DEF MainPcs
    <3>2. main' \in Places
      BY <1>2, <2>1, <3>1 DEF Places
    <3>3. QED
      BY <1>1, <3>2 DEF Types
  <2>4. (Causes /\ GroupShape /\ StepsFollow /\ TroubleIsHere)'
    BY <1>1, <2>2 DEF Causes, GroupShape, StepsFollow, TroubleIsHere, StepsRest,
       Troubled, InControls, Through
  <2>5. (ControlsFollow /\ RowFollows /\ NobodyToldAStep)'
    BY <1>1, <1>2, <1>3, <2>2 DEF ControlsFollow, RowFollows, NobodyToldAStep, ThreadsJoined,
       Alive, Blocking, Through, InControls
  <2>6. (Progress /\ SuccessRests /\ StrategyInOrder)'
    BY <1>1, <2>2, StreamRests DEF Progress, SuccessRests, InControls, Through
  <2>7. QED
    BY <2>3, <2>4, <2>5, <2>6
<1>4. CASE main.cause \notin Handled
  <2>1. main' = [main EXCEPT !.cause = "crash"]
    BY <1>4 DEF FinalizationFails
  <2>2. /\ main'.pc = "leaving" /\ main'.iter = main.iter /\ main'.group = main.group
        /\ main'.at = main.at /\ main'.cause = "crash"
    BY <1>1, <1>2, <2>1 DEF Places
  <2>3. Types'
    <3>1. "crash" \in DOMAIN Outcome
      BY DEF Outcome
    <3>2. main' \in Places
      BY <1>2, <2>1, <3>1 DEF Places
    <3>3. QED
      BY <1>1, <3>2 DEF Types
  <2>4. StepsRest /\ StepsRest'
    <3>1. ~Troubled
      BY <1>1, <1>4 DEF Troubled, Troubles, Handled, InControls
    <3>2. StepsRest
      BY <1>1, <3>1, RestsBetween
    <3>3. QED
      BY <1>1, <3>2 DEF StepsRest
  <2>5. (Causes /\ GroupShape /\ StepsFollow /\ TroubleIsHere)'
    BY <1>1, <2>2, <2>4 DEF Causes, GroupShape, StepsFollow, TroubleIsHere, StepsRest,
       InControls, Through
  <2>6. ControlsFollow'
    <3>1. main.cause # "stop"
      BY <1>4 DEF Handled
    <3>2. QED
      BY <1>1, <2>2, <3>1 DEF ControlsFollow, Alive, Blocking, Through, Troubles
  <2>7. (RowFollows /\ NobodyToldAStep)'
    BY <1>1, <1>2, <2>2 DEF RowFollows, NobodyToldAStep, InControls
  <2>8. (Progress /\ SuccessRests /\ StrategyInOrder)'
    BY <1>1, <2>2, StreamRests DEF Progress, SuccessRests, InControls, Through
  <2>9. QED
    BY <2>3, <2>5, <2>6, <2>7, <2>8
<1>5. QED
  BY <1>3, <1>4

LEMMA RequestStopKeeps ==
  ASSUME HeadlessInv, RequestStop
  PROVE  HeadlessInv'
<1> USE DEF HeadlessInv
<1>1. row' = [row EXCEPT !.stop = TRUE] /\ UNCHANGED <<log, main, job, fired, judged, stalled>>
  BY DEF RequestStop
<1>2. row'.status = row.status /\ row'.mode = row.mode /\ Types'
  BY <1>1 DEF Types
<1>3. (Causes /\ GroupShape /\ StepsFollow /\ TroubleIsHere)'
  BY <1>1 DEF Causes, GroupShape, StepsFollow, TroubleIsHere, StepsRest,
     Troubled, InControls, Through
<1>4. (ControlsFollow /\ RowFollows /\ NobodyToldAStep)'
  BY <1>1, <1>2 DEF ControlsFollow, RowFollows, NobodyToldAStep, ThreadsJoined, Alive,
     Blocking, Through, InControls
<1>5. (Progress /\ SuccessRests /\ StrategyInOrder)'
  BY <1>1, <1>2, StreamRests DEF Progress, CommittedUpTo, SuccessRests, InControls, Through
<1>6. QED
  BY <1>2, <1>3, <1>4, <1>5

LEMMA StutterKeeps ==
  ASSUME HeadlessInv, UNCHANGED vars
  PROVE  HeadlessInv'
<1> USE DEF HeadlessInv, vars
<1>1. Types'
  BY DEF Types
<1>2. (Causes /\ GroupShape /\ StepsFollow /\ TroubleIsHere)'
  BY DEF Causes, GroupShape, StepsFollow, TroubleIsHere, StepsRest, Troubled, InControls, Through
<1>3. (ControlsFollow /\ RowFollows /\ NobodyToldAStep)'
  BY DEF ControlsFollow, RowFollows, NobodyToldAStep, ThreadsJoined, Alive, Blocking, Through,
     InControls
<1>4. (Progress /\ SuccessRests /\ StrategyInOrder)'
  BY StreamRests DEF Progress, CommittedUpTo, SuccessRests, InControls, Through
<1>5. QED
  BY <1>1, <1>2, <1>3, <1>4

LEMMA InitKeeps ==
  ASSUME Init
  PROVE  HeadlessInv
<1>1. /\ main.pc = "top" /\ main.iter = 0 /\ main.index = 1 /\ main.group = <<>>
      /\ main.cause = "none" /\ log.events = <<>> /\ log.snapshot = EmptySnapshot
      /\ row.status = "running"
  BY DEF Init
<1>2. \A j \in Jobs : job[j].pc = "idle"
  BY DEF Init
<1>3. StepIds \subseteq Jobs /\ ControlIds \subseteq Jobs
  BY DEF Jobs
<1>4. Types
  <2>1. PICK mode \in {"gatekeeper", "rounds"}, limit \in RetryLimits :
          row = [status |-> "running", stop |-> FALSE, child |-> None,
                 mode |-> mode, retries |-> limit]
    BY DEF Init
  <2>2. log \in [events : Seq(Events), snapshot : Replayed]
    BY DEF Init, EmptySnapshot, Replayed
  <2>3. main \in Places
    BY StrategyAssumption, RunnerAssumption DEF Init, Places, MainPcs
  <2>4. job \in [Jobs -> [pc : JobPcs, tries : Nat]]
    BY DEF Init, JobPcs
  <2>5. QED
    BY <2>1, <2>2, <2>3, <2>4 DEF Init, Types
<1>5. Causes /\ GroupShape
  BY <1>1 DEF Causes, GroupShape, InControls, Through
<1>6. StepsFollow /\ TroubleIsHere /\ ControlsFollow
  BY <1>1, <1>2, <1>3 DEF StepsFollow, TroubleIsHere, StepsRest, ControlsFollow, Resting, Alive
<1>7. RowFollows /\ NobodyToldAStep /\ SuccessRests
  BY <1>1, StrategyAssumption
     DEF RowFollows, NobodyToldAStep, SuccessRests, EmptySnapshot, Through
<1>8. DOMAIN log.events = {}
  BY <1>1
<1>9. Progress
  <2>1. \A i, s : ~Done(i, s)
    BY <1>8 DEF Done, Committed
  <2>2. \A s \in StepIds : ~(IndexOf(s) <= 0)
    BY IndexIsPlace
  <2>3. \A i \in 0 .. MaxIters : ~(i < 0)
    OBVIOUS
  <2>4. CommittedUpTo(0)
    BY <1>1, <2>1, <2>2, <2>3 DEF CommittedUpTo
  <2>5. QED
    BY <1>1, <2>4 DEF Progress, InControls
<1>10. StrategyInOrder
  BY <1>8 DEF StrategyInOrder
<1>11. QED
  BY <1>4, <1>5, <1>6, <1>7, <1>9, <1>10 DEF HeadlessInv

LEMMA StepKeeps ==
  ASSUME HeadlessInv, [Next]_vars
  PROVE  HeadlessInv'
<1>1. ASSUME MainStep
      PROVE  HeadlessInv'
  BY <1>1, BeginIterationKeeps, ExhaustKeeps, DispatchKeeps, EndStepsKeeps, AwaitStepKeeps,
     SubmitFailsKeeps, CommitFailsKeeps, CommitKeeps, CommitJudgementKeeps, SkipControlKeeps,
     FireControlKeeps, AwaitControlKeeps, CommitControlKeeps, SubmitControlFailsKeeps,
     EndSignalsKeeps, EndKeeps, FinalizationFailsKeeps DEF MainStep
<1>2. QED
  BY <1>1, JobStepKeeps, RequestStopKeeps, StutterKeeps DEF Next, WorkerStep

\* The inductive invariant holds throughout.
THEOREM HeadlessInvariant ==
  Spec => []HeadlessInv
<1>1. Init => HeadlessInv
  BY InitKeeps
<1>2. HeadlessInv /\ [Next]_vars => HeadlessInv'
  BY StepKeeps
<1>3. QED
  BY <1>1, <1>2, PTL DEF Spec

-----------------------------------------------------------------------------
(* What it makes sure of                                                   *)

\* Whatever the worker and its threads append is replayed at once.
Folded == log.snapshot = Snapshot(log.events)

LEMMA FoldGoesOn ==
  ASSUME Types, Folded, NEW e, NEW l, l = Logged(log, e)
  PROVE  l.snapshot = Snapshot(l.events)
<1>1. log.events \in Seq(Events)
  BY DEF Types
<1>2. Snapshot(Append(log.events, e)) = Apply(Snapshot(log.events), e)
  BY <1>1, SnapshotOfOneMore
<1>3. l.events = Append(log.events, e) /\ l.snapshot = Apply(log.snapshot, e)
  BY DEF Logged
<1>4. QED
  BY <1>2, <1>3 DEF Folded

LEMMA FoldKept ==
  ASSUME HeadlessInv, Folded, [Next]_vars
  PROVE  Folded'
<1>1. Types
  BY DEF HeadlessInv
<1>2. ASSUME log' = log
      PROVE  Folded'
  BY <1>2 DEF Folded
<1>3. ASSUME NEW e, log' = Logged(log, e)
      PROVE  Folded'
  BY <1>1, <1>3, FoldGoesOn DEF Folded
<1>4. ASSUME CommitJudgement
      PROVE  Folded'
  <2>1. main.pc = "committing"
    BY <1>4 DEF CommitJudgement
  <2>2. PICK passed \in BOOLEAN :
          LET commit == Logged(log, Event("StepCommitted", main.group[main.at], passed)) IN
          \/ log' = commit
          \/ log' = Logged(commit, IterationEvent("IterationCompleted"))
    BY <1>4 DEF CommitJudgement
  <2> DEFINE c == Event("StepCommitted", main.group[main.at], passed)
             commit == Logged(log, c)
             e == IterationEvent("IterationCompleted")
  <2>3. commit.snapshot = Snapshot(commit.events)
    BY <1>1, FoldGoesOn
  <2>4. CASE log' = commit
    BY <2>3, <2>4 DEF Folded
  <2>5. CASE log' = Logged(commit, e)
    <3>1. commit.events \in Seq(Events)
      BY <2>1, CommitGrows
    <3>2. Snapshot(Append(commit.events, e)) = Apply(Snapshot(commit.events), e)
      BY <3>1, SnapshotOfOneMore
    <3> HIDE DEF commit, e
    <3>3. log'.events = Append(commit.events, e) /\ log'.snapshot = Apply(commit.snapshot, e)
      BY <2>5 DEF Logged
    <3>4. QED
      BY <2>3, <3>2, <3>3 DEF Folded
  <2>6. QED
    BY <2>2, <2>4, <2>5
<1>5. ASSUME NEW j \in Jobs, JobStep(j)
      PROVE  Folded'
  <2>1. log' = log \/ log' = Logged(log, Event("StepInstructionIssued", j, FALSE))
    BY <1>5 DEF JobStep, Claim, Attempt, ChildEnds
  <2>2. QED
    BY <1>2, <1>3, <2>1
<1>6. ASSUME MainStep
      PROVE  Folded'
  <2>1. CASE CommitJudgement
    BY <1>4, <2>1
  <2>2. CASE BeginIteration \/ EndSignals
    <3>1. \/ log' = log
          \/ log' = Logged(log, IterationEvent("IterationStarted"))
          \/ log' = Logged(log, IterationEvent("IterationCompleted"))
      BY <2>2 DEF BeginIteration, EndSignals
    <3>2. QED
      BY <1>2, <1>3, <3>1
  <2>3. CASE CommitFails \/ Commit \/ CommitControl
    <3>1. \/ log' = Logged(log, Event("StepCommitted", main.group[main.at], FALSE))
          \/ log' = Logged(log, Event("StepCommitted", Calling, FALSE))
      BY <2>3 DEF CommitFails, Commit, CommitControl
    <3>2. QED
      BY <1>3, <3>1
  <2>4. CASE \/ Exhaust \/ Dispatch \/ EndSteps \/ AwaitStep \/ SubmitFails \/ SkipControl
             \/ FireControl \/ AwaitControl \/ SubmitControlFails \/ End
             \/ FinalizationFails
    <3>1. log' = log
      BY <2>4 DEF Exhaust, Dispatch, EndSteps, AwaitStep, SubmitFails, SkipControl,
         FireControl, AwaitControl, SubmitControlFails, End, FinalizationFails
    <3>2. QED
      BY <1>2, <3>1
  <2>5. QED
    BY <1>6, <2>1, <2>2, <2>3, <2>4 DEF MainStep
<1>7. ASSUME RequestStop \/ UNCHANGED vars
      PROVE  Folded'
  BY <1>2, <1>7 DEF RequestStop, vars
<1>8. QED
  BY <1>5, <1>6, <1>7 DEF Next, WorkerStep

\* The worker's row, stream and threads keep their types, and the snapshot that is kept beside
\* the events is their replay.
THEOREM HeadlessTypes ==
  Spec => []TypeOK
<1>1. Init => Folded
  BY SnapshotOfNone DEF Init, Folded
<1>2. HeadlessInv /\ Folded /\ [Next]_vars => Folded'
  BY FoldKept
<1>3. HeadlessInv /\ Folded => TypeOK
  BY DEF HeadlessInv, Folded, TypeOK
<1>4. QED
  BY <1>1, <1>2, <1>3, HeadlessInvariant, PTL DEF Spec

\* For every strategy, set of controls and number of iterations, whatever is retried, whatever
\* controls claim and commit in between: every step is committed once in every iteration, in
\* the strategy's order, and no iteration is closed over a step that is missing.
THEOREM StepsInOrder ==
  Spec => []StrategyInOrder
<1>1. HeadlessInv => StrategyInOrder
  BY DEF HeadlessInv
<1>2. QED
  BY <1>1, HeadlessInvariant, PTL

LEMMA EarnedInside ==
  ASSUME HeadlessInv
  PROVE  SuccessIsEarned
<1> USE DEF HeadlessInv
<1>1. SUFFICES ASSUME row.status = "succeeded"
               PROVE  /\ \A j \in Jobs :
                           (j \in StepIds \/ Blocking(j)) => job[j].pc \in {"idle", "ok"}
                      /\ IF row.mode = "gatekeeper"
                         THEN \E k \in DOMAIN log.events :
                                k = Len(log.events) - 1 /\ PassOfFinisher(log.events[k])
                         ELSE \A i \in 0 .. MaxIters - 1, s \in StepIds : Done(i, s)
  BY DEF SuccessIsEarned, Done
<1>2. main.pc = "ended" /\ Through /\ Outcome[main.cause] = "succeeded"
  BY <1>1 DEF RowFollows, Through
<1>3. main.cause \in DOMAIN Outcome
  BY <1>2 DEF Causes, Types, Places
<1>4. main.cause \in {"close", "rounds"} /\ main.cause \notin Troubles
  BY <1>2, <1>3 DEF Outcome, Troubles
<1>5. ASSUME NEW j \in Jobs, j \in StepIds \/ Blocking(j)
      PROVE  job[j].pc \in Resting
  <2>1. CASE j \in StepIds
    BY <1>2, <1>4, <2>1 DEF StepsFollow, Troubled, InControls
  <2>2. CASE j \notin StepIds
    BY <1>2, <1>4, <1>5, <2>2 DEF ControlsFollow, Jobs
  <2>3. QED
    BY <2>1, <2>2
<1>6. QED
  BY <1>2, <1>4, <1>5 DEF SuccessRests, Resting

\* A run succeeds only over steps and blocking controls none of which failed, broke or left
\* the workspace unsafe, after a GateKeeper's pass or all of its rounds.
THEOREM SuccessesAreEarned ==
  Spec => []SuccessIsEarned
<1>1. HeadlessInv => SuccessIsEarned
  BY EarnedInside
<1>2. QED
  BY <1>1, HeadlessInvariant, PTL

LEMMA SeenInside ==
  ASSUME HeadlessInv
  PROVE  StopIsNotSwallowed
<1> USE DEF HeadlessInv
<1>1. SUFFICES ASSUME Over, NEW j \in Jobs, job[j].pc = "halted"
               PROVE  \/ row.status = "stopped"
                      \/ /\ j \in StepIds /\ GroupOf[j] # NoGroup
                         /\ \E s \in StepIds :
                              /\ GroupOf[s] = GroupOf[j] /\ IndexOf(s) < IndexOf(j)
                              /\ job[s].pc \in {"failed", "broke"}
  BY DEF StopIsNotSwallowed
<1>2. main.pc = "ended" /\ Through /\ row.status = Outcome[main.cause] /\ "halted" \notin Resting
  BY <1>1 DEF RowFollows, Over, Through, Resting
<1>3. main.cause = "stop" => row.status = "stopped"
  BY <1>2 DEF Outcome
<1>4. CASE j \in ControlIds
  BY <1>1, <1>2, <1>3, <1>4 DEF ControlsFollow
<1>5. CASE j \in StepIds
  <2>1. ~StepsRest /\ Troubled
    BY <1>1, <1>2, <1>5 DEF StepsRest, StepsFollow
  <2>2. PICK i \in DOMAIN main.group : main.at <= i /\ main.group[i] = j
    BY <1>1, <1>2, <1>5 DEF StepsFollow
  <2>3. main.at \in DOMAIN main.group /\ main.group[main.at] \in StepIds
    BY <2>1, WhereItStirs
  <2>4. CASE job[main.group[main.at]].pc \in {"failed", "broke"}
    <3>1. main.at # i
      BY <1>1, <2>2, <2>4
    <3>2. main.at < i
      BY <2>2, <2>3, <3>1 DEF Types, Places
    <3>3. /\ GroupOf[main.group[main.at]] = GroupOf[j] /\ GroupOf[j] # NoGroup
          /\ IndexOf(main.group[main.at]) < IndexOf(j)
      BY <2>2, <2>3, <3>2 DEF GroupShape
    <3>4. QED
      BY <1>5, <2>3, <2>4, <3>3
  <2>5. CASE job[main.group[main.at]].pc = "unsafe"
    BY <1>1, <1>2, <1>5, <2>1, <2>5 DEF TroubleIsHere
  <2>6. QED
    BY <1>3, <2>1, <2>4, <2>5 DEF TroubleIsHere
<1>6. QED
  BY <1>4, <1>5 DEF Jobs

\* A run over which a role or a control has seen a stop is stopped, unless an earlier step of
\* the role's group failed first.
THEOREM StopsAreSeen ==
  Spec => []StopIsNotSwallowed
<1>1. HeadlessInv => StopIsNotSwallowed
  BY SeenInside
<1>2. QED
  BY <1>1, HeadlessInvariant, PTL

=============================================================================
