----------------------- MODULE ProjectionCacheProofs ------------------------
(***************************************************************************)
(* ProjectionCache keeps the promises of ProjectionReads for any number of *)
(* writers, readers and projections, as long as the stream fits the page,  *)
(* and never replaces a replay by an older one even when it does not.      *)
(***************************************************************************)
EXTENDS ProjectionCache, TLAPS

ReaderOK(r) ==
  LET me == reader[r]
  IN /\ me.latest <= stream
     /\ me.todo \subseteq me.wanted
     /\ me.pc # "idle" => me.latest > 0 /\ me.wanted # {}
     /\ me.pc = "reading" => \A n \in me.wanted \ me.todo : me.got[n] = me.latest

\* The inductive invariant: records are replays of the page of some earlier stream, and
\* what a reader has gathered so far is what it first read of the stream.
CacheInv ==
  /\ TypeOK
  /\ stream > 0
  /\ \A n \in Names : cache[n].seq = cache[n].shows /\ cache[n].seq <= Page(stream)
  /\ \A r \in Readers : ReaderOK(r)

\* The page of a longer stream is at least as long, and never longer than the stream.
LEMMA PageGrows ==
  ASSUME NEW a \in Nat, NEW b \in Nat, a <= b
  PROVE  Page(a) \in Nat /\ Page(a) <= Page(b) /\ Page(a) <= a
BY CacheAssumption DEF Page

LEMMA InitOK == Init => CacheInv
<1> SUFFICES ASSUME Init PROVE CacheInv OBVIOUS
<1>1. TypeOK BY DEF Init, At, TypeOK, ReaderState
<1>2. 0 <= Page(stream) BY PageGrows DEF Init
<1>3. \A n \in Names : cache[n].seq = cache[n].shows /\ cache[n].seq <= Page(stream)
  BY <1>2 DEF Init
<1> QED BY <1>1, <1>3 DEF Init, At, CacheInv, ReaderOK

\* What a transaction that rebuilds the records leaves behind.
LEMMA RebuildOK ==
  ASSUME NEW length \in Nat, NEW known, cache' = Records(Replayed(known, length))
  PROVE  /\ cache' \in [Names -> [seq : Nat, shows : Nat]]
         /\ \A n \in Names : cache'[n].seq = Page(length) /\ cache'[n].shows = Page(length)
BY PageGrows DEF Records, Replayed

LEMMA NextOK == CacheInv /\ [Next]_vars => CacheInv'
<1> SUFFICES ASSUME CacheInv, [Next]_vars PROVE CacheInv' OBVIOUS
<1> USE DEF CacheInv
<1>1. ASSUME NEW w \in Writers, AppendFirst(w) PROVE CacheInv'
  <2>1. TypeOK' BY <1>1 DEF AppendFirst, TypeOK
  <2>2. Page(stream) <= Page(stream') /\ Page(stream) \in Nat /\ Page(stream') \in Nat
    BY <1>1, PageGrows DEF AppendFirst, TypeOK
  <2>3. \A n \in Names : cache'[n].seq = cache'[n].shows /\ cache'[n].seq <= Page(stream)'
    BY <1>1, <2>2 DEF AppendFirst, TypeOK, Page
  <2>4. \A r \in Readers : ReaderOK(r)'
    BY <1>1 DEF AppendFirst, TypeOK, ReaderState, ReaderOK
  <2> QED BY <1>1, <2>1, <2>3, <2>4 DEF AppendFirst, TypeOK
<1>2. ASSUME NEW w \in Writers, RebuildAfter(w) PROVE CacheInv'
  <2>1. TypeOK' BY <1>2, RebuildOK DEF RebuildAfter, TypeOK
  <2>2. \A n \in Names : cache'[n].seq = cache'[n].shows /\ cache'[n].seq <= Page(stream)'
    BY <1>2, RebuildOK, PageGrows DEF RebuildAfter, TypeOK, Page
  <2>3. \A r \in Readers : ReaderOK(r)'
    BY <1>2 DEF RebuildAfter, ReaderOK
  <2> QED BY <1>2, <2>1, <2>2, <2>3 DEF RebuildAfter
<1>3. ASSUME NEW w \in Writers, Die(w) PROVE CacheInv'
  <2>1. TypeOK' BY <1>3 DEF Die, TypeOK
  <2> QED BY <1>3, <2>1 DEF Die, ReaderOK, Page
<1>4. ASSUME NEW w \in Writers, AppendAndRebuild(w) PROVE CacheInv'
  <2>1. TypeOK' BY <1>4, RebuildOK DEF AppendAndRebuild, TypeOK
  <2>2. \A n \in Names : cache'[n].seq = cache'[n].shows /\ cache'[n].seq <= Page(stream)'
    BY <1>4, RebuildOK, PageGrows DEF AppendAndRebuild, TypeOK, Page
  <2>3. \A r \in Readers : ReaderOK(r)'
    BY <1>4 DEF AppendAndRebuild, TypeOK, ReaderState, ReaderOK
  <2> QED BY <1>4, <2>1, <2>2, <2>3 DEF AppendAndRebuild, TypeOK
<1>5. ASSUME NEW r \in Readers, NEW wanted \in {Names} \cup {{n} : n \in Alone}, Ask(r, wanted)
      PROVE CacheInv'
  <2>0. wanted \in SUBSET Names /\ wanted # {} BY CacheAssumption
  <2>1. TypeOK' BY <1>5, <2>0 DEF Ask, At, TypeOK, ReaderState
  <2>2. \A s \in Readers : ReaderOK(s)'
    BY <1>5, <2>0 DEF Ask, At, TypeOK, ReaderState, ReaderOK
  <2> QED BY <1>5, <2>1, <2>2 DEF Ask, Page
<1>6. ASSUME NEW r \in Readers, NEW n \in Names, ReadRecord(r, n) PROVE CacheInv'
  <2>1. TypeOK' BY <1>6 DEF ReadRecord, At, TypeOK, ReaderState
  <2>2. ReaderOK(r)'
    <3>1. CASE Fresh(cache[n], reader[r].latest)
      BY <1>6, <3>1 DEF ReadRecord, At, Fresh, TypeOK, ReaderState, ReaderOK
    <3>2. CASE ~Fresh(cache[n], reader[r].latest)
      BY <1>6, <3>2 DEF ReadRecord, At, TypeOK, ReaderState, ReaderOK
    <3> QED BY <3>1, <3>2
  <2>3. ASSUME NEW s \in Readers, s # r PROVE ReaderOK(s)'
    BY <1>6, <2>3 DEF ReadRecord, At, TypeOK, ReaderOK
  <2> QED BY <1>6, <2>1, <2>2, <2>3 DEF ReadRecord, Page
<1>7. ASSUME NEW r \in Readers, RebuildAndAnswer(r) PROVE CacheInv'
  <2> DEFINE prefix == Replayed(reader[r].latest, stream)
  <2>0. prefix \in Nat BY PageGrows DEF Replayed, TypeOK
  <2>1. cache' \in [Names -> [seq : Nat, shows : Nat]]
    BY <1>7, RebuildOK DEF RebuildAndAnswer, TypeOK
  <2>2. reader' \in [Readers -> ReaderState]
    BY <1>7, <2>0 DEF RebuildAndAnswer, At, TypeOK, ReaderState
  <2>3. TypeOK' BY <1>7, <2>1, <2>2 DEF RebuildAndAnswer, TypeOK
  <2>4. \A n \in Names : cache'[n].seq = cache'[n].shows /\ cache'[n].seq <= Page(stream)'
    BY <1>7, RebuildOK, PageGrows DEF RebuildAndAnswer, TypeOK, Page
  <2>5. \A s \in Readers : ReaderOK(s)'
    BY <1>7 DEF RebuildAndAnswer, At, TypeOK, ReaderState, ReaderOK
  <2> QED BY <1>7, <2>3, <2>4, <2>5 DEF RebuildAndAnswer
<1>8. CASE UNCHANGED vars
  BY <1>8 DEF vars, TypeOK, ReaderOK, Page
<1> QED BY <1>1, <1>2, <1>3, <1>4, <1>5, <1>6, <1>7, <1>8 DEF Next

\* The invariant holds throughout.
LEMMA Inductive == Spec => []CacheInv
BY InitOK, NextOK, PTL DEF Spec

\* The cache's types are kept for any number of writers, readers and projections
\* (events/projection_cache.py).
THEOREM CacheTypeCorrect == Spec => []TypeOK
<1>1. CacheInv => TypeOK BY DEF CacheInv
<1> QED BY Inductive, <1>1, PTL

\* A rebuild never puts an older replay over a newer one, however late its writer or
\* reader is and however long the stream
\* (rebuild_projection_cache_for_connection).
THEOREM CacheGrows == Spec => CacheNeverGoesBack
<1> DEFINE Grows == \A n \in Names : cache'[n].seq >= cache[n].seq /\ cache'[n].shows >= cache[n].shows
<1>1. CacheInv /\ [Next]_vars => [Grows]_cache
  <2> SUFFICES ASSUME CacheInv, [Next]_vars, cache' # cache PROVE Grows OBVIOUS
  <2>1. \A n \in Names : cache[n].seq \in Nat /\ cache[n].shows = cache[n].seq
                           /\ cache[n].seq <= Page(stream)
    BY DEF CacheInv, TypeOK
  <2>2. ASSUME NEW length \in Nat, NEW known, stream <= length,
               cache' = Records(Replayed(known, length))
        PROVE Grows
    <3>1. Page(stream) \in Nat /\ Page(length) \in Nat /\ Page(stream) <= Page(length)
      BY <2>2, PageGrows DEF CacheInv, TypeOK
    <3> QED BY <2>1, <2>2, <3>1, RebuildOK
  <2>3. ASSUME NEW w \in Writers, RebuildAfter(w) \/ AppendAndRebuild(w) PROVE Grows
    BY <2>2, <2>3 DEF RebuildAfter, AppendAndRebuild, CacheInv, TypeOK
  <2>4. ASSUME NEW r \in Readers, RebuildAndAnswer(r) PROVE Grows
    BY <2>2, <2>4 DEF RebuildAndAnswer, CacheInv, TypeOK
  <2> QED BY <2>3, <2>4 DEF Next, AppendFirst, Die, Ask, ReadRecord, vars
<1> QED BY Inductive, <1>1, PTL DEF Spec, CacheNeverGoesBack

-----------------------------------------------------------------------------
(* The refinement of ProjectionReads.                                      *)

\* The bound on the stream is kept.
LEMMA Bounded == Spec => [](stream <= MaxEvents)
<1>1. Init => stream <= MaxEvents BY CacheAssumption DEF Init
<1>2. CacheInv /\ stream <= MaxEvents /\ [Next]_vars => (stream <= MaxEvents)'
  <2> SUFFICES ASSUME CacheInv, stream <= MaxEvents, [Next]_vars PROVE stream' <= MaxEvents
    OBVIOUS
  <2>1. ASSUME NEW w \in Writers, AppendFirst(w) \/ AppendAndRebuild(w)
        PROVE stream' <= MaxEvents
    BY <2>1, CacheAssumption DEF CacheInv, TypeOK, AppendFirst, AppendAndRebuild
  <2>2. ASSUME stream' = stream PROVE stream' <= MaxEvents BY <2>2
  <2> QED BY <2>1, <2>2 DEF Next, vars, RebuildAfter, Die, Ask, ReadRecord, RebuildAndAnswer
<1> QED BY Inductive, <1>1, <1>2, PTL DEF Spec

\* A step that leaves the readers alone shows the same answers.
LEMMA AnswersKept ==
  ASSUME UNCHANGED reader
  PROVE  /\ [r \in Readers |-> reader[r].latest]' = [r \in Readers |-> reader[r].latest]
         /\ [r \in Readers |-> Shown(r)]' = [r \in Readers |-> Shown(r)]
BY DEF Shown

\* What a step of one reader does to the answers of all.
LEMMA AnswersChange ==
  ASSUME TypeOK, NEW r \in Readers, NEW pc, NEW latest, NEW wanted, NEW todo, NEW got,
         reader' = [reader EXCEPT ![r] = At(pc, latest, wanted, todo, got)],
         NEW shown, Shown(r)' = shown
  PROVE  /\ [s \in Readers |-> reader[s].latest]'
              = [[s \in Readers |-> reader[s].latest] EXCEPT ![r] = latest]
         /\ [s \in Readers |-> Shown(s)]' = [[s \in Readers |-> Shown(s)] EXCEPT ![r] = shown]
<1>1. \A s \in Readers : s # r => reader'[s] = reader[s] BY DEF TypeOK
<1>2. /\ reader'[r].latest = latest
      /\ \A s \in Readers : s # r => reader'[s].latest = reader[s].latest
  BY <1>1 DEF TypeOK, At
<1>3. \A s \in Readers : s # r => Shown(s)' = Shown(s) BY <1>1 DEF Shown
<1>4. [s \in Readers |-> reader'[s].latest]
        = [[s \in Readers |-> reader[s].latest] EXCEPT ![r] = latest]
  BY <1>2
<1>5. [s \in Readers |-> Shown(s)'] = [[s \in Readers |-> Shown(s)] EXCEPT ![r] = shown]
  BY <1>3
<1> QED BY <1>4, <1>5

LEMMA AskedKept ==
  ASSUME TypeOK, NEW r \in Readers, NEW pc, NEW wanted, NEW todo, NEW got,
         reader' = [reader EXCEPT ![r] = At(pc, reader[r].latest, wanted, todo, got)]
  PROVE  [s \in Readers |-> reader[s].latest]' = [s \in Readers |-> reader[s].latest]
<1>1. \A s \in Readers : reader'[s].latest = reader[s].latest BY DEF TypeOK, At
<1> QED BY <1>1

\* A reader without an answer has none in the abstract state, and keeps none.
LEMMA AnswersStayEmpty ==
  ASSUME TypeOK, NEW r \in Readers, NEW me, reader' = [reader EXCEPT ![r] = me],
         Shown(r) = {}, Shown(r)' = {}
  PROVE  [s \in Readers |-> Shown(s)]' = [s \in Readers |-> Shown(s)]
<1>1. \A s \in Readers : s # r => reader'[s] = reader[s] BY DEF TypeOK
<1>2. \A s \in Readers : s # r => Shown(s)' = Shown(s) BY <1>1 DEF Shown
<1> QED BY <1>2

LEMMA StepRefines ==
  ASSUME MaxEvents <= PageLimit, CacheInv, stream <= MaxEvents, [Next]_vars
  PROVE  [Reads!Next]_Reads!readVars
<1> USE DEF CacheInv
<1>0. Page(stream) = stream BY CacheAssumption DEF Page, TypeOK
<1>1. ASSUME NEW w \in Writers, AppendFirst(w) \/ AppendAndRebuild(w) PROVE Reads!Append
  BY <1>1, AnswersKept DEF AppendFirst, AppendAndRebuild, Reads!Append, TypeOK
<1>2. ASSUME NEW w \in Writers, RebuildAfter(w) \/ Die(w) PROVE UNCHANGED Reads!readVars
  BY <1>2, AnswersKept DEF RebuildAfter, Die, Reads!readVars
<1>3. ASSUME NEW r \in Readers, NEW wanted \in {Names} \cup {{n} : n \in Alone}, Ask(r, wanted)
      PROVE Reads!Ask(r)
  <2>1. Shown(r)' = {} BY <1>3 DEF Ask, At, Shown, TypeOK
  <2>2. reader' = [reader EXCEPT ![r] = At("reading", stream, wanted, wanted, [n \in Names |-> 0])]
    BY <1>3 DEF Ask
  <2>3. [s \in Readers |-> reader[s].latest]'
          = [[s \in Readers |-> reader[s].latest] EXCEPT ![r] = stream]
    BY <2>1, <2>2, AnswersChange
  <2>4. [s \in Readers |-> Shown(s)]' = [[s \in Readers |-> Shown(s)] EXCEPT ![r] = {}]
    BY <2>1, <2>2, AnswersChange
  <2> QED BY <1>3, <2>3, <2>4 DEF Ask, Reads!Ask
<1>4. ASSUME NEW r \in Readers, NEW n \in Names, ReadRecord(r, n)
      PROVE Reads!Answer(r) \/ UNCHANGED Reads!readVars
  <2> DEFINE me == reader[r]
  <2>0. /\ me.latest \in Nat /\ me.latest > 0 /\ me.latest <= stream
        /\ me.wanted # {} /\ me.pc = "reading" /\ Shown(r) = {}
    BY <1>4 DEF ReadRecord, ReaderOK, TypeOK, ReaderState, Shown
  <2>1. CASE Fresh(cache[n], me.latest) /\ me.todo = {n}
    <3>1. reader' = [reader EXCEPT ![r] = At("done", me.latest, me.wanted, me.todo \ {n},
                                             [me.got EXCEPT ![n] = cache[n].shows])]
      BY <1>4, <2>1 DEF ReadRecord
    <3>2. \A m \in me.wanted : [me.got EXCEPT ![n] = cache[n].shows][m] = me.latest
      BY <1>4, <2>0, <2>1 DEF ReaderOK, TypeOK, ReaderState, Fresh
    <3>3. reader'[r].pc = "done" /\ reader'[r].wanted = me.wanted
            /\ reader'[r].got = [me.got EXCEPT ![n] = cache[n].shows]
      BY <3>1 DEF At, TypeOK
    <3>4. Shown(r)' = {me.latest} BY <2>0, <3>2, <3>3 DEF Shown
    <3>5. Reads!Answer(r)
      <4>1. [s \in Readers |-> reader[s].latest]' = [s \in Readers |-> reader[s].latest]
        BY <3>1, AskedKept
      <4>2. [s \in Readers |-> Shown(s)]'
              = [[s \in Readers |-> Shown(s)] EXCEPT ![r] = {me.latest}]
        BY <3>1, <3>4, AnswersChange
      <4>3. me.latest \in me.latest .. stream BY <2>0 DEF TypeOK
      <4> QED BY <1>4, <2>0, <4>1, <4>2, <4>3 DEF ReadRecord, Reads!Answer
    <3> QED BY <3>5
  <2>2. CASE ~(Fresh(cache[n], me.latest) /\ me.todo = {n})
    <3>1. PICK new, todo, got :
            /\ new \in {"reading", "stale"}
            /\ reader' = [reader EXCEPT ![r] = At(new, me.latest, me.wanted, todo, got)]
      BY <1>4, <2>2 DEF ReadRecord
    <3>2. Shown(r)' = {} BY <3>1 DEF At, Shown, TypeOK
    <3>3. [s \in Readers |-> reader[s].latest]' = [s \in Readers |-> reader[s].latest]
      BY <3>1, AskedKept
    <3>4. [s \in Readers |-> Shown(s)]' = [s \in Readers |-> Shown(s)]
      BY <2>0, <3>1, <3>2, AnswersStayEmpty
    <3> QED BY <1>4, <3>3, <3>4 DEF ReadRecord, Reads!readVars
  <2> QED BY <2>1, <2>2
<1>5. ASSUME NEW r \in Readers, RebuildAndAnswer(r) PROVE Reads!Answer(r)
  <2> DEFINE me == reader[r]
  <2>0. /\ me.latest \in Nat /\ me.latest > 0 /\ me.latest <= stream
        /\ me.wanted # {} /\ Shown(r) = {}
    BY <1>5 DEF RebuildAndAnswer, ReaderOK, TypeOK, ReaderState, Shown
  <2>1. reader' = [reader EXCEPT ![r] = At("done", me.latest, me.wanted, {},
                                           [n \in Names |-> stream])]
    BY <1>0, <1>5 DEF RebuildAndAnswer, Replayed
  <2>2. me.wanted \subseteq Names BY DEF TypeOK, ReaderState
  <2>3. Shown(r)' = {stream} BY <2>0, <2>1, <2>2 DEF Shown, At, TypeOK
  <2>4. [s \in Readers |-> reader[s].latest]' = [s \in Readers |-> reader[s].latest]
    BY <2>1, AskedKept
  <2>5. [s \in Readers |-> Shown(s)]' = [[s \in Readers |-> Shown(s)] EXCEPT ![r] = {stream}]
    BY <2>1, <2>3, AnswersChange
  <2>6. stream \in me.latest .. stream BY <2>0 DEF TypeOK
  <2> QED BY <1>5, <2>0, <2>4, <2>5, <2>6 DEF RebuildAndAnswer, Reads!Answer
<1>6. CASE UNCHANGED vars BY <1>6, AnswersKept DEF vars, Reads!readVars
<1> QED BY <1>1, <1>2, <1>3, <1>4, <1>5, <1>6 DEF Next, Reads!Next

\* Readers of a stream that fits the page are given the replay of one prefix, never older
\* than their call, for any number of writers, readers and projections and whoever dies
\* (run_projection_bundle_for_run).
THEOREM CacheImplementsReads == MaxEvents <= PageLimit => (Spec => ReadsImplemented)
<1> SUFFICES ASSUME MaxEvents <= PageLimit PROVE Spec => ReadsImplemented OBVIOUS
<1>1. Init => Reads!Init BY DEF Init, At, Reads!Init, Shown
<1>2. CacheInv /\ stream <= MaxEvents /\ [Next]_vars => [Reads!Next]_Reads!readVars
  BY StepRefines
<1> QED BY Inductive, Bounded, <1>1, <1>2, PTL DEF Spec, ReadsImplemented, Reads!Spec
=============================================================================
