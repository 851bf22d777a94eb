-------------------------- MODULE ProjectionCache ---------------------------
(***************************************************************************)
(* The projection cache of one run (events/projection_cache.py): a record  *)
(* per projection, rebuilt from the stream by whoever appends and by a     *)
(* reader that finds a record stale.  update_run appends and rebuilds in   *)
(* one transaction; append_run_event_and_rebuild_projection_cache in two,  *)
(* and its process may die in between.  A reader reads the latest sequence *)
(* and then the records, one at a time.                                    *)
(*                                                                         *)
(* What a projection shows is named by the length of the prefix it was     *)
(* replayed from: list_domain_events returns the first PageLimit events of *)
(* a stream, 5000 in the code, and nobody asks for a second page.          *)
(***************************************************************************)
EXTENDS Integers

CONSTANTS Names,      \* the projections of a run
          Alone,      \* those that are read on their own
          Writers, Readers,
          PageLimit,
          MaxEvents   \* bound on the stream

ASSUME CacheAssumption ==
  /\ Names # {} /\ Alone \subseteq Names
  /\ PageLimit \in Nat \ {0}
  /\ MaxEvents \in Nat \ {0}

VARIABLES stream,   \* the length of the stream
          cache,    \* of a name: the record's source_sequence, the prefix it shows
          writer,   \* the length after its own append, while the rebuild is due
          reader

vars == <<stream, cache, writer, reader>>

ReaderState == [pc : {"idle", "reading", "stale", "done"}, latest : Nat,
                wanted : SUBSET Names, todo : SUBSET Names, got : [Names -> Nat]]

At(pc, latest, wanted, todo, got) ==
  [pc |-> pc, latest |-> latest, wanted |-> wanted, todo |-> todo, got |-> got]

TypeOK ==
  /\ stream \in Nat
  /\ cache \in [Names -> [seq : Nat, shows : Nat]]
  /\ writer \in [Writers -> Nat]
  /\ reader \in [Readers -> ReaderState]

Init ==
  /\ stream = 1
  /\ cache = [n \in Names |-> [seq |-> 0, shows |-> 0]]
  /\ writer = [w \in Writers |-> 0]
  /\ reader = [r \in Readers |-> At("idle", 0, {}, {}, [n \in Names |-> 0])]

\* Fault: the page is taken from the end of the stream.
PageFromTheEnd(length) == length - PageLimit

\* list_domain_events
Page(length) == IF length <= PageLimit THEN length ELSE PageLimit

\* Fault: the events are read before the rebuild's transaction.
ReplayedBefore(known, length) == Page(known)

\* The rebuild's transaction reads the stream itself.
Replayed(known, length) == Page(length)

Records(prefix) == [n \in Names |-> [seq |-> prefix, shows |-> prefix]]

-----------------------------------------------------------------------------
(* Writers.                                                                *)

\* append_run_event, whose rebuild is still to come.
AppendFirst(w) ==
  /\ writer[w] = 0
  /\ stream < MaxEvents
  /\ stream' = stream + 1
  /\ writer' = [writer EXCEPT ![w] = stream + 1]
  /\ UNCHANGED <<cache, reader>>

RebuildAfter(w) ==
  /\ writer[w] # 0
  /\ cache' = Records(Replayed(writer[w], stream))
  /\ writer' = [writer EXCEPT ![w] = 0]
  /\ UNCHANGED <<stream, reader>>

Die(w) ==
  /\ writer[w] # 0
  /\ writer' = [writer EXCEPT ![w] = 0]
  /\ UNCHANGED <<stream, cache, reader>>

\* update_run: the transaction sees its own append.
AppendAndRebuild(w) ==
  /\ writer[w] = 0
  /\ stream < MaxEvents
  /\ stream' = stream + 1
  /\ cache' = Records(Replayed(stream + 1, stream + 1))
  /\ UNCHANGED <<writer, reader>>

-----------------------------------------------------------------------------
(* Readers: run_projection_bundle_for_run wants all names,                 *)
(* current_step_projection_for_run and run_snapshot_projection_for_run one.*)

Ask(r, wanted) ==
  /\ reader[r].pc \in {"idle", "done"}
  /\ reader' = [reader EXCEPT ![r] = At("reading", stream, wanted, wanted, [n \in Names |-> 0])]
  /\ UNCHANGED <<stream, cache, writer>>

\* Fault: a record that is newer than expected will do.
FreshOrNewer(record, latest) == record.seq >= latest /\ record.shows >= latest

Fresh(record, latest) == record.seq = latest /\ record.shows = latest

ReadRecord(r, n) ==
  LET me == reader[r] IN
  /\ me.pc = "reading"
  /\ n \in me.todo
  /\ IF Fresh(cache[n], me.latest)
     THEN reader' = [reader EXCEPT ![r] =
                       At(IF me.todo = {n} THEN "done" ELSE "reading", me.latest, me.wanted,
                          me.todo \ {n}, [me.got EXCEPT ![n] = cache[n].shows])]
     ELSE reader' = [reader EXCEPT ![r] = At("stale", me.latest, me.wanted, me.todo, me.got)]
  /\ UNCHANGED <<stream, cache, writer>>

\* The answer is what the rebuild has replayed, all of it.
RebuildAndAnswer(r) ==
  LET me == reader[r]
      prefix == Replayed(me.latest, stream)
  IN /\ me.pc = "stale"
     /\ cache' = Records(prefix)
     /\ reader' = [reader EXCEPT ![r] = At("done", me.latest, me.wanted, {}, [n \in Names |-> prefix])]
     /\ UNCHANGED <<stream, writer>>

Next ==
  \/ \E w \in Writers : AppendFirst(w) \/ RebuildAfter(w) \/ Die(w) \/ AppendAndRebuild(w)
  \/ \E r \in Readers, wanted \in {Names} \cup {{n} : n \in Alone} : Ask(r, wanted)
  \/ \E r \in Readers, n \in Names : ReadRecord(r, n)
  \/ \E r \in Readers : RebuildAndAnswer(r)

Spec == Init /\ [][Next]_vars

-----------------------------------------------------------------------------
(* Properties.                                                             *)

Shown(r) ==
  IF reader[r].pc = "done" THEN {reader[r].got[n] : n \in reader[r].wanted} ELSE {}

\* A reader is given the replay of one prefix, never older than its call, while writers
\* append, rebuild and die between any two of its reads: run_projection_bundle_for_run.
AnswersAreOnePrefix ==
  \A r \in Readers : reader[r].pc = "done" =>
    \E prefix \in reader[r].latest .. stream : Shown(r) = {prefix}

\* No rebuild puts an older replay over a newer one, whoever is late
\* (rebuild_projection_cache_for_connection reads inside its transaction).
CacheNeverGoesBack ==
  [][\A n \in Names : cache'[n].seq >= cache[n].seq /\ cache'[n].shows >= cache[n].shows]_cache

\* The readers' calls are those of ProjectionReads.
Reads == INSTANCE ProjectionReads WITH
  length <- stream,
  asked <- [r \in Readers |-> reader[r].latest],
  answer <- [r \in Readers |-> Shown(r)]

ReadsImplemented == Reads!Spec
=============================================================================
