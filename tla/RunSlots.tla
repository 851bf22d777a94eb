------------------------------ MODULE RunSlots ------------------------------
(***************************************************************************)
(* What the run table promises to whoever starts and stops runs: a run     *)
(* works in its directory at most once, with the directory to itself,      *)
(* among at most MaxConcurrentRuns others, and not at all when it was      *)
(* asked to stop before it began.  RunService implements this with         *)
(* several processes and no coordination but the tables.                   *)
(***************************************************************************)
EXTENDS Naturals, FiniteSets

CONSTANTS Runs, Sites

VARIABLES site,      \* the directory of each run, and max_concurrent_runs
          stage,     \* before, at work, or through
          stopped    \* the runs asked to stop

slotVars == <<site, stage, stopped>>

Init ==
  /\ site \in Sites
  /\ stage = [r \in Runs |-> "before"]
  /\ stopped = {}

AtWork == {r \in Runs : stage[r] = "at_work"}

AskStop(r) ==
  /\ stopped' = stopped \cup {r}
  /\ UNCHANGED stage

Enter(r) ==
  /\ stage[r] = "before"
  /\ r \notin stopped
  /\ Cardinality(AtWork) < site.slots
  /\ \A s \in AtWork : site.dir[s] # site.dir[r]
  /\ stage' = [stage EXCEPT ![r] = "at_work"]
  /\ UNCHANGED stopped

\* Several runs are through at once when the process that carries them dies.
Leave(R) ==
  /\ stage' = [r \in Runs |-> IF r \in R THEN "through" ELSE stage[r]]
  /\ UNCHANGED stopped

Next ==
  /\ \/ \E r \in Runs : AskStop(r) \/ Enter(r)
     \/ \E R \in SUBSET Runs : Leave(R)
  /\ UNCHANGED site

Spec == Init /\ [][Next]_slotVars
=============================================================================
