-------------------------- MODULE ProjectionReads ---------------------------
(***************************************************************************)
(* What a reader of a run's projections is promised while the stream       *)
(* grows: all it is given is the replay of one prefix of the stream, and   *)
(* of one at least as long as the stream was when it asked.                *)
(* ProjectionCache implements this with cached records that writers and    *)
(* readers rebuild.  A prefix is named by its length.                      *)
(***************************************************************************)
EXTENDS Naturals

CONSTANT Readers

VARIABLES length,   \* of the stream
          asked,    \* what it was when the reader asked, 0 before
          answer    \* the prefixes its answer shows, none before it is given

readVars == <<length, asked, answer>>

Init ==
  /\ length = 1
  /\ asked = [r \in Readers |-> 0]
  /\ answer = [r \in Readers |-> {}]

Append ==
  /\ length' \in Nat /\ length' > length
  /\ UNCHANGED <<asked, answer>>

Ask(r) ==
  /\ asked' = [asked EXCEPT ![r] = length]
  /\ answer' = [answer EXCEPT ![r] = {}]
  /\ UNCHANGED length

Answer(r) ==
  /\ asked[r] > 0 /\ answer[r] = {}
  /\ \E prefix \in asked[r] .. length : answer' = [answer EXCEPT ![r] = {prefix}]
  /\ UNCHANGED <<length, asked>>

Next == Append \/ \E r \in Readers : Ask(r) \/ Answer(r)

Spec == Init /\ [][Next]_readVars
=============================================================================
