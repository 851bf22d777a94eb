---------------------------- MODULE MCRunService ----------------------------
(***************************************************************************)
(* Instances of RunService: two runs that share a directory, two runs in   *)
(* two directories that share one slot, or either.                         *)
(***************************************************************************)
EXTENDS RunService, TLC

CONSTANTS r1, r2, d1, d2, p1, p2, c1, c2

OneDirectory == {[dir |-> [r \in {r1, r2} |-> d1], slots |-> 2]}
OneSlot == {[dir |-> (r1 :> d1) @@ (r2 :> d2), slots |-> 1],
            [dir |-> (r1 :> d2) @@ (r2 :> d1), slots |-> 1]}
EitherSite == OneDirectory \cup OneSlot

\* A CLI process and the web server, or two request threads of the web server.
OneClientEach == (c1 :> p1) @@ (c2 :> p2)
OneClient == (c1 :> p1)
TwoThreads == [c \in {c1, c2} |-> p1]

RunSymmetry == Permutations({r1, r2})

\* The processes with their clients.
Exchange == {[x \in {p1, p2, c1, c2} |-> x],
             (p1 :> p2) @@ (p2 :> p1) @@ (c1 :> c2) @@ (c2 :> c1)}
RunAndProcSymmetry == {f @@ g : f \in RunSymmetry, g \in Exchange}
=============================================================================
