------------------------- MODULE MCProjectionCache --------------------------
(* Instances of ProjectionCache for TLC.                                   *)
EXTENDS ProjectionCache

CONSTANTS snapshot, coverage

\* Two of the run's projections; the snapshot is also read on its own.
TwoNames == {snapshot, coverage}
ReadAlone == {snapshot}
=============================================================================
