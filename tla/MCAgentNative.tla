--------------------------- MODULE MCAgentNative ----------------------------
(* Instances of AgentNative for TLC.                                       *)
EXTENDS AgentNative

CONSTANTS build, look, test, judge, pair

\* Two inspectors side by side and a GateKeeper.
GroupStrategy == <<look, test, judge>>
GroupedSteps == [s \in {look, test, judge} |-> IF s = judge THEN NoGroup ELSE pair]

\* A builder and a GateKeeper.
ShortStrategy == <<build, judge>>
UngroupedSteps == [s \in {build, judge} |-> NoGroup]

Builders == StepIds \ {judge}

Symmetry == {[c \in Cli |-> p[c]] : p \in {q \in [Cli -> Cli] : {q[c] : c \in Cli} = Cli}}
=============================================================================
