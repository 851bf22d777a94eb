-------------------------- MODULE MCHeadlessRunner --------------------------
(***************************************************************************)
(* A Builder, two Inspectors side by side, a GateKeeper; an advisory       *)
(* Inspector after a rejection, a blocking GateKeeper or Guide when no     *)
(* evidence comes in, an advisory and a blocking one after a failed role.  *)
(***************************************************************************)
EXTENDS HeadlessRunner

CONSTANTS build, look, test, judge, again, stuck, rescue, veto

GroupStrategy == <<build, look, test, judge>>
GroupedSteps == [s \in {build, look, test, judge} |->
                   IF s \in {look, test} THEN "pair" ELSE NoGroup]

FourControls == <<again, stuck, rescue, veto>>
ControlTable ==
  [c \in {again, stuck, rescue, veto} |->
     CASE c = again -> [signal |-> "gatekeeper_rejected", blocking |-> FALSE, fires |-> 2]
       [] c = stuck -> [signal |-> "no_evidence_progress", blocking |-> TRUE, fires |-> 1]
       [] c = rescue -> [signal |-> "step_failed", blocking |-> FALSE, fires |-> 2]
       [] c = veto -> [signal |-> "role_timeout", blocking |-> TRUE, fires |-> 1]]
=============================================================================
