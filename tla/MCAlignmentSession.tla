------------------------- MODULE MCAlignmentSession -------------------------
(* The web server and a CLI command at work on one session.                *)
EXTENDS AlignmentSession, TLC

CONSTANTS web, cli, server, shell

TwoHomes == web :> server @@ cli :> shell

Answer(phase, complete, bundle, asks, says, unfit) ==
  [phase |-> phase, complete |-> complete, bundle |-> bundle, asks |-> asks,
   says |-> says, unfit |-> unfit]

\* A question, an agreement, a bundle that validates or not, a refusal that offers to end.
SomeOutputs ==
  {Answer("clarifying", FALSE, "none", TRUE, TRUE, FALSE),
   Answer("agreement", TRUE, "none", TRUE, TRUE, FALSE),
   Answer("bundle", TRUE, "valid", FALSE, TRUE, FALSE),
   Answer("bundle", TRUE, "invalid", FALSE, FALSE, FALSE),
   Answer("blocked", FALSE, "none", FALSE, TRUE, TRUE)}
=============================================================================
