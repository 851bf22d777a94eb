-------------------------- MODULE MCRunVerdict --------------------------
(* Instances of RunVerdict for TLC.                                        *)
EXTENDS RunVerdict

About(t, status, refs) ==
  [x \in Targets |-> IF x = t THEN [status |-> status, refs |-> refs]
                              ELSE [status |-> "none", refs |-> {}]]

\* An item of a builder, inspector or custom role that reports on one target.
Step(id, proof, t, status, refs) ==
  [id |-> id, gatekeeper |-> FALSE, result |-> "other", measured |-> FALSE, claims |-> FALSE,
   proof |-> proof, refs |-> refs, reports |-> About(t, status, refs), risk |-> "none"]

\* A GateKeeper verdict; it reports on a check of its own.
Verdict(id, result, measured, claims, refs, t, status) ==
  [id |-> id, gatekeeper |-> TRUE, result |-> result, measured |-> measured, claims |-> claims,
   proof |-> FALSE, refs |-> refs, reports |-> About(t, status, refs), risk |-> "none"]

\* A step that failed: it blocks the check and leaves a risk nobody owns.
FailedStep == [Step("e2", TRUE, "check", "negative", {}) EXCEPT !.result = "blocked",
                                                               !.risk = "unmanaged"]

\* Steps and verdicts about one check, one advisory target and the finish target: support
\* and a failure, recovery, a report on the finish itself, passes that cite a step or their
\* own measurement, with and without a risk, and a rejection.
Pass(risk) == [Verdict("g", "passed", FALSE, FALSE, {"e1"}, "check", "none") EXCEPT !.risk = risk]

SelfMeasuredPass == Verdict("g", "passed", TRUE, TRUE, {"g"}, "check", "positive")

Rejection == [Verdict("g", "blocked", FALSE, FALSE, {"e1"}, "check", "positive")
                EXCEPT !.risk = "managed"]

RoundsItems ==
  {Step("e1", TRUE, "check", "positive", {}), Step("e2", FALSE, "check", "positive", {"e1"}),
   FailedStep, Step("e3", TRUE, "surface", "positive", {}),
   Pass("none"), Pass("managed"), SelfMeasuredPass, Rejection}

\* In "rounds" mode there is no finish target.
VerdictItems == RoundsItems \cup {Step("e3", TRUE, Finish, "positive", {})}
=============================================================================
