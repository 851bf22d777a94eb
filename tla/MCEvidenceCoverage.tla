------------------------ MODULE MCEvidenceCoverage ------------------------
(* Instances of EvidenceCoverage for TLC.                                  *)
EXTENDS EvidenceCoverage

About(t, status, refs) ==
  [x \in Targets |-> IF x = t THEN [status |-> status, refs |-> refs]
                              ELSE [status |-> "none", refs |-> {}]]

\* An item of a builder, inspector or custom role that reports on one target.
Step(id, proof, t, status, refs) ==
  [id |-> id, gatekeeper |-> FALSE, result |-> "other", measured |-> FALSE, claims |-> FALSE,
   proof |-> proof, refs |-> refs, reports |-> About(t, status, refs), risk |-> "none"]

\* A step that failed reports its target as failed.
FailedStep(id, t) ==
  [Step(id, TRUE, t, "negative", {}) EXCEPT !.result = "blocked"]

\* A GateKeeper verdict; it reports on a check of its own.
Verdict(id, result, measured, claims, refs, t, status) ==
  [id |-> id, gatekeeper |-> TRUE, result |-> result, measured |-> measured, claims |-> claims,
   proof |-> FALSE, refs |-> refs, reports |-> About(t, status, refs), risk |-> "none"]

\* Steps and verdicts about one check and one advisory target.
FoldItems ==
  {Step("e1", proof, "check", status, {}) :
     proof \in BOOLEAN, status \in {"positive", "weak", "negative"}}
  \cup {Step("e2", FALSE, "check", status, {"e1"}) :
          status \in {"positive", "missing", "negative"}}
  \cup {FailedStep("e1", "check"), Step("e3", TRUE, "surface", "positive", {}),
        Step("e3", FALSE, "surface", "other", {})}
  \cup {Verdict("g", "passed", FALSE, FALSE, {"e1"}, "check", "none"),
        Verdict("g", "passed", TRUE, TRUE, {"g"}, "check", "positive"),
        Verdict("g", "passed", TRUE, FALSE, {"g"}, "check", "positive"),
        Verdict("g", "blocked", FALSE, FALSE, {"e1"}, "check", "positive")}

\* A step that reports on the finish target itself.
FinishItems == FoldItems \cup {Step("e3", TRUE, Finish, "positive", {})}
=============================================================================
