----------------------------- MODULE MCCpsCase -----------------------------
(* Small inspections for the model checker.                                *)
EXTENDS CpsCase, TLC

CONSTANTS issue, found

MCFindings == {found}
MCIssuesIn(finding) == {issue}

=============================================================================
