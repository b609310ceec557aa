----------------------------- MODULE MCAgentRun -----------------------------
(* TLC instances of AgentRun.                                              *)
EXTENDS AgentRun, TLC

OneStep == {1}
SecondStep == {2}
NoStep == {}
BothSteps == {1, 2}

Symmetry == Permutations(Workers)

=============================================================================
