---------------------------- MODULE MCAgentLoop ----------------------------
(* The engine on its own, for the run that asks what becomes of the mark of a *)
(* degraded answer.                                                           *)
EXTENDS AgentLoop, MCToolCalls
=============================================================================
