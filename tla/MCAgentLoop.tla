----------------------------- MODULE MCAgentLoop -----------------------------
(* Instances of AgentLoop for TLC.                                         *)
EXTENDS AgentLoop
CONSTANTS a, b
=============================================================================
