----------------------------- MODULE MCAgentPlane -----------------------------
(* Instances of AgentPlane for TLC. *)
EXTENDS AgentPlane
===============================================================================
