--------------------------- MODULE MCAgentSession ---------------------------
(* Small instances of AgentSession for TLC. *)
EXTENDS AgentSession

CONSTANTS s1, s2
=============================================================================
