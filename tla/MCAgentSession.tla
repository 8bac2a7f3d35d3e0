--------------------------- MODULE MCAgentSession ---------------------------
(***************************************************************************)
(* A small instance of AgentSession for TLC.                               *)
(***************************************************************************)
EXTENDS AgentSession

CONSTANTS r1, r2
MCStdin == <<r1, r2>>
=============================================================================
