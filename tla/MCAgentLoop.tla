------------------------------ MODULE MCAgentLoop ------------------------------
(***************************************************************************)
(* The instance of AgentLoop for TLC: its constants are in the .cfg.       *)
(***************************************************************************)
EXTENDS AgentLoop
=============================================================================
