---------------------------- MODULE MCAgentQueue ----------------------------
(***************************************************************************)
(* Instances of AgentQueue for TLC: two requests, one of them enqueued.     *)
(***************************************************************************)
EXTENDS AgentQueue

CONSTANTS r1, r2

MCQueued == <<r1>>
=============================================================================
