---------------------------- MODULE MCAgentWakes ----------------------------
(***************************************************************************)
(* Instances of AgentWakes for TLC.                                        *)
(***************************************************************************)
EXTENDS AgentWakes
=============================================================================
