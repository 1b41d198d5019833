---------------------------- MODULE MCAgentKernel ----------------------------
(* Small instances of AgentKernel for TLC; the cfg files give the sets. *)
EXTENDS AgentKernel
===============================================================================
