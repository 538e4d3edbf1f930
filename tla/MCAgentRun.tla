----------------------------- MODULE MCAgentRun -----------------------------
(***************************************************************************)
(* Small instances of AgentRun: every provider, configured or not.         *)
(***************************************************************************)
EXTENDS AgentRun

MCProviders == {"openclaw", "hosted", "mock"}
=============================================================================
