---------------------------- MODULE MCAgentStage ----------------------------
(* Both routes of a configuration whose fallback is looser and may not isolate. *)
EXTENDS AgentStage

MCRoutes == {[primary |-> "claude", fallback |-> "codex"],
             [primary |-> "codex", fallback |-> "claude"]}
MCProfiles == [p \in Providers |-> IF p = "claude" THEN 0 ELSE 1]
=============================================================================
