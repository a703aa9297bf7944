---------------------------- MODULE MCHumanGate -----------------------------
(* HumanGate on two paths: a manifest and a protected source file.          *)
EXTENDS HumanGate

MCDiffs ==
  {[lockfile |-> "same", source |-> "same"],
   [lockfile |-> "edited", source |-> "same"],
   [lockfile |-> "same", source |-> "deleted"]}

MCConfigs ==
  {[hitl |-> TRUE, turn_gate |-> FALSE, trust |-> "strict"],
   [hitl |-> FALSE, turn_gate |-> TRUE, trust |-> "strict"],
   [hitl |-> TRUE, turn_gate |-> TRUE, trust |-> "auto"]}

\* A question, and the approval a later diff will match.
MCAgentAsks ==
  {[kind |-> "question", risk |-> "clarification", paths |-> {}],
   [kind |-> "approval", risk |-> "dependency", paths |-> {"lockfile"}]}

MCDependencyPaths == {"lockfile"}
MCProtectedPaths == {"source"}
=============================================================================
