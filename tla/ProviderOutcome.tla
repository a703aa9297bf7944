--------------------------- MODULE ProviderOutcome ---------------------------
(***************************************************************************)
(* What a provider call can come back with: providers/base.py and the      *)
(* normalisation of providers/errors.py, shared by the abstract call the   *)
(* router sees and by the adapters that implement it.                      *)
(***************************************************************************)
EXTENDS Naturals, FiniteSets

CONSTANTS
  Sigs,        \* error classes an adapter recognises in a CLI's stderr
  Windows,     \* how far ahead a usage limit may say it reopens
  StrictModes  \* values of security.strict_isolation

ErrorClass ==
  {"binary_not_found", "unsupported_version", "authentication_failed",
   "authorization_failed", "rate_limited", "network_unavailable",
   "provider_unavailable", "timeout", "process_crashed", "invalid_output",
   "permission_denied", "configuration_error", "invalid_invocation",
   "model_request_invalid", "task_failure", "agent_no_progress",
   "session_unavailable", "cancelled", "containment_unverified",
   "background_work_lost", "capability_unavailable"}

ASSUME OutcomeAssumption ==
  /\ Sigs \subseteq ErrorClass /\ Windows \subseteq Nat \ {0}
  /\ StrictModes \subseteq BOOLEAN

Providers == {"claude", "codex"}

\* No instant was reported.
NoReset == 0

NoOutcome == [kind |-> "none", class |-> "task_failure", resets |-> NoReset]
Raised(c, r) == [kind |-> "raised", class |-> c, resets |-> r]
Returned(s) == [kind |-> s, class |-> "task_failure", resets |-> NoReset]
Outcomes == {NoOutcome, Returned("succeeded"), Returned("failed")}
            \cup {Raised(c, r) : c \in ErrorClass, r \in Windows \cup {NoReset}}

\* What may come back from a call of p.
Answers(p, strict) ==
  {Returned("succeeded"), Returned("failed")}
  \cup {Raised(c, NoReset) : c \in Sigs \cup
          {"configuration_error", "binary_not_found", "timeout", "process_crashed",
           "invalid_output", "agent_no_progress", "containment_unverified"}}
  \cup (IF strict THEN {Raised("capability_unavailable", NoReset)} ELSE {})
  \cup (IF p = "codex" THEN {Raised("permission_denied", NoReset)}
        ELSE {Raised("background_work_lost", NoReset)}
             \cup {Raised("rate_limited", r) : r \in Windows \cup {NoReset}})
=============================================================================
