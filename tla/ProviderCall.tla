---------------------------- MODULE ProviderCall ----------------------------
(***************************************************************************)
(* What the router relies on when it calls a provider: one call at a time, *)
(* one answer per call, the answer among those of the provider, and no     *)
(* process of the call that its barrier knows of left alive behind any     *)
(* answer but the one that says so.                                        *)
(***************************************************************************)
EXTENDS ProviderOutcome

VARIABLES
  strict,    \* security.strict_isolation, fixed
  phase,     \* "idle", "working", "over"
  prov,      \* the provider called last
  outcome,   \* what the last call came back with
  survivors  \* the last call left processes its barrier saw and did not end

callVars == <<strict, phase, prov, outcome, survivors>>

CallInit ==
  /\ strict \in StrictModes /\ phase = "idle" /\ prov = "claude"
  /\ outcome = NoOutcome /\ survivors = FALSE

\* A new call knows nothing of the processes of the one before.
Ask(p) ==
  /\ phase = "idle" /\ phase' = "working"
  /\ prov' = p /\ outcome' = NoOutcome /\ survivors' = FALSE
  /\ UNCHANGED strict

Answer ==
  /\ phase = "working" /\ phase' = "over"
  /\ outcome' \in Answers(prov, strict) /\ survivors' \in BOOLEAN
  /\ survivors' => outcome'.class = "containment_unverified"
  /\ UNCHANGED <<strict, prov>>

Take == phase = "over" /\ phase' = "idle" /\ UNCHANGED <<strict, prov, outcome, survivors>>

\* What was left behind ends by itself.
Vanish == survivors /\ survivors' = FALSE /\ UNCHANGED <<strict, phase, prov, outcome>>

CallNext ==
  \/ \E p \in Providers : Ask(p)
  \/ Answer \/ Take \/ Vanish

CallSpec == CallInit /\ [][CallNext]_callVars
=============================================================================
