----------------------------- MODULE AgentStage -----------------------------
(***************************************************************************)
(* A node handed to the providers: AgentRouter.run_stage of routing/router *)
(* .py over the provider calls of ProviderCall, then what the orchestrator  *)
(* makes of a stage that no provider completed: manual action, a resumable *)
(* park with its wake instant and ceiling, or the end.                     *)
(*                                                                         *)
(* Time is relative: `age` is the time since tasks.blocked_since, `wait`   *)
(* the time until tasks.blocked_until, and a reported reset r is an instant *)
(* r - 1 ticks ahead. All stop counting where nothing tells them apart.    *)
(***************************************************************************)
EXTENDS ProviderCall, Sequences

CONSTANTS
  Routes,            \* [primary, fallback] pairs a node may have
  Profiles,          \* [Providers -> profile rank], lower is stricter
  CanIsolate,        \* providers whose configuration permits isolating
  MaxStageAttempts,  \* agents.max_stage_attempts
  MaxRetries,        \* agents.retry.max_attempts
  MaxBlocked         \* agents.retry.max_blocked_s, in clock ticks

VARIABLES
  route,           \* the stage's route
  session,         \* the request still names a session
  mode,            \* "hop", "fresh" or "retry": which call is out
  at,              \* "ready", "called", "asleep", "settled", "resting"
  index,           \* position in [primary, fallback]
  stage_attempts,
  tries,           \* retries used on the present provider
  attempts,        \* the audit rows
  last_error,      \* class of the error the stage would surface
  earliest_reset,
  result,          \* "none", "succeeded", "failed"
  stop,            \* an operator stop was requested
  task,            \* "running", "parked", "manual", "failed"
  age, wait        \* blocked_since and blocked_until

routerVars == <<route, session, mode, at, index, stage_attempts, tries, attempts, last_error,
                earliest_reset, result>>
taskVars == <<stop, task, age, wait>>
vars == <<callVars, routerVars, taskVars>>

NoFallback == "none"
NeverParked == MaxBlocked + 2

ASSUME StageAssumption ==
  /\ Routes \subseteq [primary : Providers, fallback : Providers \cup {NoFallback}]
  /\ Profiles \in [Providers -> Nat] /\ CanIsolate \subseteq Providers
  /\ MaxStageAttempts \in Nat \ {0} /\ MaxRetries \in Nat
  /\ MaxBlocked \in Nat \ {0}

FALLBACK_ELIGIBLE ==
  {"binary_not_found", "unsupported_version", "authentication_failed", "rate_limited",
   "network_unavailable", "provider_unavailable", "timeout", "process_crashed",
   "invalid_output", "agent_no_progress"}

TRANSIENT_RETRYABLE == {"provider_unavailable", "network_unavailable"}

PARK_ELIGIBLE == TRANSIENT_RETRYABLE \cup {"rate_limited"}

CONDITIONAL_FALLBACK == {"authorization_failed", "permission_denied", "capability_unavailable"}

is_same_or_stricter(p, q) == Profiles[p] <= Profiles[q]

\* Mutant: the conditional classes hop like the others.
fallback_allowed_Any(c, p, q) == c \in FALLBACK_ELIGIBLE \cup CONDITIONAL_FALLBACK

\* Whether an error of class c on p permits a hop to q.
fallback_allowed(c, p, q) ==
  \/ c \in FALLBACK_ELIGIBLE
  \/ /\ c \in CONDITIONAL_FALLBACK /\ is_same_or_stricter(q, p)
     /\ c = "capability_unavailable" => q \in CanIsolate

earlier(a, b) == IF b = NoReset THEN a ELSE IF a = NoReset THEN b ELSE IF b < a THEN b ELSE a

\* The primary, then the fallback if there is one.
sequence(r) == IF r.fallback = NoFallback THEN <<r.primary>> ELSE <<r.primary, r.fallback>>

pid == sequence(route)[index]

Row(p, o, sess) == [provider |-> p, class |-> o.class, raised |-> o.kind = "raised",
                    session |-> sess]

Rows == [provider : Providers, class : ErrorClass, raised : BOOLEAN, session : BOOLEAN]

\* Every class a row of this stage raised.
error_classes == {attempts[i].class : i \in {j \in DOMAIN attempts : attempts[j].raised}}

-----------------------------------------------------------------------------
FreshStage ==
  /\ route' \in Routes /\ session' \in BOOLEAN
  /\ mode' = "hop" /\ at' = "ready" /\ index' = 1 /\ stage_attempts' = 0 /\ tries' = 0
  /\ attempts' = <<>> /\ last_error' = "task_failure"
  /\ earliest_reset' = NoReset /\ result' = "none"

Init ==
  /\ CallInit
  /\ route \in Routes /\ session \in BOOLEAN
  /\ mode = "hop" /\ at = "ready" /\ index = 1 /\ stage_attempts = 0 /\ tries = 0
  /\ attempts = <<>> /\ last_error = "task_failure"
  /\ earliest_reset = NoReset /\ result = "none"
  /\ stop = FALSE /\ task = "running" /\ age = NeverParked /\ wait = 0

\* An attempt is sent out. A hop and a fresh session spend the hop budget, a
\* transient retry does not.
Call ==
  /\ task = "running" /\ at = "ready"
  /\ stage_attempts' = IF mode = "retry" THEN stage_attempts ELSE stage_attempts + 1
  /\ at' = "called"
  /\ Ask(pid)
  /\ UNCHANGED <<route, session, mode, index, tries, attempts, last_error,
                 earliest_reset, result>>
  /\ UNCHANGED taskVars

\* The provider's own steps.
Provider == (Answer \/ Vanish) /\ UNCHANGED <<routerVars, taskVars>>

Answered == at = "called" /\ phase = "over"

SettleWith(r, e) == at' = "settled" /\ result' = r /\ last_error' = e

\* A returned result, good or bad, ends the stage.
TakeResult ==
  /\ Answered /\ outcome.kind # "raised"
  /\ attempts' = Append(attempts, Row(prov, outcome, session))
  /\ SettleWith(outcome.kind, last_error)
  /\ Take
  /\ UNCHANGED <<route, session, mode, index, stage_attempts, tries, earliest_reset>>
  /\ UNCHANGED taskVars

\* Mutant: a hop does not ask for the hop budget.
Advance_NoBudget(c) ==
  LET next == index + 1 IN
  IF next <= Len(sequence(route)) /\ fallback_allowed(c, pid, sequence(route)[next])
  THEN /\ index' = next /\ mode' = "hop" /\ at' = "ready" /\ tries' = 0
       /\ session' = FALSE
       /\ last_error' = c /\ UNCHANGED result
  ELSE /\ SettleWith("none", c)
       /\ UNCHANGED <<index, mode, tries, session>>

\* What follows an error of class c once its provider is done with: the next
\* provider if there is one, the hop budget allows and the class permits it.
Advance(c) ==
  LET next == index + 1 IN
  IF next <= Len(sequence(route)) /\ stage_attempts < MaxStageAttempts
     /\ fallback_allowed(c, pid, sequence(route)[next])
  THEN /\ index' = next /\ mode' = "hop" /\ at' = "ready" /\ tries' = 0
       /\ session' = FALSE
       /\ last_error' = c /\ UNCHANGED result
  ELSE /\ SettleWith("none", c)
       /\ UNCHANGED <<index, mode, tries, session>>

\* An error came back: its row is kept, and outside the retries its reset too.
Error(m) ==
  /\ Answered /\ outcome.kind = "raised" /\ mode = m
  /\ attempts' = Append(attempts, Row(prov, outcome, session))
  /\ earliest_reset' = IF m = "retry" THEN earliest_reset
                       ELSE earlier(earliest_reset, outcome.resets)
  /\ Take
  /\ UNCHANGED <<route, stage_attempts>>
  /\ UNCHANGED taskVars

\* A stop was requested when the first answer of a provider is an error.
Cancelled ==
  /\ Error("hop") /\ stop
  /\ SettleWith("none", "cancelled")
  /\ UNCHANGED <<index, mode, tries, session>>

LostSession == outcome.class = "session_unavailable" /\ session /\ stage_attempts < MaxStageAttempts
Transient == outcome.class \in TRANSIENT_RETRYABLE /\ MaxRetries > 0

\* The session is gone: the same provider once more without it.
RetryFresh ==
  /\ Error("hop") /\ ~stop /\ LostSession
  /\ mode' = "fresh" /\ at' = "ready" /\ session' = FALSE /\ last_error' = outcome.class
  /\ UNCHANGED <<index, tries, result>>

\* A transient failure: the same provider again after a pause.
RetryTransient ==
  /\ Error("hop") /\ ~stop /\ Transient
  /\ mode' = "retry" /\ at' = "asleep" /\ tries' = 0 /\ last_error' = outcome.class
  /\ UNCHANGED <<index, session, result>>

Again == outcome.class \in TRANSIENT_RETRYABLE \cup {"session_unavailable"} /\ tries < MaxRetries

\* Mutant: a retry goes on with the session that is gone.
RetryAgain_KeepsSession ==
  /\ Error("retry") /\ Again
  /\ at' = "asleep" /\ last_error' = outcome.class
  /\ UNCHANGED <<index, mode, tries, result, session>>

RetryAgain ==
  /\ Error("retry") /\ Again
  /\ at' = "asleep" /\ last_error' = outcome.class
  /\ session' = (session /\ outcome.class # "session_unavailable")
  /\ UNCHANGED <<index, mode, tries, result>>

\* Nothing more to try on this provider.
GiveUp ==
  /\ \/ Error("hop") /\ ~stop /\ ~LostSession /\ ~Transient
     \/ Error("fresh")
     \/ Error("retry") /\ ~Again
  /\ Advance(outcome.class)

\* The backoff is over; nobody asks whether a stop was requested meanwhile.
Wake ==
  /\ task = "running" /\ at = "asleep"
  /\ at' = "ready" /\ tries' = tries + 1
  /\ UNCHANGED <<callVars, taskVars>>
  /\ UNCHANGED <<route, session, mode, index, stage_attempts, attempts, last_error,
                 earliest_reset, result>>

-----------------------------------------------------------------------------
(* The orchestrator's part. *)

\* The node has its result and the run goes on to another node.
NodeDone ==
  /\ at = "settled" /\ task = "running" /\ result # "none"
  /\ at' = "resting"
  /\ UNCHANGED <<callVars, taskVars>>
  /\ UNCHANGED <<route, session, mode, index, stage_attempts, tries, attempts, last_error,
                 earliest_reset, result>>

NextNode ==
  /\ at = "resting" /\ task = "running" /\ ~stop
  /\ FreshStage
  /\ UNCHANGED <<callVars, stop, task, age, wait>>

\* Mutant: only the last error is classified.
classify_exhaustion_Last ==
  IF last_error \in {"containment_unverified", "capability_unavailable"} THEN "manual"
  ELSE IF last_error \in PARK_ELIGIBLE \cup {"cancelled"} THEN "park" ELSE "terminal"

\* Mutant: a stop is parked before anybody asks what was left behind.
classify_exhaustion_StopFirst ==
  IF last_error = "cancelled" \/ error_classes \cap PARK_ELIGIBLE # {} THEN "park"
  ELSE IF error_classes \cap {"containment_unverified", "capability_unavailable"} # {} THEN "manual"
  ELSE "terminal"

classify_exhaustion ==
  IF error_classes \cap {"containment_unverified", "capability_unavailable"} # {} THEN "manual"
  ELSE IF last_error = "cancelled" THEN "park"
  ELSE IF error_classes \cap PARK_ELIGIBLE # {} THEN "park"
  ELSE "terminal"

\* The instant a park may be left, within the ceiling, never for a stop.
park_wake_instant(since) ==
  IF last_error = "cancelled" \/ earliest_reset = NoReset THEN 0
  ELSE IF since + earliest_reset - 1 <= MaxBlocked THEN earliest_reset - 1
  ELSE IF since < MaxBlocked THEN MaxBlocked - since ELSE 0

\* Mutant: every park starts its own ceiling.
Dispatch_Restamps ==
  /\ at = "settled" /\ task = "running" /\ result = "none"
  /\ \/ /\ classify_exhaustion = "park"
        /\ task' = "parked" /\ age' = 0 /\ wait' = park_wake_instant(0)
     \/ /\ classify_exhaustion # "park"
        /\ task' = IF classify_exhaustion = "manual" THEN "manual" ELSE "failed"
        /\ age' = NeverParked /\ wait' = 0
  /\ UNCHANGED <<callVars, routerVars, stop>>

\* The node raised NodeInfraError: manual, park or fail; an evaluator that cannot
\* judge is for a human where another node fails.
Dispatch ==
  /\ at = "settled" /\ task = "running" /\ result = "none"
  /\ LET since == IF age = NeverParked THEN 0 ELSE age IN
     \/ /\ classify_exhaustion = "manual"
        /\ task' = "manual" /\ age' = NeverParked /\ wait' = 0
     \/ /\ classify_exhaustion = "park"
        /\ task' = "parked" /\ age' = since /\ wait' = park_wake_instant(since)
     \/ /\ classify_exhaustion = "terminal"
        /\ task' \in {"failed", "manual"} /\ age' = NeverParked /\ wait' = 0
  /\ UNCHANGED <<callVars, routerVars, stop>>

\* The engine meets a stop before its next node and parks the task.
FlowCancelled ==
  /\ at = "resting" /\ task = "running" /\ stop
  /\ task' = "parked" /\ age' = (IF age = NeverParked THEN 0 ELSE age) /\ wait' = 0
  /\ UNCHANGED <<callVars, routerVars, stop>>

still_blocked == wait > 0
park_ceiling_exceeded == age # NeverParked /\ age > MaxBlocked

\* The next tick or start resumes the task: the ceiling first, then the window,
\* then the node again from its checkpoint.
Resume ==
  /\ task = "parked"
  /\ \/ /\ park_ceiling_exceeded
        /\ task' = "failed" /\ age' = NeverParked /\ wait' = 0
        /\ UNCHANGED <<callVars, routerVars, stop>>
     \/ /\ ~park_ceiling_exceeded /\ ~still_blocked
        /\ task' = "running" /\ stop' = FALSE
        /\ FreshStage
        /\ UNCHANGED <<callVars, age, wait>>

\* The process died between two nodes; a start finds the task running and asks
\* the same two questions first.
Restart ==
  /\ task = "running" /\ at = "resting"
  /\ \/ /\ park_ceiling_exceeded
        /\ task' = "failed" /\ age' = NeverParked /\ wait' = 0
        /\ UNCHANGED <<callVars, routerVars, stop>>
     \/ /\ ~park_ceiling_exceeded /\ ~still_blocked
        /\ stop' = FALSE /\ FreshStage
        /\ UNCHANGED <<callVars, task, age, wait>>

\* Time passes, whatever the task is doing; the age of a first park counts on
\* while the task runs again.
Tick ==
  /\ task \in {"running", "parked"} /\ phase # "over"
  /\ wait > 0 \/ age <= MaxBlocked
  /\ age' = IF age <= MaxBlocked THEN age + 1 ELSE age
  /\ wait' = IF wait > 0 THEN wait - 1 ELSE 0
  /\ earliest_reset' = IF earliest_reset > 1 THEN earliest_reset - 1 ELSE earliest_reset
  /\ UNCHANGED <<callVars, route, session, mode, at, index, stage_attempts, tries, attempts,
                 last_error, result, stop, task>>

Stop ==
  /\ ~stop /\ task = "running" /\ at \in {"ready", "called", "asleep", "resting"}
  /\ stop' = TRUE
  /\ UNCHANGED <<callVars, routerVars, task, age, wait>>

Next ==
  \/ Call \/ Provider \/ TakeResult \/ Wake
  \/ Cancelled \/ RetryFresh \/ RetryTransient \/ RetryAgain \/ GiveUp
  \/ NodeDone \/ NextNode \/ FlowCancelled \/ Dispatch \/ Resume \/ Restart \/ Tick \/ Stop

Spec == Init /\ [][Next]_vars

\* The daemon keeps its loop going and its clock runs; a provider call may last
\* for ever (ProviderRun says when it does not).
FairSpec ==
  /\ Spec
  /\ WF_vars(Call) /\ WF_vars(TakeResult) /\ WF_vars(Wake)
  /\ WF_vars(Cancelled \/ RetryFresh \/ RetryTransient \/ RetryAgain \/ GiveUp)
  /\ WF_vars(NodeDone) /\ WF_vars(Dispatch) /\ WF_vars(Resume) /\ SF_vars(Tick)

-----------------------------------------------------------------------------
(* Properties. *)

\* Every variable keeps its type across the calls of a stage, its retries, the
\* hop to the other provider and the parks between stages.
TypeOK ==
  /\ strict \in StrictModes /\ phase \in {"idle", "working", "over"} /\ prov \in Providers
  /\ outcome \in Outcomes /\ survivors \in BOOLEAN
  /\ route \in Routes /\ session \in BOOLEAN
  /\ mode \in {"hop", "fresh", "retry"}
  /\ at \in {"ready", "called", "asleep", "settled", "resting"}
  /\ index \in 1..Len(sequence(route))
  /\ stage_attempts \in 0..MaxStageAttempts /\ tries \in 0..MaxRetries
  /\ attempts \in Seq(Rows) /\ last_error \in ErrorClass
  /\ earliest_reset \in Nat /\ result \in {"none", "succeeded", "failed"}
  /\ stop \in BOOLEAN /\ task \in {"running", "parked", "manual", "failed"}
  /\ age \in 0..NeverParked /\ wait \in 0..MaxBlocked

\* No agent is sent into a clone where processes of the one before are known to
\* be alive, through retries, hops, nodes, parks and restarts (router.py
\* run_stage, infra_disposition.py classify_exhaustion).
NoAgentAmongSurvivors == [][survivors => phase' # "working"]_vars

\* A hop to the other provider never runs under a looser profile because the
\* first one lacked permission, and never to one that may not isolate because
\* the first one could not; retries and fresh sessions in between included
\* (router.py fallback_allowed).
PolicyNotRelaxed ==
  \A i \in 1..(Len(attempts) - 1) :
    LET a == attempts[i] b == attempts[i + 1] IN
    a.provider # b.provider =>
      /\ a.class \in CONDITIONAL_FALLBACK => is_same_or_stricter(b.provider, a.provider)
      /\ a.class = "capability_unavailable" => b.provider \in CanIsolate

\* A session is offered to its own provider only, and never again once that
\* provider said it is gone, through retries, a fresh attempt and the fallback
\* (router.py _build_request, _retry_transient).
SessionNotReplayed ==
  \A j \in DOMAIN attempts : attempts[j].session =>
    /\ attempts[j].provider = route.primary
    /\ \A i \in 1..(j - 1) : attempts[i].class # "session_unavailable"

\* A task fails for its providers only when no attempt of the stage met a
\* condition that passes by itself, however badly the last attempt went
\* (infra_disposition.py classify_exhaustion).
ResumableKept ==
  [][task = "running" /\ at = "settled" /\ task' = "failed" =>
       error_classes \cap PARK_ELIGIBLE = {}]_vars

\* A task is not parked for ever, neither at once nor by parking again and
\* again: all its parks count towards one ceiling (orchestrator.py _park,
\* _park_wake_instant, _resume_via_engine).
ParksEnd == <>[](task # "parked")

\* However often a task parks, and whatever reset its providers report, it is
\* never put to sleep past the one ceiling of all its parks (orchestrator.py
\* _park, _park_wake_instant).
WakeWithinCeiling == wait > 0 => age + wait <= MaxBlocked

\* No attempt of a stage, by hop, retry or fresh session, runs under a policy or with a
\* session it must not have (router.py run_stage), and no park outlasts its ceiling.
StageSafe == TypeOK /\ PolicyNotRelaxed /\ SessionNotReplayed /\ WakeWithinCeiling

\* What may follow an attempt: nobody beside its survivors, and no failure of the task
\* for a condition that passes by itself (infra_disposition.py).
StageSteps == NoAgentAmongSurvivors /\ ResumableKept
=============================================================================
