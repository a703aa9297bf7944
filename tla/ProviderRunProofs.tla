-------------------------- MODULE ProviderRunProofs --------------------------
(***************************************************************************)
(* For any set of helpers, any bounds and any error classes an adapter     *)
(* recognises: types, that a settled agent is judged by its result, and    *)
(* that the adapters over their containments implement the call the router *)
(* relies on. The invariant says where a process may be alive, what the    *)
(* barrier has proved once it was crossed, and what the settle watch saw.  *)
(* After it, the environment those processes, the checks, and git and gh   *)
(* are given, for any configuration the loader accepts, and the gates that *)
(* run the operator's programs in it, through crashes and reruns; and the  *)
(* launches of a run: what a started provider can reach, whatever the      *)
(* configuration, the route and the changes of the host between two steps. *)
(***************************************************************************)
EXTENDS ProviderRun, ChildEnv, GateNodes, LaunchPolicy, WellFoundedInduction, TLAPS

Unborn == \A h \in Helpers : helper[h] = "unborn"

\* The CLI lives while the call waits for it, and nothing lives before.
Lives ==
  /\ root = "alive" => step \in {"wait", "drain"}
  /\ step \in {"argv", "canary", "spawn"} => Unborn /\ ~watch.on
  /\ step = "canary" => prov = "codex"

\* Behind the barrier a process it knows of is alive only if it says so.
Barrier ==
  /\ step = "parse" /\ quiet # "unproven" => Known \cap Alive = {}
  /\ step \in {"over", "idle"} /\ Known \cap Alive # {} =>
       outcome.class = "containment_unverified"

\* A result the watch has read is a result of the file, and stays one.
Watched ==
  /\ watch.on => ~ended.launch
  /\ watch.settled => watch.on /\ stream.result # "none"
  /\ watch.copy.result # "none" => stream.result # "none"

IInv == TypeOK /\ Lives /\ Barrier /\ Watched /\ SettledByResult

-----------------------------------------------------------------------------
(* What the operators of the model give and keep. *)

\* Every answer of a provider is an outcome.
LEMMA AnswersTyped ==
  ASSUME NEW p \in Providers, NEW s \in BOOLEAN
  PROVE  Answers(p, s) \subseteq Outcomes
<1>1. Sigs \subseteq ErrorClass
  BY OutcomeAssumption
<1>2. \A c \in ErrorClass, r \in Windows \cup {NoReset} : Raised(c, r) \in Outcomes
  BY DEF Outcomes
<1>3. Returned("succeeded") \in Outcomes /\ Returned("failed") \in Outcomes
  BY DEF Outcomes
<1>4. {"configuration_error", "binary_not_found", "timeout", "process_crashed", "invalid_output",
       "agent_no_progress", "containment_unverified", "capability_unavailable",
       "permission_denied", "background_work_lost", "rate_limited"} \subseteq ErrorClass
  BY DEF ErrorClass
<1>5. \A c \in ErrorClass : Raised(c, NoReset) \in Outcomes
  BY <1>2
<1>6. \A r \in Windows \cup {NoReset} : Raised("rate_limited", r) \in Outcomes
  BY <1>2, <1>4
<1>7. QED
  BY <1>1, <1>3, <1>4, <1>5, <1>6 DEF Answers

\* One more line keeps the reading well typed and a result in it.
LEMMA FoldKeeps ==
  ASSUME NEW s \in Streams, NEW t \in fold(s)
  PROVE  t \in Streams /\ (s.result # "none" => t.result # "none")
<1>1. \/ t = [s EXCEPT !.later = TRUE]
      \/ t = [s EXCEPT !.bg = "running", !.later = TRUE]
      \/ \E b \in {"finished", "killed", "stopped"} : t = [s EXCEPT !.bg = b, !.later = TRUE]
      \/ \E z \in BOOLEAN : t = [s EXCEPT !.result = "ok", !.later = FALSE, !.spared = z]
      \/ \E z \in BOOLEAN : t = [s EXCEPT !.result = "err", !.later = FALSE, !.idleTokens = z]
      \/ \E r \in Windows \cup {NoReset} :
           t = [s EXCEPT !.result = "err", !.limited = TRUE, !.later = FALSE, !.resets = r]
  BY DEF fold
<1>2. QED
  BY <1>1 DEF Streams

\* A kill raises nobody from the dead, and puts nobody into the group.
LEMMA AfterKeeps ==
  ASSUME TypeOK, NEW hit, NEW dies \in BOOLEAN
  PROVE  /\ After(hit, dies) \in [Helpers -> Statuses]
         /\ \A h \in Helpers :
              /\ After(hit, dies)[h] \in Living => helper[h] \in Living
              /\ After(hit, dies)[h] = "group" => helper[h] = "group"
              /\ helper[h] = "unborn" => After(hit, dies)[h] = "unborn"
  BY DEF After, TypeOK, Statuses, Living, Alive

\* What the verdict on a stream with a result may be.
LEMMA VerdictAnswers ==
  ASSUME TypeOK PROVE verdict \subseteq Answers(prov, host.strict)
<1>1. stream.resets \in Windows \cup {NoReset} /\ prov \in {"claude", "codex"}
  BY DEF TypeOK, Streams, Providers
<1>2. QED
  BY <1>1 DEF verdict, Answers

\* What the call makes of its end is an answer of its adapter.
LEMMA ParseAnswers ==
  ASSUME TypeOK, Parse PROVE outcome' \in Answers(prov, host.strict)
<1>1. CASE quiet = "unproven"
  BY <1>1 DEF Parse, Finish, Answers
<1>2. CASE quiet # "unproven" /\ (ended.launch \/ ended.timed)
  <2>1. classify \in {"binary_not_found", "timeout"}
    BY <1>2 DEF classify
  <2>2. QED
    BY <1>2, <2>1 DEF Parse, Finish, Answers
<1>3. CASE quiet # "unproven" /\ ~(ended.launch \/ ended.timed) /\ stream.result = "none"
  <2>1. ended.sig \in Sigs \cup {"none"}
    BY DEF TypeOK
  <2>2. ~ended.zero => classify \in Sigs \cup {"process_crashed"}
    BY <1>3, <2>1 DEF classify
  <2>3. QED
    BY <1>3, <2>2 DEF Parse, Finish, Answers
<1>4. CASE quiet # "unproven" /\ ~(ended.launch \/ ended.timed) /\ stream.result # "none"
  BY <1>4, VerdictAnswers DEF Parse, Finish
<1>5. QED
  BY <1>1, <1>2, <1>3, <1>4

-----------------------------------------------------------------------------
(* The invariant.                                                           *)

LEMMA InitInv == Init => IInv
<1> SUFFICES ASSUME Init PROVE IInv
  OBVIOUS
<1>1. EmptyStream \in Streams
  BY DEF EmptyStream, Streams
<1>2. TypeOK
  <2>1. 0 \in 0 .. MaxEvents /\ 0 \in 0 .. MaxFaults
    BY ProviderAssumption
  <2>2. NoOutcome \in Outcomes /\ "claude" \in Providers
    BY DEF Outcomes, Providers
  <2>3. QED
    BY <1>1, <2>1, <2>2 DEF Init, TypeOK, Statuses, NoWatch, NoEnd
<1>3. Lives /\ Barrier /\ Watched /\ SettledByResult
  BY DEF Init, Lives, Barrier, Watched, SettledByResult, Alive, Living, NoWatch, NoEnd, EmptyStream
<1>4. QED
  BY <1>2, <1>3 DEF IInv

\* A new call, and what it does before a process runs.
LEMMA LaunchSteps ==
  ASSUME IInv, (\E p \in Providers : StartRun(p)) \/ BuildArgv \/ PreLaunchCheck \/ Spawn
  PROVE  IInv'
<1> USE DEF IInv
<1>1. ASSUME NEW p \in Providers, StartRun(p) PROVE IInv'
  <2>1. EmptyStream \in Streams
    BY DEF EmptyStream, Streams
  <2>2. TypeOK'
    <3>1. 0 \in 0 .. MaxEvents /\ 0 \in 0 .. MaxFaults
      BY ProviderAssumption
    <3>2. NoOutcome \in Outcomes
      BY DEF Outcomes
    <3>3. NoWatch \in [on : BOOLEAN, copy : Streams, idle : BOOLEAN, verdict : BOOLEAN, settled : BOOLEAN]
      BY <2>1 DEF NoWatch
    <3>4. NoEnd \in [timed : BOOLEAN, zero : BOOLEAN, sig : Sigs \cup {"none"}, launch : BOOLEAN]
      BY DEF NoEnd
    <3>5. QED
      BY <1>1, <2>1, <3>1, <3>2, <3>3, <3>4 DEF StartRun, TypeOK, Statuses
  <2>2a. Lives'
    BY <1>1 DEF StartRun, Lives, Unborn, NoWatch
  <2>3. (Barrier /\ Watched /\ SettledByResult)'
    BY <1>1 DEF StartRun, Barrier, Watched, SettledByResult, NoWatch, NoEnd, EmptyStream
  <2>4. QED
    BY <2>2, <2>2a, <2>3
<1>2. ASSUME BuildArgv \/ PreLaunchCheck PROVE IInv'
  <2>1. TypeOK' /\ (step' = "over" => outcome' \in Answers(prov, host.strict))
    <3>1. host.strict \in BOOLEAN
      BY OutcomeAssumption DEF TypeOK
    <3>2. \A o \in Answers(prov, host.strict) : o \in Outcomes
      BY <3>1, AnswersTyped DEF TypeOK
    <3>3. Raised("configuration_error", NoReset) \in Answers(prov, host.strict)
      BY DEF Answers
    <3>4. host.strict => Raised("capability_unavailable", NoReset) \in Answers(prov, host.strict)
      BY DEF Answers
    <3>5. QED
      BY <1>2, <3>2, <3>3, <3>4 DEF BuildArgv, PreLaunchCheck, Finish, TypeOK
  <2>2. Unborn /\ UNCHANGED <<helper, watch, ended, stream, root, prov>> /\ ~watch.on
    BY <1>2 DEF BuildArgv, PreLaunchCheck, Lives
  <2>3. root # "alive"
    BY <1>2 DEF BuildArgv, PreLaunchCheck, Lives
  <2>4. Alive' = {}
    BY <2>2 DEF Unborn, Alive, Living
  <2>5. (Lives /\ Barrier /\ Watched /\ SettledByResult)'
    <3>1. step' \in {"canary", "spawn", "over"} /\ (step' = "canary" => prov = "codex")
      BY <1>2 DEF BuildArgv, PreLaunchCheck, Finish
    <3>2. (Lives /\ Barrier)'
      BY <2>2, <2>3, <2>4, <3>1 DEF Lives, Barrier, Unborn
    <3>3. (Watched /\ SettledByResult)'
      BY <2>2, <3>1 DEF Watched, SettledByResult
    <3>4. QED
      BY <3>2, <3>3
  <2>6. QED
    BY <2>1, <2>5
<1>3. ASSUME Spawn PROVE IInv'
  <2>1. TypeOK'
    <3>1. EmptyStream \in Streams
      BY DEF EmptyStream, Streams
    <3>2. [NoWatch EXCEPT !.on = prov = "claude"] \in
            [on : BOOLEAN, copy : Streams, idle : BOOLEAN, verdict : BOOLEAN, settled : BOOLEAN]
      BY <3>1 DEF NoWatch
    <3>3. [NoEnd EXCEPT !.launch = FALSE] \in
            [timed : BOOLEAN, zero : BOOLEAN, sig : Sigs \cup {"none"}, launch : BOOLEAN]
      BY DEF NoEnd
    <3>4. used.faults < MaxFaults => [used EXCEPT !.faults = @ + 1] \in
            [events : 0..MaxEvents, faults : 0..MaxFaults]
      BY ProviderAssumption DEF TypeOK
    <3>5. QED
      BY <1>3, <3>2, <3>3, <3>4 DEF Spawn, TypeOK
  <2>2. Alive' = {}
    BY <1>3 DEF Spawn, Lives, Unborn, Alive, Living
  <2>3. (Lives /\ Barrier)'
    BY <1>3, <2>2 DEF Spawn, Lives, Barrier
  <2>4. (Watched /\ SettledByResult)'
    BY <1>3 DEF Spawn, Watched, SettledByResult, Lives, NoEnd, NoWatch, EmptyStream
  <2>5. QED
    BY <2>1, <2>3, <2>4
<1>4. QED
  BY <1>1, <1>2, <1>3

\* A kill of the containment keeps the types and starts nothing.
LEMMA TerminateKeeps ==
  ASSUME TypeOK, terminate
  PROVE  /\ tracked' \subseteq Helpers /\ helper' \in [Helpers -> Statuses]
         /\ root' \in {"none", "alive", "gone"} /\ (root' = "alive" => root = "alive")
<1>1. descendants \subseteq Helpers
  BY DEF descendants
<1>2. KillsRoot \in BOOLEAN
  BY DEF KillsRoot, Posix, TypeOK
<1>3. helper' \in [Helpers -> Statuses]
  BY <1>2, AfterKeeps DEF terminate
<1>4. QED
  BY <1>1, <1>3 DEF terminate, TypeOK

\* A helper that moves by itself leaves the reach of the barrier or dies.
LEMMA HelperFades ==
  ASSUME TypeOK, NEW h \in Helpers, HelperDetaches(h) \/ HelperEnds(h)
  PROVE  /\ helper' \in [Helpers -> Statuses] /\ Known' \cap Alive' \subseteq Known \cap Alive
         /\ ~Unborn
<1>1. helper[h] \in Living /\ helper' \in [Helpers -> Statuses]
  BY DEF HelperDetaches, HelperEnds, Living, Statuses, TypeOK
<1>2. \A g \in Helpers : /\ helper'[g] \in Living => helper[g] \in Living
                         /\ helper'[g] = "group" => helper[g] = "group"
  BY DEF HelperDetaches, HelperEnds, Living, Statuses, TypeOK
<1>3. UNCHANGED <<tracked, host>>
  BY DEF HelperDetaches, HelperEnds, AgentUnchanged
<1>4. QED
  BY <1>1, <1>2, <1>3 DEF Known, Alive, InGroup, Posix, Unborn, Living

\* The agent writes and starts helpers while it lives; helpers move at any time.
LEMMA AgentSteps ==
  ASSUME IInv,
         AgentWrites \/ \E h \in Helpers : AgentForks(h) \/ HelperDetaches(h) \/ HelperEnds(h)
  PROVE  IInv'
<1> USE DEF IInv, AgentUnchanged
<1>1. ASSUME AgentWrites PROVE IInv'
  <2>1. stream' \in Streams /\ (stream.result # "none" => stream'.result # "none")
    BY <1>1, FoldKeeps DEF AgentWrites, TypeOK
  <2>2. [used EXCEPT !.events = @ + 1] \in [events : 0..MaxEvents, faults : 0..MaxFaults]
    BY <1>1, ProviderAssumption DEF AgentWrites, TypeOK
  <2>3. TypeOK'
    BY <1>1, <2>1, <2>2 DEF AgentWrites, TypeOK
  <2>4. step \in {"wait", "drain"}
    BY <1>1 DEF AgentWrites, Lives
  <2>5. (Lives /\ Barrier /\ SettledByResult)'
    BY <1>1, <2>4 DEF AgentWrites, Lives, Barrier, SettledByResult
  <2>6. Watched'
    BY <1>1, <2>1 DEF AgentWrites, Watched
  <2>7. QED
    BY <2>3, <2>5, <2>6
<1>2. ASSUME NEW h \in Helpers, AgentForks(h) PROVE IInv'
  <2>1. used' \in [events : 0..MaxEvents, faults : 0..MaxFaults]
    BY <1>2, ProviderAssumption DEF AgentForks, TypeOK
  <2>2. TypeOK'
    BY <1>2, <2>1 DEF AgentForks, TypeOK, Statuses
  <2>3. step \in {"wait", "drain"}
    BY <1>2 DEF AgentForks, Lives
  <2>4. (Lives /\ Barrier /\ Watched /\ SettledByResult)'
    BY <1>2, <2>3 DEF AgentForks, Lives, Barrier, Watched, SettledByResult
  <2>5. QED
    BY <2>2, <2>4
<1>3. ASSUME NEW h \in Helpers, HelperDetaches(h) \/ HelperEnds(h) PROVE IInv'
  <2>1. /\ helper' \in [Helpers -> Statuses] /\ Known' \cap Alive' \subseteq Known \cap Alive
        /\ ~Unborn
    BY <1>3, HelperFades
  <2>2. UNCHANGED <<host, step, prov, root, tracked, holds, stubborn, stream, watch, ended, quiet,
                    adopted, outcome, used>>
    BY <1>3 DEF HelperDetaches, HelperEnds
  <2>3. TypeOK'
    BY <2>1, <2>2 DEF TypeOK
  <2>4. (Lives /\ Barrier)'
    BY <2>1, <2>2 DEF Lives, Barrier
  <2>5. (Watched /\ SettledByResult)'
    BY <2>2 DEF Watched, SettledByResult, verdict
  <2>6. QED
    BY <2>3, <2>4, <2>5
<1>4. QED
  BY <1>1, <1>2, <1>3

\* The CLI ends or is killed, the tracker and the settle watch look, and the
\* watch may stop it: all while the call waits.
LEMMA BesideSteps ==
  ASSUME IInv, RootEnds \/ RootKilled \/ Track \/ WatchPolls \/ WatchDecides
  PROVE  IInv'
<1> USE DEF IInv
<1>1. step \in {"wait", "drain"} /\ step' = step
  BY DEF RootEnds, RootKilled, Track, WatchPolls, WatchDecides
<1>2. TypeOK'
  <2>1. CASE RootEnds \/ RootKilled
    <3>1. helper' \in [Helpers -> Statuses]
      <4>1. \A hit : After(hit, TRUE) \in [Helpers -> Statuses]
        BY AfterKeeps
      <4>2. helper' = After({}, TRUE) \/ helper' = After(InGroup \cup descendants, TRUE)
        BY <2>1 DEF RootEnds, RootKilled
      <4>3. QED
        BY <4>1, <4>2
    <3>2. ended' \in [timed : BOOLEAN, zero : BOOLEAN, sig : Sigs \cup {"none"}, launch : BOOLEAN]
      BY <2>1 DEF RootEnds, RootKilled, TypeOK
    <3>3. QED
      BY <2>1, <3>1, <3>2 DEF RootEnds, RootKilled, TypeOK
  <2>2. CASE Track
    BY <2>2 DEF Track, TypeOK, descendants
  <2>3. CASE WatchPolls
    <3>1. watch' \in [on : BOOLEAN, copy : Streams, idle : BOOLEAN, verdict : BOOLEAN, settled : BOOLEAN]
      BY <2>3 DEF WatchPolls, TypeOK
    <3>2. QED
      BY <2>3, <3>1 DEF WatchPolls, TypeOK
  <2>4. CASE WatchDecides
    <3>1. watch' \in [on : BOOLEAN, copy : Streams, idle : BOOLEAN, verdict : BOOLEAN, settled : BOOLEAN]
      BY <2>4 DEF WatchDecides, TypeOK
    <3>2. tracked' \subseteq Helpers /\ helper' \in [Helpers -> Statuses]
            /\ root' \in {"none", "alive", "gone"}
      BY <2>4, TerminateKeeps DEF WatchDecides, TypeOK
    <3>3. QED
      BY <2>4, <3>1, <3>2 DEF WatchDecides, TypeOK
  <2>5. QED
    BY <2>1, <2>2, <2>3, <2>4
<1>3. (Lives /\ Barrier /\ SettledByResult)'
  BY <1>1 DEF Lives, Barrier, SettledByResult
<1>4. Watched'
  <2>1. CASE RootEnds \/ RootKilled
    BY <2>1 DEF RootEnds, RootKilled, Watched, TypeOK
  <2>2. CASE Track
    BY <2>2 DEF Track, Watched
  <2>3. CASE WatchPolls
    BY <2>3 DEF WatchPolls, Watched, TypeOK
  <2>4. CASE WatchDecides
    BY <2>4 DEF WatchDecides, Watched, TypeOK, settled
  <2>5. QED
    BY <2>1, <2>2, <2>3, <2>4
<1>5. QED
  BY <1>2, <1>3, <1>4

\* The barrier: behind a kill that left nobody it looked for, nobody it knows
\* of is alive.
LEMMA BarrierProves ==
  ASSUME TypeOK, TerminateAndProve, quiet' = "proven"
  PROVE  Known' \cap Alive' = {}
<1>1. /\ Posix \/ adopted
      /\ \A h \in Reach : helper'[h] \notin Living
      /\ helper' = After(Reach, KillsRoot) /\ UNCHANGED host
      /\ tracked' = IF Posix THEN tracked \cup descendants ELSE tracked
  BY DEF TerminateAndProve, terminate, WaitUnchanged
<1>2. \A h \in Helpers : /\ helper'[h] \in Living => helper[h] \in Living
                         /\ helper'[h] = "group" => helper[h] = "group"
  <2>1. KillsRoot \in BOOLEAN
    BY DEF KillsRoot, Posix, TypeOK
  <2>2. QED
    BY <1>1, <2>1, AfterKeeps
<1>3. CASE Posix
  <2>1. Known' = InGroup' \cup tracked'
    BY <1>1, <1>3 DEF Known, Posix
  <2>2. InGroup' \subseteq Reach /\ tracked' \subseteq Reach
    BY <1>1, <1>2, <1>3 DEF InGroup, Reach
  <2>3. QED
    BY <1>1, <2>1, <2>2 DEF Alive
<1>4. CASE ~Posix
  BY <1>1, <1>2, <1>4 DEF Reach, Alive
<1>5. QED
  BY <1>3, <1>4

\* The waiting call: it hears of the end, runs out of time, crosses the
\* barrier, reads what the agent left and hands back its answer.
LEMMA CallSteps ==
  ASSUME IInv, Communicate \/ Timeout \/ TerminateAndProve \/ Parse \/ Taken
  PROVE  IInv'
<1> USE DEF IInv, WaitUnchanged
<1>1. ASSUME Communicate PROVE IInv'
  <2>1. TypeOK' /\ Lives' /\ Watched'
    BY <1>1 DEF Communicate, Drained, TypeOK, Lives, Watched
  <2>2. (Barrier /\ SettledByResult)'
    BY <1>1 DEF Communicate, Barrier, SettledByResult
  <2>3. QED
    BY <2>1, <2>2
<1>2. ASSUME Timeout PROVE IInv'
  <2>1. TypeOK'
    BY <1>2, TerminateKeeps DEF Timeout, TypeOK
  <2>2. (Lives /\ Barrier /\ SettledByResult)'
    BY <1>2 DEF Timeout, Lives, Barrier, SettledByResult
  <2>3. Watched'
    BY <1>2 DEF Timeout, Watched, TypeOK
  <2>4. QED
    BY <2>1, <2>2, <2>3
<1>3. ASSUME TerminateAndProve PROVE IInv'
  <2>1. TypeOK' /\ (root' = "alive" => root = "alive")
    BY <1>3, TerminateKeeps DEF TerminateAndProve, TypeOK
  <2>2. Barrier'
    BY <1>3, BarrierProves DEF TerminateAndProve, Barrier
  <2>3. (Lives /\ SettledByResult)'
    BY <1>3, <2>1 DEF TerminateAndProve, Lives, SettledByResult
  <2>4. Watched'
    BY <1>3 DEF TerminateAndProve, Watched
  <2>5. QED
    BY <2>1, <2>2, <2>3, <2>4
<1>4. ASSUME Parse PROVE IInv'
  <2>1. /\ step = "parse" /\ step' = "over"
        /\ UNCHANGED <<host, prov, root, helper, tracked, holds, stubborn, stream, watch, ended,
                       quiet, adopted, used>>
    BY <1>4 DEF Parse, Finish
  <2>2. outcome' \in Outcomes
    BY <1>4, ParseAnswers, AnswersTyped, OutcomeAssumption DEF TypeOK
  <2>3. TypeOK' /\ Lives' /\ Watched'
    BY <2>1, <2>2 DEF TypeOK, Lives, Watched
  <2>4. Barrier'
    <3>1. Known' = Known /\ Alive' = Alive
      BY <2>1 DEF Known, Alive, InGroup, Posix
    <3>2. quiet = "unproven" => outcome'.class = "containment_unverified"
      BY <1>4 DEF Parse, Finish, Raised
    <3>3. QED
      BY <2>1, <3>1, <3>2 DEF Barrier
  <2>5. SettledByResult'
    <3>1. SUFFICES ASSUME watch.settled, quiet = "proven", ~ended.timed
                   PROVE  stream.result # "none" /\ outcome' \in verdict
      BY <2>1 DEF SettledByResult, verdict
    <3>2. ~ended.launch /\ stream.result # "none"
      BY <3>1 DEF Watched
    <3>3. QED
      BY <1>4, <3>1, <3>2 DEF Parse, Finish
  <2>6. QED
    BY <2>3, <2>4, <2>5
<1>5. ASSUME Taken PROVE IInv'
  <2>1. TypeOK' /\ Lives' /\ Watched'
    BY <1>5 DEF Taken, TypeOK, Lives, Watched
  <2>2. Known' = Known /\ Alive' = Alive
    BY <1>5 DEF Taken, Known, Alive, InGroup, Posix
  <2>3. (Barrier /\ SettledByResult)'
    BY <1>5, <2>2 DEF Taken, Barrier, SettledByResult
  <2>4. QED
    BY <2>1, <2>3
<1>6. QED
  BY <1>1, <1>2, <1>3, <1>4, <1>5

\* Nothing that happens to a call, its agent or its watchers breaks the invariant.
LEMMA StepInv == IInv /\ [Next]_vars => IInv'
<1> SUFFICES ASSUME IInv, [Next]_vars PROVE IInv'
  OBVIOUS
<1>1. CASE (\E p \in Providers : StartRun(p)) \/ BuildArgv \/ PreLaunchCheck \/ Spawn
  BY <1>1, LaunchSteps
<1>2. CASE AgentWrites \/ \E h \in Helpers : AgentForks(h) \/ HelperDetaches(h) \/ HelperEnds(h)
  BY <1>2, AgentSteps
<1>3. CASE RootEnds \/ RootKilled \/ Track \/ WatchPolls \/ WatchDecides
  BY <1>3, BesideSteps
<1>4. CASE Communicate \/ Timeout \/ TerminateAndProve \/ Parse \/ Taken
  BY <1>4, CallSteps
<1>5. CASE UNCHANGED vars
  BY <1>5 DEF vars, IInv, TypeOK, Lives, Barrier, Watched, SettledByResult, verdict, abandoned,
       Known, Alive, InGroup, Posix, Unborn
<1>6. QED
  BY <1>1, <1>2, <1>3, <1>4, <1>5 DEF Next

LEMMA Invariance == Spec => []IInv
  BY InitInv, StepInv, PTL DEF Spec

-----------------------------------------------------------------------------
(* The theorems.                                                            *)

\* Every variable of a call keeps its type (_adapter_base.py run, process.py).
THEOREM TypeCorrect == Spec => []TypeOK
<1>1. IInv => TypeOK
  BY DEF IInv
<1>2. QED
  BY <1>1, Invariance, PTL

\* Whatever interleaving of the agent's last lines, the settle watch, the kill
\* and the time limit: an agent the watch stopped is judged by its result.
THEOREM CallTheorem == Spec => []CallSafe
<1>1. IInv => CallSafe
  BY DEF IInv, CallSafe
<1>2. QED
  BY <1>1, Invariance, PTL

-----------------------------------------------------------------------------
(* The refinement: one named lemma per kind of step of the abstract call.   *)

\* Both modules speak of the same answers.
LEMMA SameAnswers ==
  /\ Call!NoOutcome = NoOutcome /\ Call!Providers = Providers
  /\ \A p, s : Call!Answers(p, s) = Answers(p, s)
<1>1. Call!NoOutcome = NoOutcome /\ Call!Providers = Providers /\ Call!NoReset = NoReset
  BY DEF Call!NoOutcome, NoOutcome, Call!Providers, Providers, Call!NoReset, NoReset
<1>2. \A c, r : Call!Raised(c, r) = Raised(c, r)
  BY DEF Call!Raised, Raised
<1>3. \A t : Call!Returned(t) = Returned(t)
  BY DEF Call!Returned, Returned, Call!NoReset, NoReset
<1>4. QED
  BY <1>1, <1>2, <1>3 DEF Call!Answers, Answers

\* A process is unborn until the call has spawned the CLI.
LEMMA InitCalls == Init => Call!CallInit
<1> SUFFICES ASSUME Init PROVE Call!CallInit
  OBVIOUS
<1>1. Survivors = FALSE
  BY DEF Init, Survivors, Alive, Living
<1>2. host.strict \in StrictModes /\ Phase = "idle"
  BY DEF Init, Phase
<1>3. QED
  BY <1>1, <1>2, SameAnswers DEF Init, Call!CallInit

LEMMA StartAsks ==
  ASSUME IInv, NEW p \in Providers, StartRun(p) PROVE Call!Ask(p)
<1>1. Survivors' = FALSE
  BY DEF StartRun, Survivors
<1>2. Phase = "idle" /\ Phase' = "working"
  BY DEF StartRun, Phase
<1>3. QED
  BY <1>1, <1>2, SameAnswers DEF Call!Ask, StartRun

\* Every way to finish a call is an answer; survivors mean containment_unverified.
LEMMA FinishAnswers ==
  ASSUME IInv, IInv', step \in {"argv", "canary", "parse"}, step' = "over",
         UNCHANGED <<host, prov>>, outcome' \in Answers(prov, host.strict)
  PROVE  Call!Answer
<1>1. Survivors' => outcome'.class = "containment_unverified"
  BY DEF IInv, Barrier, Survivors
<1>2. Survivors' \in BOOLEAN
  BY DEF Survivors
<1>3. Phase = "working" /\ Phase' = "over"
  BY DEF Phase
<1>4. QED
  BY <1>1, <1>2, <1>3, SameAnswers DEF Call!Answer

LEMMA TakenTakes ==
  ASSUME IInv, Taken PROVE Call!Take
<1>1. Known' = Known /\ Alive' = Alive
  BY DEF Taken, Known, Alive, InGroup, Posix
<1>2. QED
  BY <1>1 DEF Taken, Call!Take, Phase, Survivors

LEMMA HelperVanishes ==
  ASSUME IInv, NEW h \in Helpers, HelperDetaches(h) \/ HelperEnds(h)
  PROVE  Call!Vanish \/ UNCHANGED Call!callVars
<1>1. Known' \cap Alive' \subseteq Known \cap Alive
  BY HelperFades DEF IInv
<1>2. UNCHANGED <<host, step, prov, outcome>>
  BY DEF HelperDetaches, HelperEnds, AgentUnchanged
<1>3. UNCHANGED Phase /\ Survivors \in BOOLEAN /\ Survivors' \in BOOLEAN /\ (Survivors' => Survivors)
  BY <1>1, <1>2 DEF Phase, Survivors
<1>4. QED
  BY <1>2, <1>3 DEF Call!Vanish, Call!callVars

\* Everything else happens while the caller waits.
LEMMA WorkingStutters ==
  ASSUME step \in {"argv", "canary", "spawn", "wait", "drain", "prove", "parse"},
         step' \in {"argv", "canary", "spawn", "wait", "drain", "prove", "parse"},
         UNCHANGED <<host, prov, outcome>>
  PROVE  UNCHANGED Call!callVars
<1>1. UNCHANGED Phase /\ UNCHANGED Survivors
  BY DEF Phase, Survivors
<1>2. QED
  BY <1>1 DEF Call!callVars

LEMMA StepCalls == IInv /\ IInv' /\ [Next]_vars => [Call!CallNext]_Call!callVars
<1> SUFFICES ASSUME IInv, IInv', [Next]_vars PROVE [Call!CallNext]_Call!callVars
  OBVIOUS
<1>1. ASSUME NEW p \in Providers, StartRun(p) PROVE [Call!CallNext]_Call!callVars
  BY <1>1, StartAsks, SameAnswers DEF Call!CallNext
<1>2. CASE BuildArgv \/ PreLaunchCheck
  <2>1. CASE step' = "over"
    <3>1. outcome' \in Answers(prov, host.strict)
      BY <1>2, <2>1 DEF BuildArgv, PreLaunchCheck, Finish, Answers
    <3>2. step \in {"argv", "canary"} /\ UNCHANGED <<host, prov>>
      BY <1>2 DEF BuildArgv, PreLaunchCheck
    <3>3. QED
      BY <2>1, <3>1, <3>2, FinishAnswers DEF Call!CallNext
  <2>2. CASE step' # "over"
    <3>1. /\ step \in {"argv", "canary"} /\ step' \in {"canary", "spawn"}
          /\ UNCHANGED <<host, prov, outcome>>
      BY <1>2, <2>2 DEF BuildArgv, PreLaunchCheck, Finish
    <3>2. QED
      BY <3>1, WorkingStutters
  <2>3. QED
    BY <2>1, <2>2
<1>3. CASE Spawn \/ Communicate \/ Timeout \/ TerminateAndProve
  <2>1. /\ step \in {"spawn", "wait", "drain", "prove"} /\ step' \in {"wait", "drain", "prove", "parse"}
        /\ UNCHANGED <<host, prov, outcome>>
    BY <1>3 DEF Spawn, Communicate, Timeout, TerminateAndProve, WaitUnchanged
  <2>2. QED
    BY <2>1, WorkingStutters
<1>4. CASE AgentWrites \/ (\E h \in Helpers : AgentForks(h)) \/ RootEnds \/ RootKilled \/ Track
             \/ WatchPolls \/ WatchDecides
  <2>1. step \in {"wait", "drain"} /\ UNCHANGED <<step, host, prov, outcome>>
    BY <1>4 DEF AgentWrites, AgentForks, AgentUnchanged, RootEnds, RootKilled, Track, WatchPolls,
         WatchDecides, IInv, Lives
  <2>2. QED
    BY <2>1, WorkingStutters
<1>5. ASSUME NEW h \in Helpers, HelperDetaches(h) \/ HelperEnds(h)
      PROVE  [Call!CallNext]_Call!callVars
  BY <1>5, HelperVanishes DEF Call!CallNext
<1>6. CASE Parse
  <2>1. step = "parse" /\ step' = "over" /\ UNCHANGED <<host, prov>>
    BY <1>6 DEF Parse, Finish
  <2>2. outcome' \in Answers(prov, host.strict)
    BY <1>6, ParseAnswers DEF IInv
  <2>3. QED
    BY <2>1, <2>2, FinishAnswers DEF Call!CallNext
<1>7. CASE Taken
  BY <1>7, TakenTakes DEF Call!CallNext
<1>8. CASE UNCHANGED vars
  <2>1. UNCHANGED Phase /\ UNCHANGED Survivors
    BY <1>8 DEF vars, Phase, Survivors, Known, Alive, InGroup, Posix
  <2>2. QED
    BY <1>8, <2>1 DEF vars, Call!callVars
<1>9. QED
  BY <1>1, <1>2, <1>3, <1>4, <1>5, <1>6, <1>7, <1>8 DEF Next

\* The adapters over their containments implement the abstract call: one answer
\* per call, among those of the provider, and known processes left alive only
\* behind containment_unverified (_adapter_base.py run, process.py run_process).
THEOREM CallRefined == Spec => ImplementsCall
<1>1. Init => Call!CallInit
  BY InitCalls
<1>2. IInv /\ IInv' /\ [Next]_vars => [Call!CallNext]_Call!callVars
  BY StepCalls
<1>3. QED
  BY <1>1, <1>2, Invariance, PTL DEF Spec, ImplementsCall, Call!CallSpec

-----------------------------------------------------------------------------
(* The environment of a child.                                              *)

Loaded ==
  /\ security \in Securities /\ _validate_security(security)
  /\ envFile \in EnvFiles /\ links \in LinkSets

\* A variable of the process came from the shell or from the env-file, which defines it.
Held ==
  \A n \in DOMAIN environ :
    /\ n \in Names /\ _name_identity(n) = n
    /\ environ[n] \in Values /\ environ[n].of \in {"shell", "file"} /\ environ[n].path = <<>>
    /\ _name_identity(environ[n].name) = n
    /\ environ[n].of = "file" => n \in Identities(DOMAIN envFile)

Launched ==
  /\ up => defined = DOMAIN envFile /\ require_launch_environment(security)
  /\ child # NoChild => up

\* What was not assigned or pinned is the variable of the process as it is now, in
\* the child and in what the child printed.
Handed ==
  OnBehalf =>
    \A n \in DOMAIN child.env :
      child.env[n].of \in {"shell", "file"} => n \in DOMAIN environ /\ child.env[n] = environ[n]

Echoed ==
  \A l \in printed :
    l.value.of \in {"shell", "file"} => \E n \in DOMAIN environ : l.value = environ[n]

EnvInv == Loaded /\ Held /\ Launched /\ Handed /\ Echoed /\ EnvSafe

\* Folding keeps a name's segments, and what is folded stays as it is.
LEMMA NamesFolded ==
  ASSUME NEW n \in Names
  PROVE  /\ _name_identity(n) \in Names /\ _name_identity(n).segs = n.segs
         /\ _name_identity(_name_identity(n)) = _name_identity(n)
         /\ is_sensitive_key(_name_identity(n)) = is_sensitive_key(n)
  BY DEF _name_identity, Names, Named, is_sensitive_key

\* A validated configuration assigns a name once, and none that is secret or PATH.
LEMMA AssignedOnce ==
  ASSUME Loaded, NEW a \in DOMAIN security.extra
  PROVE  /\ a \in Names /\ security.extra[a] \in Values /\ security.extra[a].of = "assigned"
         /\ a.segs # PATH.segs /\ ~is_sensitive_key(a)
         /\ \A b \in DOMAIN security.extra : _name_identity(b) = _name_identity(a) => b = a
<1>1. a \in Names /\ security.extra[a] \in Values /\ security.extra[a].of = "assigned"
  BY EnvAssumption DEF Loaded
<1>2. /\ a.segs # PATH.segs /\ ~is_sensitive_key(a)
      /\ \A b \in DOMAIN security.extra : b.segs = a.segs => b = a
  BY DEF Loaded, _validate_security, _validate_extra_environment
<1>3. \A b \in DOMAIN security.extra : b \in Names
  BY EnvAssumption DEF Loaded
<1>4. \A b \in DOMAIN security.extra : _name_identity(b) = _name_identity(a) => b.segs = a.segs
  BY <1>1, <1>3, NamesFolded
<1>5. QED
  BY <1>1, <1>2, <1>4

\* What is assembled: the forwarded variables that are not assigned, and every
\* assignment once.
LEMMA Assembled ==
  ASSUME Loaded, NEW source, NEW forwarded, NEW env, env = _assemble(security, source, forwarded)
  PROVE  /\ \A n \in DOMAIN env :
              \/ /\ n \in forwarded /\ env[n] = source[n]
                 /\ _name_identity(n) \notin Identities(DOMAIN security.extra)
              \/ \E a \in DOMAIN security.extra :
                   /\ _name_identity(a) = _name_identity(n) /\ env[n] = security.extra[a]
                   /\ n \in forwarded \/ (n = a /\ _name_identity(n) \notin Identities(forwarded))
         /\ forwarded \subseteq DOMAIN env
         /\ \A a \in DOMAIN security.extra :
              \E n \in DOMAIN env : _name_identity(n) = _name_identity(a) /\ env[n] = security.extra[a]
<1> DEFINE extra == security.extra
           named == {a \in DOMAIN extra : _name_identity(a) \notin Identities(forwarded)}
<1>1. /\ DOMAIN env = forwarded \cup named
      /\ \A n \in DOMAIN env :
           env[n] = IF _name_identity(n) \in Identities(DOMAIN extra)
                    THEN extra[CHOOSE a \in DOMAIN extra : _name_identity(a) = _name_identity(n)]
                    ELSE source[n]
  BY DEF _assemble
<1>2. ASSUME NEW n \in DOMAIN env, NEW a \in DOMAIN extra, _name_identity(a) = _name_identity(n)
      PROVE  env[n] = extra[a]
  <2>1. _name_identity(n) \in Identities(DOMAIN extra)
    BY <1>2 DEF Identities
  <2>2. PICK b \in DOMAIN extra : /\ b = CHOOSE c \in DOMAIN extra : _name_identity(c) = _name_identity(n)
                                  /\ _name_identity(b) = _name_identity(n)
    BY <1>2
  <2>3. b = a
    BY <1>2, <2>2, AssignedOnce
  <2>4. QED
    BY <1>1, <2>1, <2>2, <2>3
<1>3. ASSUME NEW n \in DOMAIN env
      PROVE  \/ /\ n \in forwarded /\ env[n] = source[n]
                /\ _name_identity(n) \notin Identities(DOMAIN extra)
             \/ \E a \in DOMAIN extra :
                  /\ _name_identity(a) = _name_identity(n) /\ env[n] = extra[a]
                  /\ n \in forwarded \/ (n = a /\ _name_identity(n) \notin Identities(forwarded))
  <2>1. CASE _name_identity(n) \notin Identities(DOMAIN extra)
    <3>1. n \notin named
      BY <2>1 DEF Identities
    <3>2. QED
      BY <1>1, <2>1, <3>1
  <2>2. CASE _name_identity(n) \in Identities(DOMAIN extra)
    <3>1. PICK a \in DOMAIN extra : _name_identity(a) = _name_identity(n)
      BY <2>2 DEF Identities
    <3>2. n \in named => n \in DOMAIN extra /\ _name_identity(n) \notin Identities(forwarded)
      OBVIOUS
    <3>3. n \in named => env[n] = extra[n]
      BY <1>2, <3>2
    <3>4. env[n] = extra[a]
      BY <1>2, <3>1
    <3>5. QED
      BY <1>1, <3>1, <3>2, <3>3, <3>4
  <2>3. QED
    BY <2>1, <2>2
<1>4. ASSUME NEW a \in DOMAIN extra
      PROVE  \E n \in DOMAIN env : _name_identity(n) = _name_identity(a) /\ env[n] = extra[a]
  <2>1. CASE _name_identity(a) \in Identities(forwarded)
    <3>1. PICK n \in forwarded : _name_identity(n) = _name_identity(a)
      BY <2>1 DEF Identities
    <3>2. QED
      BY <1>1, <1>2, <3>1
  <2>2. CASE _name_identity(a) \notin Identities(forwarded)
    BY <1>1, <1>2, <2>2
  <2>3. QED
    BY <2>1, <2>2
<1>5. QED
  BY <1>1, <1>3, <1>4

ForAgents ==
  IF security.strict THEN _allowlisted_names(security, environ, TRUE)
  ELSE {n \in DOMAIN environ : _name_identity(n) \notin Identities(defined)}
ForGit == _allowlisted_names(security, environ, FALSE)

\* An entry that names a variable outright grants it under any spelling Windows folds.
LEMMA Outright ==
  ASSUME NEW s \in Securities, NEW source, NEW n \in expand_allowed_environment(s.allowed, source)
  PROVE  /\ n \in DOMAIN source
         /\ is_sensitive_key(n) => _name_identity(n) \in Identities(Spelled(s.allowed))
<1>1. PICK e \in s.allowed :
        IF env_pattern_prefix(e)
        THEN /\ IsPrefix(e.name.segs, n.segs) /\ (platform = "windows" \/ e.name.upper = n.upper)
             /\ ~is_sensitive_key(n)
        ELSE ~e.star /\ _name_identity(e.name) = _name_identity(n)
  BY DEF expand_allowed_environment
<1>2. CASE ~e.star /\ _name_identity(e.name) = _name_identity(n)
  BY <1>2 DEF Spelled, Identities, expand_allowed_environment
<1>3. QED
  BY <1>1, <1>2 DEF expand_allowed_environment

\* Nothing of the env-file, and under strict isolation nothing secret-named, is
\* forwarded to the agent's side unless it is granted.
LEMMA AgentsForwarded ==
  ASSUME Loaded, Held, NEW n \in ForAgents
  PROVE  /\ n \in DOMAIN environ
         /\ (environ[n].of = "file" /\ defined = DOMAIN envFile)
              \/ (security.strict /\ is_sensitive_key(n)) => Granted(n)
<1>1. n \in DOMAIN environ
  BY Outright DEF ForAgents, _allowlisted_names, Loaded
<1>2. ASSUME environ[n].of = "file", defined = DOMAIN envFile PROVE Granted(n)
  <2>1. _name_identity(n) \in Identities(defined)
    BY <1>1, <1>2 DEF Held
  <2>2. QED
    BY <2>1 DEF ForAgents, _allowlisted_names, Granted
<1>3. ASSUME security.strict, is_sensitive_key(n) PROVE Granted(n)
  <2>1. n \in expand_allowed_environment(security.allowed, environ)
    BY <1>3 DEF ForAgents, _allowlisted_names
  <2>2. QED
    BY <1>3, <2>1, Outright DEF Granted, Loaded
<1>4. QED
  BY <1>1, <1>2, <1>3

LEMMA GitForwarded == ASSUME Loaded, NEW n \in ForGit PROVE n \in DOMAIN environ
  BY Outright DEF ForGit, _allowlisted_names, Loaded

NeededToRun == {PATH} \cup IF platform = "windows" THEN {SystemRoot} ELSE {}

LEMMA NeededNames ==
  /\ PATH # Background /\ SystemRoot # Background
  /\ \A n \in {PATH, SystemRoot, Background} :
       /\ ~is_sensitive_key(n) /\ _name_identity(n) = n
       /\ n \notin _GIT_ENV_SCRUB /\ ~InNamespace(n)
<1>1. /\ PATH # Background /\ SystemRoot # Background
      /\ PATH.segs = <<"path">> /\ SystemRoot.segs = <<"systemroot">>
      /\ Background.segs = <<"claude", "background">>
      /\ PATH.upper /\ SystemRoot.upper /\ Background.upper
  <2>1. <<"path">> # <<"claude", "background">> /\ <<"systemroot">> # <<"claude", "background">>
    <3>1. <<"path">>[1] # <<"claude", "background">>[1] /\ <<"systemroot">>[1] # <<"claude", "background">>[1]
      OBVIOUS
    <3>2. QED
      BY <3>1
  <2>2. QED
    BY <2>1 DEF PATH, SystemRoot, Background, Named
<1>2. \A n \in {PATH, SystemRoot, Background} : _name_identity(n) = n
  BY DEF PATH, SystemRoot, Background, Named, _name_identity
<1>3. \A n \in {PATH, SystemRoot, Background} : ~is_sensitive_key(n)
  <2>1. \A s \in _SENSITIVE_SEGMENTS :
          /\ ~Contains(<<"path">>, s) /\ ~Contains(<<"systemroot">>, s)
          /\ ~Contains(<<"claude", "background">>, s)
    BY DEF _SENSITIVE_SEGMENTS, Contains
  <2>2. QED
    BY <1>1, <2>1 DEF is_sensitive_key
<1>4. \A n \in {PATH, SystemRoot, Background} : ~InNamespace(n)
  <2>1. \A p \in _GIT_ENV_NAMESPACE_PREFIXES :
          /\ ~IsPrefix(p, <<"path">>) /\ ~IsPrefix(p, <<"systemroot">>)
          /\ ~IsPrefix(p, <<"claude", "background">>)
    BY DEF _GIT_ENV_NAMESPACE_PREFIXES, IsPrefix
  <2>2. QED
    BY <1>1, <2>1 DEF InNamespace
<1>5. \A n \in {PATH, SystemRoot, Background} : n \notin _GIT_ENV_SCRUB
  <2>1. \A n \in _GIT_ENV_SCRUB : n.segs \in {<<"git", "dir">>, <<"gh", "repo">>, <<"ssh", "askpass">>}
    BY DEF _GIT_ENV_SCRUB, Named
  <2>2. QED
    BY <1>1, <2>1
<1>6. QED
  BY <1>1, <1>2, <1>3, <1>4, <1>5

\* The allowlist that passed its gates forwards what a child needs to run.
LEMMA NeededForwarded ==
  ASSUME Loaded, require_launch_environment(security), NEW n \in NeededToRun, n \in DOMAIN environ
  PROVE  /\ n \in ForGit
         /\ n \notin Identities(defined) => n \in ForAgents
<1>0. n \in {PATH, SystemRoot} /\ n.upper /\ ~is_sensitive_key(n) /\ _name_identity(n) = n
  <2>1. n \in {PATH, SystemRoot}
    BY DEF NeededToRun
  <2>2. PATH.upper /\ SystemRoot.upper
    BY DEF PATH, SystemRoot, Named
  <2>3. QED
    BY <2>1, <2>2, NeededNames
<1>a. security.allowed \subseteq [name : Names, star : BOOLEAN]
  BY EnvAssumption DEF Loaded
<1>1. \E e \in security.allowed :
        \/ ~e.star /\ _name_identity(e.name) = n
        \/ env_pattern_prefix(e) /\ IsPrefix(e.name.segs, n.segs) /\ (platform = "windows" \/ e.name.upper = n.upper)
  <2>1. CASE n = PATH
    <3>1. env_name_is_covered(security.allowed, PATH)
      BY DEF Loaded, _validate_security, _validate_allowed_environment
    <3>2. QED
      BY <1>0, <2>1, <3>1 DEF env_name_is_covered, Spelled
  <2>2. CASE n = SystemRoot /\ platform = "windows"
    <3> DEFINE folded == {[e EXCEPT !.name.upper = TRUE] : e \in security.allowed}
    <3>1. env_name_is_covered(folded, SystemRoot)
      BY <2>2 DEF require_launch_environment, launch_critical_env_issue
    <3>2. \E f \in folded : \/ ~f.star /\ f.name = SystemRoot
                            \/ env_pattern_prefix(f) /\ IsPrefix(f.name.segs, SystemRoot.segs)
      BY <3>1 DEF env_name_is_covered, Spelled
    <3>3. PICK e \in security.allowed :
            LET f == [e EXCEPT !.name.upper = TRUE]
            IN  \/ ~f.star /\ f.name = SystemRoot
                \/ env_pattern_prefix(f) /\ IsPrefix(f.name.segs, SystemRoot.segs)
      BY <3>2
    <3>4. /\ [e EXCEPT !.name.upper = TRUE].star = e.star
          /\ [e EXCEPT !.name.upper = TRUE].name = [segs |-> e.name.segs, upper |-> TRUE]
      BY <1>a DEF Names
    <3>5. \/ ~e.star /\ Named(e.name.segs) = SystemRoot
          \/ env_pattern_prefix(e) /\ IsPrefix(e.name.segs, SystemRoot.segs)
      BY <3>3, <3>4 DEF env_pattern_prefix, Named
    <3>6. QED
      BY <2>2, <3>5 DEF _name_identity
  <2>3. QED
    BY <2>1, <2>2 DEF NeededToRun
<1>2. PICK e \in security.allowed :
        \/ ~e.star /\ _name_identity(e.name) = n
        \/ env_pattern_prefix(e) /\ IsPrefix(e.name.segs, n.segs) /\ (platform = "windows" \/ e.name.upper = n.upper)
  BY <1>1
<1>3. n \in expand_allowed_environment(security.allowed, environ)
  BY <1>0, <1>2 DEF expand_allowed_environment, env_pattern_prefix
<1>4. QED
  BY <1>0, <1>3 DEF ForGit, ForAgents, _allowlisted_names

\* An adapter sets or removes the one variable that is its own.
LEMMA Augmented ==
  ASSUME NEW s, NEW program, NEW env, NEW out, out = _augment_child_env(s, program, env)
  PROVE  /\ \A n \in DOMAIN out :
              \/ n \in DOMAIN env /\ out[n] = env[n]
              \/ /\ out[n] = Value("pinned", n, FALSE)
                 /\ \/ program = "claude" /\ n = Background
                    \/ program = "codex" /\ n = PATH
         /\ \A n \in DOMAIN env :
              \/ n \in DOMAIN out /\ (out[n] = env[n] \/ (program = "codex" /\ n = PATH))
              \/ program = "claude" /\ n = Background
<1>1. CASE program = "claude" /\ s.background
  <2>1. out = [n \in DOMAIN env \ {Background} |-> env[n]]
    BY <1>1 DEF _augment_child_env, Restrict
  <2>2. QED
    BY <1>1, <2>1
<1>2. CASE program = "claude" /\ ~s.background
  <2>1. out = Over(Pinned({Background}), env)
    BY <1>2 DEF _augment_child_env
  <2>2. QED
    BY <1>2, <2>1 DEF Over, Pinned
<1>3. CASE program = "codex" /\ platform = "windows"
  <2>1. out = Over(Pinned({PATH}), env)
    BY <1>3 DEF _augment_child_env
  <2>2. QED
    BY <1>3, <2>1 DEF Over, Pinned
<1>4. CASE program # "claude" /\ ~(program = "codex" /\ platform = "windows")
  <2>1. out = env
    BY <1>4 DEF _augment_child_env
  <2>2. QED
    BY <2>1
<1>5. QED
  BY <1>1, <1>2, <1>3, <1>4

\* An assigned value of a launched process leads nowhere near its own files.
LEMMA ApartWhenLaunched ==
  ASSUME Loaded, require_launch_environment(security), NEW a \in DOMAIN security.extra,
         security.extra[a].path # <<>>, NEW p \in host_protected_paths
  PROVE  ~Overlap(_canonical(security.extra[a].path), p)
<1> DEFINE v == security.extra[a]
           w == [v EXCEPT !.path = _canonical(@)]
<1>1. v \in Values
  BY AssignedOnce
<1>2. w.path = _canonical(v.path)
  BY <1>1 DEF Values
<1>3. _canonical(v.path) # <<>>
  BY EnvAssumption DEF Loaded, _canonical
<1>4. ~Collides(w, host_protected_paths)
  BY DEF require_launch_environment
<1>5. QED
  BY <1>2, <1>3, <1>4 DEF Collides

\* What an agent or a check is given.
LEMMA AgentsGiven ==
  ASSUME Loaded, Held, defined = DOMAIN envFile, require_launch_environment(security),
         NEW program \in Agents \cup {"check"}, NEW env,
         env = _augment_child_env(security, program, build_child_env(security))
  PROVE  /\ \A n \in DOMAIN env :
              /\ env[n].of = "file" \/ (security.strict /\ is_sensitive_key(n)) => Granted(n)
              /\ env[n].of \in {"shell", "file"} => n \in DOMAIN environ /\ env[n] = environ[n]
              /\ \A p \in host_protected_paths :
                   env[n].path # <<>> => ~Overlap(_canonical(env[n].path), p)
         /\ \A a \in DOMAIN security.extra :
              \/ program = "claude" /\ _name_identity(a) = Background
              \/ \E n \in DOMAIN env : _name_identity(n) = _name_identity(a) /\ env[n] = security.extra[a]
         /\ \A m, n \in DOMAIN env :
              _name_identity(m) = _name_identity(n) =>
                m = n \/ (program = "claude" /\ _name_identity(n) = Background)
         /\ \A n \in NeededToRun :
              n \in DOMAIN environ /\ n \notin Identities(defined) => n \in DOMAIN env
<1> DEFINE extra == security.extra
           built == build_child_env(security)
<1>0. built = _assemble(security, environ, ForAgents)
  BY DEF build_child_env, ForAgents
<1>1. /\ \A n \in DOMAIN built :
           \/ /\ n \in ForAgents /\ built[n] = environ[n]
              /\ _name_identity(n) \notin Identities(DOMAIN extra)
           \/ \E a \in DOMAIN extra :
                /\ _name_identity(a) = _name_identity(n) /\ built[n] = extra[a]
                /\ n \in ForAgents \/ (n = a /\ _name_identity(n) \notin Identities(ForAgents))
      /\ ForAgents \subseteq DOMAIN built
      /\ \A a \in DOMAIN extra :
           \E n \in DOMAIN built : _name_identity(n) = _name_identity(a) /\ built[n] = extra[a]
  BY <1>0, Assembled
<1>2. /\ \A n \in DOMAIN env :
           \/ n \in DOMAIN built /\ env[n] = built[n]
           \/ /\ env[n] = Value("pinned", n, FALSE)
              /\ \/ program = "claude" /\ n = Background
                 \/ program = "codex" /\ n = PATH
      /\ \A n \in DOMAIN built :
           \/ n \in DOMAIN env /\ (env[n] = built[n] \/ (program = "codex" /\ n = PATH))
           \/ program = "claude" /\ n = Background
  BY Augmented
<1>3. \A n \in DOMAIN built :
        \/ n \in ForAgents /\ n \in DOMAIN environ /\ n \in Names /\ _name_identity(n) = n
        \/ n \in DOMAIN extra /\ ~is_sensitive_key(n) /\ built[n] = extra[n]
  <2>1. \A n \in ForAgents : n \in DOMAIN environ /\ n \in Names /\ _name_identity(n) = n
    BY AgentsForwarded DEF Held
  <2>2. QED
    BY <1>1, <2>1, AssignedOnce
<1>4. ASSUME NEW n \in DOMAIN env
      PROVE  /\ env[n].of = "file" \/ (security.strict /\ is_sensitive_key(n)) => Granted(n)
             /\ env[n].of \in {"shell", "file"} => n \in DOMAIN environ /\ env[n] = environ[n]
             /\ \A p \in host_protected_paths :
                  env[n].path # <<>> => ~Overlap(_canonical(env[n].path), p)
  <2>1. CASE env[n] = Value("pinned", n, FALSE) /\ n \in {Background, PATH}
    <3>1. env[n].of = "pinned" /\ env[n].path = <<>>
      BY <2>1 DEF Value
    <3>2. ~is_sensitive_key(n)
      BY <2>1, NeededNames
    <3>3. QED
      BY <3>1, <3>2
  <2>2. CASE n \in ForAgents /\ env[n] = environ[n]
    <3>1. n \in DOMAIN environ /\ environ[n].path = <<>>
      BY <2>2, AgentsForwarded DEF Held
    <3>2. QED
      BY <2>2, <3>1, AgentsForwarded
  <2>3. CASE \E a \in DOMAIN extra : /\ env[n] = extra[a]
                                     /\ n \in ForAgents \/ n = a
    <3>1. PICK a \in DOMAIN extra : env[n] = extra[a] /\ (n \in ForAgents \/ n = a)
      BY <2>3
    <3>2. env[n].of = "assigned" /\ ~is_sensitive_key(a)
      BY <3>1, AssignedOnce
    <3>3. \A p \in host_protected_paths :
            env[n].path # <<>> => ~Overlap(_canonical(env[n].path), p)
      BY <3>1, ApartWhenLaunched
    <3>4. n \in ForAgents /\ security.strict /\ is_sensitive_key(n) => Granted(n)
      BY AgentsForwarded
    <3>5. QED
      BY <3>1, <3>2, <3>3, <3>4
  <2>4. QED
    BY <1>1, <1>2, <2>1, <2>2, <2>3
<1>5. ASSUME NEW a \in DOMAIN extra
      PROVE  \/ program = "claude" /\ _name_identity(a) = Background
             \/ \E n \in DOMAIN env : _name_identity(n) = _name_identity(a) /\ env[n] = extra[a]
  <2>1. PICK n \in DOMAIN built : _name_identity(n) = _name_identity(a) /\ built[n] = extra[a]
    BY <1>1
  <2>2. n # PATH
    <3>1. a \in Names /\ a.segs # PATH.segs
      BY AssignedOnce
    <3>2. _name_identity(a).segs # PATH.segs
      BY <3>1, NamesFolded
    <3>3. QED
      BY <2>1, <3>2, NeededNames
  <2>3. n = Background => _name_identity(a) = Background
    BY <2>1, NeededNames
  <2>4. QED
    BY <1>2, <2>1, <2>2, <2>3
<1>6. ASSUME NEW m \in DOMAIN env, NEW n \in DOMAIN env, _name_identity(m) = _name_identity(n),
             ~(program = "claude" /\ _name_identity(n) = Background)
      PROVE  m = n
  <2>1. \A x \in {m, n} : x \in DOMAIN built \/ (x = PATH /\ _name_identity(x) = PATH)
    BY <1>2, <1>6, NeededNames
  <2>2. \A x \in DOMAIN extra : x \in Names /\ _name_identity(x) # PATH
    BY AssignedOnce, NamesFolded
  <2>3. ASSUME NEW x \in DOMAIN built, NEW y \in DOMAIN built, _name_identity(x) = _name_identity(y)
        PROVE  x = y
    <3>1. CASE x \in ForAgents /\ y \in ForAgents
      BY <2>3, <3>1, AgentsForwarded DEF Held
    <3>2. CASE x \notin ForAgents
      <4>1. x \in DOMAIN extra /\ _name_identity(x) \notin Identities(ForAgents)
        BY <1>1, <3>2
      <4>2. y \notin ForAgents
        BY <2>3, <4>1 DEF Identities
      <4>3. y \in DOMAIN extra
        BY <1>1, <4>2
      <4>4. QED
        BY <2>3, <4>1, <4>3, AssignedOnce
    <3>3. CASE y \notin ForAgents
      <4>1. y \in DOMAIN extra /\ _name_identity(y) \notin Identities(ForAgents)
        BY <1>1, <3>3
      <4>2. x \notin ForAgents
        BY <2>3, <4>1 DEF Identities
      <4>3. x \in DOMAIN extra
        BY <1>1, <4>2
      <4>4. QED
        BY <2>3, <4>1, <4>3, AssignedOnce
    <3>4. QED
      BY <3>1, <3>2, <3>3
  <2>4. \A x \in DOMAIN built : _name_identity(x) = PATH => x = PATH
    BY <1>3, <2>2
  <2>5. QED
    BY <1>6, <2>1, <2>3, <2>4
<1>7. ASSUME NEW n \in NeededToRun, n \in DOMAIN environ, n \notin Identities(defined)
      PROVE  n \in DOMAIN env
  <2>1. n \in ForAgents
    BY <1>7, NeededForwarded
  <2>2. n # Background
    BY NeededNames DEF NeededToRun
  <2>3. QED
    BY <1>1, <1>2, <2>1, <2>2
<1>8. QED
  BY <1>4, <1>5, <1>6, <1>7

\* What git and gh are given.
LEMMA GitGiven ==
  ASSUME Loaded, Held, require_launch_environment(security),
         NEW env, env = build_git_env(security)
  PROVE  /\ \A n \in DOMAIN env :
              /\ InNamespace(n) => env[n].of = "pinned"
              /\ _name_identity(n) \in _GIT_ENV_SCRUB \cup DOMAIN _GIT_HARDENING_ENV =>
                   \/ n \in DOMAIN _GIT_HARDENING_ENV /\ env[n].of = "pinned"
                   \/ n \in DOMAIN security.extra /\ n # _name_identity(n)
              /\ \A p \in host_protected_paths :
                   env[n].path # <<>> => ~Overlap(_canonical(env[n].path), p)
         /\ \A n \in NeededToRun : n \in DOMAIN environ => n \in DOMAIN env
<1> DEFINE extra == security.extra
           built == build_orchestrator_env(security)
           kept == {n \in DOMAIN built \ _GIT_ENV_SCRUB : ~InNamespace(n)}
           fixed == _GIT_HARDENING_ENV
<1>0. built = _assemble(security, environ, ForGit)
  BY DEF build_orchestrator_env, ForGit
<1>1. /\ \A n \in DOMAIN built :
           \/ n \in ForGit /\ built[n] = environ[n]
           \/ \E a \in DOMAIN extra : built[n] = extra[a] /\ (n \in ForGit \/ n = a)
      /\ ForGit \subseteq DOMAIN built
  BY <1>0, Assembled
<1>2. env = Over(fixed, Restrict(built, kept))
  BY DEF build_git_env
<1>3. /\ DOMAIN env = DOMAIN fixed \cup kept
      /\ \A n \in DOMAIN env : env[n] = IF n \in DOMAIN fixed THEN fixed[n] ELSE built[n]
  BY <1>2 DEF Over, Restrict
<1>4. \A n \in DOMAIN fixed : fixed[n].of = "pinned" /\ fixed[n].path = <<>>
  BY DEF _GIT_HARDENING_ENV, Pinned, Value
<1>5. \A n \in ForGit : n \in DOMAIN environ /\ _name_identity(n) = n /\ environ[n].path = <<>>
  BY GitForwarded DEF Held
<1>6. ASSUME NEW n \in DOMAIN env, n \notin DOMAIN fixed
      PROVE  /\ ~InNamespace(n)
             /\ _name_identity(n) \in _GIT_ENV_SCRUB \cup DOMAIN fixed =>
                  n \in DOMAIN extra /\ n # _name_identity(n)
             /\ \A p \in host_protected_paths :
                  env[n].path # <<>> => ~Overlap(_canonical(env[n].path), p)
  <2>1. n \in kept /\ env[n] = built[n]
    BY <1>3, <1>6
  <2>2. _name_identity(n) \in _GIT_ENV_SCRUB \cup DOMAIN fixed => n # _name_identity(n)
    BY <1>6, <2>1
  <2>3. CASE n \in ForGit /\ built[n] = environ[n]
    BY <1>5, <2>1, <2>2, <2>3
  <2>4. CASE \E a \in DOMAIN extra : built[n] = extra[a] /\ (n \in ForGit \/ n = a)
    <3>1. PICK a \in DOMAIN extra : built[n] = extra[a] /\ (n \in ForGit \/ n = a)
      BY <2>4
    <3>2. \A p \in host_protected_paths :
            env[n].path # <<>> => ~Overlap(_canonical(env[n].path), p)
      BY <2>1, <3>1, ApartWhenLaunched
    <3>3. QED
      BY <1>5, <2>1, <2>2, <3>1, <3>2
  <2>5. QED
    BY <1>1, <2>1, <2>3, <2>4
<1>7. ASSUME NEW n \in NeededToRun, n \in DOMAIN environ PROVE n \in DOMAIN env
  <2>1. n \in ForGit
    BY <1>7, NeededForwarded
  <2>2. n \notin _GIT_ENV_SCRUB /\ ~InNamespace(n)
    BY NeededNames DEF NeededToRun
  <2>3. QED
    BY <1>1, <1>3, <2>1, <2>2
<1>8. QED
  BY <1>3, <1>4, <1>6, <1>7

\* Without a child there is nothing of a child to answer for.
LEMMA Childless ==
  ASSUME child' = NoChild
  PROVE  (Handed /\ Withheld /\ AssignedStands /\ GitClosed /\ Launchable /\ AssignedApart)'
  BY DEF NoChild, Agents, OnBehalf, Handed, Withheld, AssignedStands, GitClosed, Launchable, AssignedApart

\* What a child has is not touched by what it prints, or takes away.
LEMMA ChildKept ==
  ASSUME EnvInv, UNCHANGED <<platform, security, links, envFile, up, environ, defined, child>>
  PROVE  /\ (Loaded /\ Held /\ Launched /\ Handed)'
         /\ (Withheld /\ AssignedStands /\ GitClosed /\ Launchable /\ AssignedApart)'
<1>1. (Loaded /\ Held)'
  BY DEF EnvInv, Loaded, Held, _validate_security, _validate_allowed_environment,
         _validate_extra_environment, _validate_assigned_paths, _name_identity, Identities
<1>2. (Launched /\ Handed)'
  BY DEF EnvInv, Launched, Handed, OnBehalf, require_launch_environment, launch_critical_env_issue, _canonical
<1>3. (Withheld /\ AssignedStands)'
  BY DEF EnvInv, EnvSafe, Withheld, AssignedStands, OnBehalf, Granted, _name_identity, Identities
<1>4. (GitClosed /\ Launchable /\ AssignedApart)'
  BY DEF EnvInv, EnvSafe, GitClosed, Launchable, AssignedApart, _name_identity, Identities, _canonical
<1>5. QED
  BY <1>1, <1>2, <1>3, <1>4

LEMMA EnvInitInv == EnvInit => EnvInv
<1> SUFFICES ASSUME EnvInit PROVE EnvInv
  OBVIOUS
<1>1. Loaded
  BY DEF EnvInit, Loaded
<1>2. PICK f \in Shells : environ = InEnviron(f)
  BY DEF EnvInit
<1>3. Held
  <2>1. Brought(f, "shell")
    BY EnvAssumption
  <2>2. ASSUME NEW n \in DOMAIN environ
        PROVE  \E m \in DOMAIN f : _name_identity(m) = n /\ environ[n] = f[m]
    BY <1>2 DEF InEnviron, Identities
  <2>3. QED
    BY <2>1, <2>2, NamesFolded DEF Held, Brought
<1>4. Launched /\ Echoed /\ Handed
  BY DEF EnvInit, Launched, Echoed, Handed, OnBehalf, NoChild, Agents
<1>5. EnvSafe
  BY DEF EnvInit, EnvSafe, EnvTypeOK, Withheld, SecretsScrubbed, AssignedStands, GitClosed,
         Launchable, AssignedApart, OnBehalf, NoChild, Agents
<1>6. QED
  BY <1>1, <1>3, <1>4, <1>5 DEF EnvInv

LEMMA BootInv == ASSUME EnvInv, Boot PROVE EnvInv'
<1> DEFINE brought == InEnviron(envFile)
<1>1. child = NoChild /\ child' = NoChild
  BY DEF EnvInv, Launched, Boot
<1>2. /\ UNCHANGED <<platform, security, links, envFile, child, readable, printed, written>>
      /\ up' = TRUE /\ defined' = DOMAIN envFile /\ environ' = Over(environ, brought)
      /\ require_launch_environment(security)
  BY DEF Boot, load_env_file
<1>3. Loaded'
  BY <1>2 DEF EnvInv, Loaded, _validate_security, _validate_allowed_environment,
              _validate_extra_environment, _validate_assigned_paths
<1>4. \A n : _name_identity(n)' = _name_identity(n)
  BY <1>2 DEF _name_identity
<1>5. Held'
  <2>1. Brought(envFile, "file")
    BY EnvAssumption DEF EnvInv, Loaded
  <2>2. ASSUME NEW n \in DOMAIN brought
        PROVE  \E m \in DOMAIN envFile : _name_identity(m) = n /\ brought[n] = envFile[m]
    BY DEF InEnviron, Identities
  <2>3. \A n \in DOMAIN brought :
          /\ n \in Names /\ _name_identity(n) = n
          /\ brought[n] \in Values /\ brought[n].of = "file" /\ brought[n].path = <<>>
          /\ _name_identity(brought[n].name) = n
          /\ n \in Identities(DOMAIN envFile)
    BY <2>1, <2>2, NamesFolded DEF Brought, InEnviron
  <2>4. /\ DOMAIN environ' = DOMAIN environ \cup DOMAIN brought
        /\ \A n \in DOMAIN environ' :
             environ'[n] = IF n \in DOMAIN environ THEN environ[n] ELSE brought[n]
    BY <1>2 DEF Over
  <2>5. Identities(DOMAIN envFile)' = Identities(DOMAIN envFile)
    BY <1>2 DEF Identities, _name_identity
  <2>6. Held
    BY DEF EnvInv
  <2>7. QED
    BY <1>4, <2>3, <2>4, <2>5, <2>6 DEF Held
<1>6. Launched'
  BY <1>1, <1>2 DEF Launched, require_launch_environment, launch_critical_env_issue, _canonical
<1>7. Echoed'
  BY <1>2 DEF EnvInv, Echoed, Over
<1>8. (EnvTypeOK /\ SecretsScrubbed)'
  BY <1>2 DEF EnvInv, EnvSafe, EnvTypeOK, SecretsScrubbed, Granted, _name_identity, Identities
<1>9. QED
  BY <1>1, <1>3, <1>5, <1>6, <1>7, <1>8, Childless DEF EnvInv, EnvSafe

LEMMA InheritInv == ASSUME EnvInv, Inherit PROVE EnvInv'
<1>1. /\ UNCHANGED <<platform, security, links, envFile, environ, child, readable, printed>>
      /\ child' = NoChild /\ ~up' /\ defined' = {} /\ written' = {}
  BY DEF Inherit
<1>2. Loaded'
  BY <1>1 DEF EnvInv, Loaded, _validate_security, _validate_allowed_environment,
              _validate_extra_environment, _validate_assigned_paths
<1>3. Held'
  BY <1>1 DEF EnvInv, Held, _name_identity, Identities
<1>4. (Launched /\ Echoed)'
  BY <1>1 DEF EnvInv, Launched, Echoed
<1>5. (EnvTypeOK /\ SecretsScrubbed)'
  BY <1>1 DEF EnvInv, EnvSafe, EnvTypeOK, SecretsScrubbed, NoChild, Inherit
<1>6. QED
  BY <1>1, <1>2, <1>3, <1>4, <1>5, Childless DEF EnvInv, EnvSafe

LEMMA StartAgentInv ==
  ASSUME EnvInv, NEW program \in Agents \cup {"check"}, StartAgent(program) PROVE EnvInv'
<1> DEFINE given == _augment_child_env(security, program, build_child_env(security))
<1>1. /\ UNCHANGED <<platform, security, links, envFile, up, environ, defined, readable>>
      /\ up /\ printed' = {} /\ written' = {}
      /\ child' = [program |-> program, env |-> given]
  BY DEF StartAgent
<1>2. child'.program = program /\ child'.env = given
  BY <1>1
<1>3. Loaded /\ Held /\ defined = DOMAIN envFile /\ require_launch_environment(security)
  BY <1>1 DEF EnvInv, Launched
<1>4. Loaded'
  BY <1>1, <1>3 DEF Loaded, _validate_security, _validate_allowed_environment,
              _validate_extra_environment, _validate_assigned_paths
<1>5. Held'
  BY <1>1, <1>3 DEF Held, _name_identity, Identities
<1>6. Launched'
  BY <1>1, <1>3 DEF Launched, require_launch_environment, launch_critical_env_issue, _canonical
<1>7. /\ \A n : _name_identity(n)' = _name_identity(n) /\ Granted(n)' = Granted(n)
      /\ Identities(defined)' = Identities(defined)
      /\ \A p : _canonical(p)' = _canonical(p)
  BY <1>1 DEF _name_identity, Granted, Identities, _canonical
<1>8. /\ \A n \in DOMAIN given :
           /\ given[n].of = "file" \/ (security.strict /\ is_sensitive_key(n)) => Granted(n)
           /\ given[n].of \in {"shell", "file"} => n \in DOMAIN environ /\ given[n] = environ[n]
           /\ \A p \in host_protected_paths :
                given[n].path # <<>> => ~Overlap(_canonical(given[n].path), p)
      /\ \A a \in DOMAIN security.extra :
           \/ program = "claude" /\ _name_identity(a) = Background
           \/ \E n \in DOMAIN given : _name_identity(n) = _name_identity(a) /\ given[n] = security.extra[a]
      /\ \A m, n \in DOMAIN given :
           _name_identity(m) = _name_identity(n) =>
             m = n \/ (program = "claude" /\ _name_identity(n) = Background)
      /\ \A n \in NeededToRun :
           n \in DOMAIN environ /\ n \notin Identities(defined) => n \in DOMAIN given
  BY <1>3, AgentsGiven
<1>9. (Handed /\ Withheld)'
  BY <1>1, <1>2, <1>7, <1>8 DEF Handed, Withheld
<1>10. AssignedStands'
  BY <1>1, <1>2, <1>7, <1>8 DEF AssignedStands
<1>11. Launchable'
  BY <1>1, <1>2, <1>7, <1>8 DEF Launchable, NeededToRun
<1>12. AssignedApart'
  BY <1>2, <1>7, <1>8 DEF AssignedApart
<1>13. (EnvTypeOK /\ SecretsScrubbed /\ Echoed /\ GitClosed)'
  BY <1>1, <1>2 DEF EnvInv, EnvSafe, EnvTypeOK, SecretsScrubbed, Echoed, GitClosed, Agents
<1>14. QED
  BY <1>4, <1>5, <1>6, <1>9, <1>10, <1>11, <1>12, <1>13 DEF EnvInv, EnvSafe

LEMMA StartGitInv == ASSUME EnvInv, StartGit PROVE EnvInv'
<1> DEFINE given == build_git_env(security)
<1>1. /\ UNCHANGED <<platform, security, links, envFile, up, environ, defined, readable, printed>>
      /\ up /\ written' = {}
      /\ child' = [program |-> "git", env |-> given]
  BY DEF StartGit
<1>2. child'.program = "git" /\ child'.env = given
  BY <1>1
<1>3. Loaded /\ Held /\ defined = DOMAIN envFile /\ require_launch_environment(security)
  BY <1>1 DEF EnvInv, Launched
<1>4. Loaded'
  BY <1>1, <1>3 DEF Loaded, _validate_security, _validate_allowed_environment,
              _validate_extra_environment, _validate_assigned_paths
<1>5. Held'
  BY <1>1, <1>3 DEF Held, _name_identity, Identities
<1>6. Launched'
  BY <1>1, <1>3 DEF Launched, require_launch_environment, launch_critical_env_issue, _canonical
<1>7. /\ \A n : _name_identity(n)' = _name_identity(n)
      /\ \A p : _canonical(p)' = _canonical(p)
  BY <1>1 DEF _name_identity, _canonical
<1>8. /\ \A n \in DOMAIN given :
           /\ InNamespace(n) => given[n].of = "pinned"
           /\ _name_identity(n) \in _GIT_ENV_SCRUB \cup DOMAIN _GIT_HARDENING_ENV =>
                \/ n \in DOMAIN _GIT_HARDENING_ENV /\ given[n].of = "pinned"
                \/ n \in DOMAIN security.extra /\ n # _name_identity(n)
           /\ \A p \in host_protected_paths :
                given[n].path # <<>> => ~Overlap(_canonical(given[n].path), p)
      /\ \A n \in NeededToRun : n \in DOMAIN environ => n \in DOMAIN given
  BY <1>3, GitGiven
<1>9. (Handed /\ Withheld /\ AssignedStands)'
  BY <1>2 DEF Handed, Withheld, AssignedStands, OnBehalf, Agents
<1>10. GitClosed'
  BY <1>1, <1>2, <1>7, <1>8 DEF GitClosed
<1>11. Launchable'
  BY <1>1, <1>2, <1>8 DEF Launchable, NeededToRun
<1>12. AssignedApart'
  BY <1>2, <1>7, <1>8 DEF AssignedApart
<1>13. (EnvTypeOK /\ SecretsScrubbed /\ Echoed)'
  BY <1>1, <1>2 DEF EnvInv, EnvSafe, EnvTypeOK, SecretsScrubbed, Echoed, Agents
<1>14. QED
  BY <1>4, <1>5, <1>6, <1>9, <1>10, <1>11, <1>12, <1>13 DEF EnvInv, EnvSafe

LEMMA RevealInv == ASSUME EnvInv, Reveal PROVE EnvInv'
<1>1. UNCHANGED <<platform, security, links, envFile, up, environ, defined, child, readable, written>>
  BY DEF Reveal
<1>2. Echoed'
  <2>1. \A l \in printed' :
          \/ l \in printed
          \/ \E n \in DOMAIN child.env : l.value = child.env[n]
          \/ l.value \in readable
    BY DEF Reveal
  <2>2. \A v \in readable : v.of = "denied"
    BY EnvAssumption DEF EnvInv, EnvSafe, EnvTypeOK
  <2>3. OnBehalf
    BY DEF Reveal, OnBehalf
  <2>4. QED
    BY <1>1, <2>1, <2>2, <2>3 DEF EnvInv, Echoed, Handed
<1>3. (EnvTypeOK /\ SecretsScrubbed)'
  BY <1>1 DEF EnvInv, EnvSafe, EnvTypeOK, SecretsScrubbed, Granted, _name_identity, Identities
<1>4. QED
  BY <1>1, <1>2, <1>3, ChildKept DEF EnvInv, EnvSafe

LEMMA RemoveDeniedInv == ASSUME EnvInv, RemoveDenied PROVE EnvInv'
<1>1. /\ UNCHANGED <<platform, security, links, envFile, up, environ, defined, child, printed, written>>
      /\ readable' = {}
  BY DEF RemoveDenied
<1>2. (EnvTypeOK /\ SecretsScrubbed /\ Echoed)'
  BY <1>1 DEF EnvInv, EnvSafe, EnvTypeOK, SecretsScrubbed, Echoed, Granted, _name_identity, Identities
<1>3. QED
  BY <1>1, <1>2, ChildKept DEF EnvInv, EnvSafe

\* What is written is scrubbed of every value that could be told from ordinary text.
LEMMA RecordStreamsInv == ASSUME EnvInv, RecordStreams PROVE EnvInv'
<1>1. /\ UNCHANGED <<platform, security, links, envFile, up, environ, defined, readable>>
      /\ child' = NoChild /\ printed' = {}
      /\ written' = redact_text(printed, _extra_secrets(security))
  BY DEF RecordStreams
<1>2. Loaded'
  BY <1>1 DEF EnvInv, Loaded, _validate_security, _validate_allowed_environment,
              _validate_extra_environment, _validate_assigned_paths
<1>3. Held'
  BY <1>1 DEF EnvInv, Held, _name_identity, Identities
<1>4. (Launched /\ Echoed)'
  BY <1>1 DEF EnvInv, Launched, Echoed, require_launch_environment, launch_critical_env_issue, _canonical
<1>5. ASSUME NEW l \in redact_text(printed, _extra_secrets(security))
      PROVE  /\ l.value.of \in {"shell", "file"} /\ is_sensitive_key(l.value.name)
                  => /\ l.assignment => ~_ASSIGNMENT(l.value.name)
                     /\ \/ ~l.value.long \/ Granted(l.value.name)
                        \/ _name_identity(l.value.name) \in _HARVEST_EXEMPT_NAMES
             /\ l.value \in readable \ Deep => ~l.value.long
  <2>1. /\ l \in printed /\ l.value \notin secret_env_values(security) \cup read_denied_secrets
        /\ ~(l.assignment /\ _ASSIGNMENT(l.value.name) /\ is_sensitive_key(l.value.name))
    BY DEF redact_text, _redact_assignment, _extra_secrets
  <2>2. l.value \in readable \ Deep => ~l.value.long
    BY <2>1 DEF read_denied_secrets
  <2>3. ASSUME l.value.of \in {"shell", "file"}, is_sensitive_key(l.value.name), l.value.long
        PROVE  \/ Granted(l.value.name)
               \/ _name_identity(l.value.name) \in _HARVEST_EXEMPT_NAMES
    <3>1. PICK n \in DOMAIN environ : l.value = environ[n]
      BY <2>1, <2>3 DEF EnvInv, Echoed
    <3>2. /\ _name_identity(n) = n /\ environ[n] \in Values
          /\ _name_identity(environ[n].name) = n
      BY DEF EnvInv, Held
    <3>3. l.value.name \in Names /\ _name_identity(l.value.name) = n
      BY <3>1, <3>2 DEF Values
    <3>4. is_sensitive_key(n)
      BY <2>3, <3>3, NamesFolded
    <3>5. n \in _HARVEST_EXEMPT_NAMES \/ (security.strict /\ n \in Spelled(security.allowed))
      BY <2>1, <2>3, <3>1, <3>4 DEF secret_env_values
    <3>6. n \in Spelled(security.allowed) => n \in Identities(Spelled(security.allowed))
      BY <3>2 DEF Identities
    <3>7. QED
      BY <3>3, <3>5, <3>6 DEF Granted
  <2>4. QED
    BY <2>1, <2>2, <2>3
<1>6. SecretsScrubbed'
  <2>1. \A n : _name_identity(n)' = _name_identity(n) /\ Granted(n)' = Granted(n)
    BY <1>1 DEF _name_identity, Granted, Identities
  <2>2. QED
    BY <1>1, <1>5, <2>1 DEF SecretsScrubbed
<1>7. EnvTypeOK'
  BY <1>1 DEF EnvInv, EnvSafe, EnvTypeOK, NoChild
<1>8. QED
  BY <1>1, <1>2, <1>3, <1>4, <1>6, <1>7, Childless DEF EnvInv, EnvSafe

LEMMA EnvStutter == ASSUME EnvInv, UNCHANGED envVars PROVE EnvInv'
<1>1. (EnvTypeOK /\ SecretsScrubbed /\ Echoed)'
  BY DEF envVars, EnvInv, EnvSafe, EnvTypeOK, SecretsScrubbed, Echoed, Granted, _name_identity, Identities
<1>2. QED
  BY <1>1, ChildKept DEF envVars, EnvInv, EnvSafe

\* For any configuration the loader accepts, any environment and env-file, and any
\* links of the host: a child has of the environment what the policy grants it, its
\* assignments stand, and what is recorded of its output is scrubbed.
THEOREM EnvironmentSafe == EnvSpec => []EnvSafe
<1>1. EnvInit => EnvInv
  BY EnvInitInv
<1>2. EnvInv /\ [EnvNext]_envVars => EnvInv'
  <2> SUFFICES ASSUME EnvInv, [EnvNext]_envVars PROVE EnvInv'
    OBVIOUS
  <2>1. CASE \E program \in Agents \cup {"check"} : StartAgent(program)
    BY <2>1, StartAgentInv
  <2>2. QED
    BY <2>1, BootInv, InheritInv, StartGitInv, RevealInv, RemoveDeniedInv, RecordStreamsInv,
       EnvStutter DEF EnvNext
<1>3. EnvInv => EnvSafe
  BY DEF EnvInv
<1>4. QED
  BY <1>1, <1>2, <1>3, PTL DEF EnvSpec

-----------------------------------------------------------------------------
(* The gates. The invariant says which log is whose, what has been recorded *)
(* of a run, which failure the fixer was sent with, what changed the tree   *)
(* since an agent did, and how long the same failure of a tool has lasted.  *)

CheckResults == {"pass", "fail", "launch", "skipped"}
Bad(r) == r.result \notin {"pass", "skipped"}

\* What GateTypeOK leaves to the actions: numbers, sequences and records.
GateKinds ==
  /\ setup.gate \in {"command", "citation", "dependency_scan", "tool"}
  /\ logs \in Seq([run : Nat, result : CheckResults])
  /\ runs \in Seq([result : CheckResults, log : Nat])
  /\ rows \in [failed : [result : CheckResults \cup {"none", "broken", "no_scan"}, log : Nat,
                         run : Nat, attempt : Nat], skipped : BOOLEAN]
  /\ ran.run \in Nat /\ DOMAIN ran = {"run", "how"}
  /\ evidence.run \in Nat
  /\ rounds \in [checks : Nat, tool : Nat] /\ attempt \in Nat
  /\ same.count \in Nat /\ told \in Seq(ToolResults)

\* The command profile is at its node while it works, and nobody else is at work.
Placed ==
  /\ during # "at" => spot = "checks" /\ setup.gate = "command" /\ state = "running"
  /\ during = "at" => touched = {} /\ runs = <<>>
  /\ spot \in {"checks", "fixing"} => setup.gate # "tool"
  /\ spot \in {"tool", "toolfix"} => setup.gate = "tool"
  /\ spot = "fixing" => setup.gate \in {"command", "citation"}

\* The logs of the latest run are those of its results, each in the file it names.
Numbered ==
  /\ \A j \in DOMAIN logs : logs[j].run <= ran.run
  /\ during # "at" =>
       /\ \A i \in DOMAIN runs : /\ runs[i].log \in DOMAIN logs
                                 /\ logs[runs[i].log] = [run |-> ran.run, result |-> runs[i].result]
       /\ \A j \in DOMAIN logs : logs[j].run = ran.run => \E i \in DOMAIN runs : runs[i].log = j

\* Of the results that are to be recorded the first k are.
RecordedTo(k) ==
  /\ todo = SubSeq(runs, k + 1, Len(runs))
  /\ (\E i \in 1..k : Bad(runs[i])) =>
       \E i \in 1..k : /\ Bad(runs[i])
                       /\ rows.failed = CheckRunRow(runs[i].result, runs[i].log, ran.run)
  /\ (\E i \in 1..k : runs[i].result = "skipped") => rows.skipped

Recording == during = "ran" => \E k \in 0..Len(runs) : RecordedTo(k)

PartialKnown == ran.how = "partial" => rows.skipped

\* A new process finds in the record what the fixer was sent with.
FixRecorded ==
  spot = "fixing" =>
    /\ rows.failed.run = ran.run
    /\ setup.gate = "command" => /\ rows.failed.result = "fail" /\ rows.failed.log \in DOMAIN logs
                                 /\ logs[rows.failed.log] = [run |-> ran.run, result |-> "fail"]
    /\ setup.gate = "citation" => /\ rows.failed.result = "broken" /\ rows.failed.log = 0
                                  /\ rows.failed.attempt = attempt

\* What has changed the tree since an agent did was seen by the run that goes on.
Seen == spot = "checks" /\ state = "running" => dirty \subseteq touched

\* The streak is the longest run of the same blind failure at the end of the history.
Streak ==
  LET n == Len(told) IN
  /\ same.count <= n
  /\ \A i \in (n - same.count + 1)..n : Blind(told[i]) /\ fingerprint(told[i]) = same.of
  /\ same.count < n =>
       \/ ~Blind(told[n - same.count])
       \/ same.count > 0 /\ fingerprint(told[n - same.count]) # same.of

GateInv ==
  /\ GateKinds /\ GateTypeOK /\ Placed /\ Numbered /\ Recording /\ PartialKnown /\ FixRecorded
  /\ Seen /\ Streak /\ FixerReadsThisFailure /\ EvidenceCurrent /\ SkippedNotMerged

\* A non-empty set of numbers has a least one.
LEMMA LeastIn ==
  ASSUME NEW S \in SUBSET Nat, S # {} PROVE Min(S) \in S
<1>1. PICK x \in S : \A y \in S : ~(<<y, x>> \in OpToRel(<, Nat))
  BY WFMin, NatLessThanWellFounded
<1>2. ASSUME NEW y \in S PROVE x <= y
  <2>1. x \in Nat /\ y \in Nat
    OBVIOUS
  <2>2. y < x => <<y, x>> \in OpToRel(<, Nat)
    BY <2>1 DEF OpToRel
  <2>3. ~(y < x)
    BY <1>1, <2>2
  <2>4. QED
    BY <2>1, <2>3
<1>3. QED
  BY <1>2 DEF Min

\* The first failed result, where there is one.
LEMMA FirstFailure ==
  ASSUME NEW rs \in Seq([result : CheckResults, log : Nat]), any_quality_failed(rs)
  PROVE  first_failure_log(rs) \in DOMAIN rs /\ rs[first_failure_log(rs)].result = "fail"
<1> DEFINE I == {i \in 1..Len(rs) : rs[i].result = "fail"}
<1>1. \E i \in DOMAIN rs : rs[i].result = "fail"
  BY DEF any_quality_failed, Results
<1>2. I # {} /\ I \in SUBSET Nat
  BY <1>1
<1>3. Min(I) \in I
  BY <1>2, LeastIn
<1>4. first_failure_log(rs) = Min(I)
  BY <1>2 DEF first_failure_log, SelectInSeq
<1>5. QED
  BY <1>3, <1>4

\* One more result of the tool: the same failure came n times in a row exactly when
\* the streak has reached n.
LEMMA StreakCounts ==
  ASSUME GateKinds, Streak, NEW r \in ToolResults, NEW s, s = NextStreak(r),
         NEW t, t = Append(told, r)
  PROVE  /\ s.count \in Nat /\ s.count <= Len(t) /\ t \in Seq(ToolResults) /\ Last(t) = r
         /\ \A i \in (Len(t) - s.count + 1)..Len(t) : Blind(t[i]) /\ fingerprint(t[i]) = s.of
         /\ s.count < Len(t) =>
              \/ ~Blind(t[Len(t) - s.count])
              \/ s.count > 0 /\ fingerprint(t[Len(t) - s.count]) # s.of
         /\ \A n \in Nat \ {0} : SameFailure(t, n) <=> Blind(r) /\ s.count >= n
<1> DEFINE L == Len(told)
           c == same.count
<1>1. /\ L \in Nat /\ c \in Nat /\ c <= L /\ Len(t) = L + 1 /\ t[L + 1] = r
      /\ t \in Seq(ToolResults) /\ \A i \in 1..L : t[i] = told[i]
  BY DEF GateKinds, Streak
<1>2. Last(t) = r
  BY <1>1 DEF Last
<1>3. /\ \A i \in (L - c + 1)..L : Blind(told[i]) /\ fingerprint(told[i]) = same.of
      /\ c < L => \/ ~Blind(told[L - c])
                  \/ c > 0 /\ fingerprint(told[L - c]) # same.of
  BY DEF Streak
<1>b. GateKinds /\ Streak
  OBVIOUS
<1> HIDE DEF L, c
<1>4. CASE ~Blind(r)
  <2>1. s.count = 0
    BY <1>4 DEF NextStreak, NoStreak
  <2>2. \A n \in Nat \ {0} : ~SameFailure(t, n)
    BY <1>1, <1>4 DEF SameFailure
  <2>3. QED
    BY <1>1, <1>2, <1>4, <2>1, <2>2
<1>5. CASE Blind(r) /\ c > 0 /\ same.of = fingerprint(r)
  <2>1. s.count = c + 1 /\ s.of = fingerprint(r)
    BY <1>5 DEF NextStreak, c
  <2>2. \A i \in (L - c + 1)..(L + 1) : Blind(t[i]) /\ fingerprint(t[i]) = fingerprint(r)
    <3>1. SUFFICES ASSUME NEW i \in (L - c + 1)..(L + 1)
                   PROVE  Blind(t[i]) /\ fingerprint(t[i]) = fingerprint(r)
      OBVIOUS
    <3>2. CASE i = L + 1
      BY <1>1, <1>5, <3>2
    <3>3. CASE i # L + 1
      <4>1. i \in (L - c + 1)..L /\ i \in 1..L
        BY <1>1, <3>3
      <4>2. QED
        BY <1>1, <1>3, <1>5, <4>1
    <3>4. QED
      BY <3>2, <3>3
  <2>3. c < L => /\ L - c \in 1..L
                 /\ ~Blind(t[L - c]) \/ fingerprint(t[L - c]) # fingerprint(r)
    BY <1>1, <1>3, <1>5
  <2>4. ASSUME NEW n \in Nat \ {0} PROVE SameFailure(t, n) <=> c + 1 >= n
    <3>1. CASE n <= c + 1
      <4>1. \A i \in (L + 1 - n + 1)..(L + 1) : i \in (L - c + 1)..(L + 1)
        BY <1>1, <3>1
      <4>2. QED
        BY <1>1, <1>2, <2>2, <3>1, <4>1 DEF SameFailure
    <3>2. CASE n > c + 1 /\ n <= L + 1
      <4>1. c < L /\ L - c \in (L + 1 - n + 1)..(L + 1)
        BY <1>1, <3>2
      <4>2. ~(Blind(t[L - c]) /\ fingerprint(t[L - c]) = fingerprint(Last(t)))
        BY <1>2, <2>3, <4>1
      <4>3. L - c \in (Len(t) - n + 1)..Len(t)
        BY <1>1, <4>1
      <4>4. ~SameFailure(t, n)
        BY <4>2, <4>3 DEF SameFailure
      <4>5. QED
        BY <1>1, <3>2, <4>4
    <3>3. CASE n > L + 1
      BY <1>1, <3>3 DEF SameFailure
    <3>4. QED
      BY <1>1, <3>1, <3>2, <3>3
  <2>5. Len(t) - s.count + 1 = L - c + 1 /\ Len(t) - s.count = L - c
    BY <1>1, <2>1
  <2>6. s.count < Len(t) => c < L
    BY <1>1, <2>1
  <2>7. QED
    BY <1>1, <1>2, <1>5, <2>1, <2>2, <2>3, <2>4, <2>5, <2>6
<1>6. CASE Blind(r) /\ ~(c > 0 /\ same.of = fingerprint(r))
  <2>1. s.count = 1 /\ s.of = fingerprint(r)
    BY <1>6 DEF NextStreak, c
  <2>2. L > 0 => ~Blind(t[L]) \/ fingerprint(t[L]) # fingerprint(r)
    <3>1. CASE c = 0
      BY <1>1, <1>3, <3>1
    <3>2. CASE c > 0 /\ L > 0
      <4>1. L \in (L - c + 1)..L
        BY <1>1, <3>2
      <4>2. QED
        BY <1>1, <1>3, <1>6, <3>2, <4>1
    <3>3. QED
      BY <1>1, <3>1, <3>2
  <2>3. ASSUME NEW n \in Nat \ {0} PROVE SameFailure(t, n) <=> 1 >= n
    <3>1. CASE n = 1
      BY <1>1, <1>2, <1>6, <3>1 DEF SameFailure
    <3>2. CASE n > 1 /\ n <= L + 1
      <4>1. L > 0 /\ L \in (L + 1 - n + 1)..(L + 1)
        BY <1>1, <3>2
      <4>2. QED
        BY <1>1, <1>2, <2>2, <3>2, <4>1 DEF SameFailure
    <3>3. CASE n > L + 1
      BY <1>1, <3>3 DEF SameFailure
    <3>4. QED
      BY <1>1, <3>1, <3>2, <3>3
  <2>4. \A i \in (L + 1)..(L + 1) : i = L + 1
    BY <1>1
  <2>5. QED
    BY <1>1, <1>2, <1>6, <2>1, <2>2, <2>3, <2>4
<1>7. QED
  BY <1>4, <1>5, <1>6

LEMMA GateInitInv == GateInit => GateInv
<1> SUFFICES ASSUME GateInit PROVE GateInv
  OBVIOUS
<1>1. GateKinds
  BY DEF GateInit, GateKinds, NoRow, NoRun, NoEvidence, NoStreak
<1>2. GateTypeOK
  BY GateAssumption DEF GateInit, GateTypeOK, NoRow, NoRun, NoEvidence, NoStreak
<1>3. Placed /\ Numbered /\ Recording /\ PartialKnown /\ FixRecorded /\ Seen
  BY DEF GateInit, Placed, Numbered, Recording, PartialKnown, FixRecorded, Seen, NoRun
<1>4. Streak
  BY DEF GateInit, Streak, NoStreak
<1>5. FixerReadsThisFailure /\ EvidenceCurrent /\ SkippedNotMerged
  BY DEF GateInit, FixerReadsThisFailure, EvidenceCurrent, SkippedNotMerged
<1>6. QED
  BY <1>1, <1>2, <1>3, <1>4, <1>5 DEF GateInv

\* A round charged stays within the budget, and a loop that may not go on stops.
LEMMA Charged ==
  ASSUME GateKinds, GateTypeOK, NEW loop \in {"checks", "tool"}, NEW budget \in Nat, NEW to,
         Charge(loop, budget, to)
  PROVE  /\ rounds' \in [checks : Nat, tool : Nat]
         /\ \A l \in {"checks", "tool"} \ {loop} : rounds'[l] = rounds[l]
         /\ rounds'[loop] <= budget \/ rounds'[loop] = rounds[loop]
         /\ \/ spot' = to /\ state' = state
            \/ spot' = spot /\ state' = "manual" /\ rounds[loop] >= budget
  BY DEF GateKinds, Charge

\* An action that leaves the history of the tool alone.
LEMMA StreakKept ==
  ASSUME GateInv, UNCHANGED <<same, told>> PROVE Streak'
  BY DEF GateInv, Streak

LEMMA MemberOf ==
  ASSUME NEW S, NEW q \in Seq(S), NEW i \in 1..Len(q) PROVE q[i] \in S
  OBVIOUS

LEMMA LogsKnown ==
  ASSUME GateKinds
  PROVE  /\ ran.run \in Nat /\ Len(logs) \in Nat /\ DOMAIN logs = 1..Len(logs)
         /\ \A j \in DOMAIN logs : logs[j].run \in Nat /\ logs[j].result \in CheckResults
         /\ Len(runs) \in Nat /\ DOMAIN runs = 1..Len(runs)
         /\ \A i \in DOMAIN runs : runs[i].log \in Nat /\ runs[i].result \in CheckResults
<1>1. logs \in Seq([run : Nat, result : CheckResults]) /\ runs \in Seq([result : CheckResults, log : Nat])
  BY DEF GateKinds
<1>0. /\ DOMAIN logs = 1..Len(logs) /\ Len(logs) \in Nat
      /\ DOMAIN runs = 1..Len(runs) /\ Len(runs) \in Nat
  BY <1>1
<1>2. \A j \in DOMAIN logs : logs[j] \in [run : Nat, result : CheckResults]
  BY <1>1, <1>0, MemberOf
<1>3. \A i \in DOMAIN runs : runs[i] \in [result : CheckResults, log : Nat]
  BY <1>1, <1>0, MemberOf
<1>4. QED
  BY <1>0, <1>2, <1>3 DEF GateKinds

LEMMA NothingToCheckInv == ASSUME GateInv, NothingToCheck PROVE GateInv'
<1> USE DEF NothingToCheck, At, Opened, Pass, GateInv
<1>1. (GateKinds /\ GateTypeOK)'
  BY GateAssumption DEF GateKinds, GateTypeOK
<1>2. (Placed /\ Recording /\ PartialKnown /\ FixRecorded /\ Seen)'
  BY DEF Placed, Recording, PartialKnown, FixRecorded, Seen, GateKinds
<1>5. Numbered'
  BY LogsKnown DEF Numbered, Placed
<1>3. (FixerReadsThisFailure /\ EvidenceCurrent /\ SkippedNotMerged)'
  BY DEF FixerReadsThisFailure, EvidenceCurrent, SkippedNotMerged
<1>4. QED
  BY <1>1, <1>2, <1>3, <1>5, StreakKept

LEMMA BeginChecksInv == ASSUME GateInv, BeginChecks PROVE GateInv'
<1> USE DEF BeginChecks, At, Opened, GateInv
<1>1. (GateKinds /\ GateTypeOK)'
  BY GateAssumption DEF GateKinds, GateTypeOK
<1>2. (Placed /\ Recording /\ PartialKnown /\ FixRecorded)'
  BY DEF Placed, Recording, PartialKnown, FixRecorded, GateKinds
<1>6. Numbered'
  <2>1. \A j \in DOMAIN logs : logs[j].run \in Nat /\ logs[j].run <= ran.run
    BY LogsKnown DEF Numbered
  <2>2. ran'.run = ran.run + 1 /\ ran.run \in Nat /\ runs' = <<>> /\ logs' = logs
    BY LogsKnown
  <2>3. QED
    BY <2>1, <2>2 DEF Numbered
<1>3. Seen'
  BY DEF Seen, Placed
<1>4. (FixerReadsThisFailure /\ EvidenceCurrent /\ SkippedNotMerged)'
  BY DEF FixerReadsThisFailure, EvidenceCurrent, SkippedNotMerged
<1>5. QED
  BY <1>1, <1>2, <1>3, <1>4, <1>6, StreakKept

LEMMA RunCheckInv == ASSUME GateInv, RunCheck PROVE GateInv'
<1>0. /\ during = "running" /\ spot = "checks" /\ setup.gate = "command" /\ state = "running"
      /\ UNCHANGED <<setup, spot, state, changed, rows, evidence, same, rounds, told, ran, cuts,
                     restored, attempt>>
  BY DEF GateInv, Placed, RunCheck
<1>1. PICK r \in CheckResults, d \in {{}} \cup {{x} : x \in Rewrites} :
        /\ logs' = Append(logs, [run |-> ran.run, result |-> r])
        /\ runs' = Append(runs, [result |-> r, log |-> Len(logs) + 1])
        /\ touched' = touched \cup d /\ dirty' = dirty \cup d
  BY DEF RunCheck, CheckResult, CheckResults
<1>2. \/ during' = "ran" /\ todo' = runs'
      \/ during' = "running"
  BY <1>0 DEF RunCheck
<1>3. /\ Len(logs') = Len(logs) + 1 /\ DOMAIN logs' = 1..(Len(logs) + 1)
      /\ \A j \in DOMAIN logs : logs'[j] = logs[j]
      /\ logs'[Len(logs) + 1] = [run |-> ran.run, result |-> r]
      /\ logs' \in Seq([run : Nat, result : CheckResults])
  <2>1. [run |-> ran.run, result |-> r] \in [run : Nat, result : CheckResults]
    BY LogsKnown DEF GateInv
  <2>2. logs \in Seq([run : Nat, result : CheckResults])
    BY DEF GateInv, GateKinds
  <2>3. QED
    BY <1>1, <2>1, <2>2
<1>4. /\ Len(runs') = Len(runs) + 1 /\ DOMAIN runs' = 1..(Len(runs) + 1)
      /\ \A i \in DOMAIN runs : runs'[i] = runs[i]
      /\ runs'[Len(runs) + 1] = [result |-> r, log |-> Len(logs) + 1]
      /\ runs' \in Seq([result : CheckResults, log : Nat])
  <2>1. [result |-> r, log |-> Len(logs) + 1] \in [result : CheckResults, log : Nat]
    BY LogsKnown DEF GateInv
  <2>2. runs \in Seq([result : CheckResults, log : Nat])
    BY DEF GateInv, GateKinds
  <2>3. QED
    BY <1>1, <2>1, <2>2
<1>5. /\ DOMAIN logs = 1..Len(logs) /\ Len(logs) \in Nat
      /\ DOMAIN runs = 1..Len(runs) /\ Len(runs) \in Nat
      /\ ran.run \in Nat
  BY LogsKnown DEF GateInv
<1>6. GateKinds'
  BY <1>0, <1>3, <1>4 DEF GateInv, GateKinds
<1>7. Numbered'
  <2>1. \A j \in DOMAIN logs' : j \in DOMAIN logs \/ j = Len(logs) + 1
    BY <1>3, <1>5
  <2>2. \A i \in DOMAIN runs' : i \in DOMAIN runs \/ i = Len(runs) + 1
    BY <1>4, <1>5
  <2>3. \A j \in DOMAIN logs' : logs'[j].run <= ran.run
    BY <1>3, <1>5, <2>1 DEF GateInv, Numbered
  <2>4. \A i \in DOMAIN runs' : /\ runs'[i].log \in DOMAIN logs'
                                /\ logs'[runs'[i].log] = [run |-> ran.run, result |-> runs'[i].result]
    <3>1. SUFFICES ASSUME NEW i \in DOMAIN runs'
                   PROVE  /\ runs'[i].log \in DOMAIN logs'
                          /\ logs'[runs'[i].log] = [run |-> ran.run, result |-> runs'[i].result]
      OBVIOUS
    <3>2. CASE i \in DOMAIN runs
      <4>1. runs[i].log \in DOMAIN logs /\ logs[runs[i].log] = [run |-> ran.run, result |-> runs[i].result]
        BY <1>0, <3>2 DEF GateInv, Numbered
      <4>2. runs[i].log \in DOMAIN logs' /\ logs'[runs[i].log] = logs[runs[i].log]
        BY <1>3, <1>5, <4>1
      <4>3. QED
        BY <1>4, <3>2, <4>1, <4>2
    <3>3. CASE i = Len(runs) + 1
      BY <1>3, <1>4, <1>5, <3>3
    <3>4. QED
      BY <2>2, <3>2, <3>3
  <2>5. \A j \in DOMAIN logs' : logs'[j].run = ran.run => \E i \in DOMAIN runs' : runs'[i].log = j
    <3>1. \A j \in DOMAIN logs : logs[j].run = ran.run => \E i \in DOMAIN runs : runs[i].log = j
      BY <1>0 DEF GateInv, Numbered
    <3>2. DOMAIN runs \subseteq DOMAIN runs' /\ Len(runs) + 1 \in DOMAIN runs'
      BY <1>4, <1>5
    <3>3. runs'[Len(runs) + 1].log = Len(logs) + 1
      BY <1>4
    <3>4. QED
      BY <1>3, <1>4, <2>1, <3>1, <3>2, <3>3
  <2>6. ran' = ran
    BY <1>0
  <2>7. QED
    BY <2>3, <2>4, <2>5, <2>6 DEF Numbered
<1>8. Recording'
  <2>1. during' = "ran" => RecordedTo(0)'
    <3>1. ASSUME during' = "ran" PROVE todo' = SubSeq(runs', 1, Len(runs'))
      BY <1>2, <1>4, <3>1
    <3>2. QED
      BY <3>1 DEF RecordedTo
  <2>2. 0 \in 0..Len(runs')
    BY <1>4, <1>5
  <2>3. QED
    BY <2>1, <2>2 DEF Recording
<1>9. GateTypeOK'
  <2>1. \A i \in DOMAIN runs' : runs'[i].log \in DOMAIN logs'
    BY <1>0, <1>2, <1>7 DEF Numbered
  <2>2. d \subseteq {"tracked", "fresh"}
    BY GateAssumption
  <2>3. QED
    BY <1>0, <1>1, <1>2, <2>1, <2>2 DEF GateInv, GateTypeOK
<1>10. (Placed /\ PartialKnown /\ FixRecorded /\ Seen)'
  BY <1>0, <1>1, <1>2 DEF GateInv, Placed, PartialKnown, FixRecorded, Seen
<1>11. (FixerReadsThisFailure /\ EvidenceCurrent /\ SkippedNotMerged)'
  BY <1>0 DEF GateInv, FixerReadsThisFailure, EvidenceCurrent, SkippedNotMerged
<1>12. QED
  BY <1>0, <1>6, <1>7, <1>8, <1>9, <1>10, <1>11, StreakKept DEF GateInv

LEMMA RecordInv == ASSUME GateInv, Record PROVE GateInv'
<1>0. /\ during = "ran" /\ spot = "checks" /\ setup.gate = "command" /\ state = "running"
      /\ todo # <<>> /\ todo' = Tail(todo)
      /\ rows' = record_check_run(CheckRunRow(Head(todo).result, Head(todo).log, ran.run))
      /\ UNCHANGED <<setup, spot, during, state, changed, runs, touched, logs, evidence, same,
                     rounds, told, dirty, ran, cuts, restored, attempt>>
  BY DEF GateInv, Placed, Record
<1>1. PICK k \in 0..Len(runs) : RecordedTo(k)
  BY <1>0 DEF GateInv, Recording
<1>2. /\ Len(runs) \in Nat /\ DOMAIN runs = 1..Len(runs)
      /\ runs \in Seq([result : CheckResults, log : Nat])
  BY LogsKnown DEF GateInv, GateKinds
<1>3. k + 1 \in 1..Len(runs) /\ Head(todo) = runs[k + 1] /\ todo' = SubSeq(runs, k + 2, Len(runs))
  <2>1. todo = SubSeq(runs, k + 1, Len(runs))
    BY <1>1 DEF RecordedTo
  <2>2. k < Len(runs)
    BY <1>0, <1>2, <2>1
  <2>3. k \in Nat /\ k + 1 \in 1..Len(runs)
    BY <1>2, <2>2
  <2>4. Head(todo) = runs[k + 1]
    BY <1>2, <2>1, <2>3
  <2>5. Tail(todo) = SubSeq(runs, k + 2, Len(runs))
    BY <1>2, <2>1, <2>3
  <2>6. QED
    BY <1>0, <2>3, <2>4, <2>5
<1> DEFINE x == runs[k + 1]
<1>4. x \in [result : CheckResults, log : Nat]
  BY <1>2, <1>3, MemberOf
<1>5. /\ rows'.failed = IF Bad(x) THEN CheckRunRow(x.result, x.log, ran.run) ELSE rows.failed
      /\ rows'.skipped = (rows.skipped \/ x.result = "skipped")
  BY <1>0, <1>3 DEF record_check_run, Bad, CheckRunRow
<1>6. GateKinds'
  <2>1. CheckRunRow(x.result, x.log, ran.run)
          \in [result : CheckResults \cup {"none", "broken", "no_scan"}, log : Nat, run : Nat, attempt : Nat]
    BY <1>4 DEF CheckRunRow, GateInv, GateKinds
  <2>2. /\ rows.skipped \in BOOLEAN
        /\ rows.failed \in [result : CheckResults \cup {"none", "broken", "no_scan"}, log : Nat,
                            run : Nat, attempt : Nat]
    BY DEF GateInv, GateKinds
  <2>3. rows' \in [failed : [result : CheckResults \cup {"none", "broken", "no_scan"}, log : Nat,
                             run : Nat, attempt : Nat], skipped : BOOLEAN]
    BY <1>0, <1>3, <2>1, <2>2 DEF record_check_run, CheckRunRow
  <2>4. QED
    BY <1>0, <2>3 DEF GateInv, GateKinds
<1>7. RecordedTo(k + 1)'
  <2>1. \A i \in 1..(k + 1) : i \in 1..k \/ i = k + 1
    BY <1>3
  <2>2. k + 1 \in 1..(k + 1) /\ 1..k \subseteq 1..(k + 1)
    BY <1>3
  <2>3. (\E i \in 1..(k + 1) : Bad(runs[i])) =>
          \E i \in 1..(k + 1) : /\ Bad(runs[i])
                                /\ rows'.failed = CheckRunRow(runs[i].result, runs[i].log, ran.run)
    <3>1. CASE Bad(x)
      BY <1>5, <2>2, <3>1
    <3>2. CASE ~Bad(x)
      BY <1>1, <1>5, <2>1, <2>2, <3>2 DEF RecordedTo
    <3>3. QED
      BY <3>1, <3>2
  <2>4. (\E i \in 1..(k + 1) : runs[i].result = "skipped") => rows'.skipped
    BY <1>1, <1>5, <2>1 DEF RecordedTo
  <2>5. todo' = SubSeq(runs, k + 1 + 1, Len(runs))
    BY <1>3
  <2>6. runs' = runs /\ ran' = ran /\ attempt' = attempt
    BY <1>0
  <2>7. QED
    BY <2>3, <2>4, <2>5, <2>6 DEF RecordedTo, Bad, CheckRunRow
<1>8. Recording'
  BY <1>0, <1>2, <1>3, <1>7 DEF Recording
<1>9. GateTypeOK'
  <2>1. /\ rows.failed.attempt <= attempt /\ rows.failed.run <= ran.run
        /\ attempt \in Nat /\ ran.run \in Nat
    BY DEF GateInv, GateTypeOK, GateKinds
  <2>2. rows'.failed.attempt <= attempt /\ rows'.failed.run <= ran.run
    BY <1>5, <2>1 DEF CheckRunRow
  <2>3. QED
    BY <1>0, <2>2 DEF GateInv, GateTypeOK
<1>10. (Placed /\ Numbered /\ PartialKnown /\ FixRecorded /\ Seen)'
  <2>1. Numbered'
    BY <1>0 DEF GateInv, Numbered
  <2>2. (Placed /\ PartialKnown /\ FixRecorded /\ Seen)'
    BY <1>0, <1>5 DEF GateInv, Placed, PartialKnown, FixRecorded, Seen
  <2>3. QED
    BY <2>1, <2>2
<1>11. (FixerReadsThisFailure /\ EvidenceCurrent /\ SkippedNotMerged)'
  BY <1>0 DEF GateInv, FixerReadsThisFailure, EvidenceCurrent, SkippedNotMerged
<1>12. QED
  BY <1>0, <1>6, <1>8, <1>9, <1>10, <1>11, StreakKept DEF GateInv

LEMMA RestEmpty ==
  ASSUME NEW S, NEW q \in Seq(S), NEW k \in 0..Len(q), SubSeq(q, k + 1, Len(q)) = <<>>
  PROVE  k = Len(q)
<1>1. Len(q) \in Nat
  OBVIOUS
<1>2. k < Len(q) => Len(SubSeq(q, k + 1, Len(q))) = Len(q) - k
  BY <1>1
<1>3. Len(SubSeq(q, k + 1, Len(q))) = 0
  OBVIOUS
<1>4. QED
  BY <1>1, <1>2, <1>3

LEMMA ConcludeChecksInv == ASSUME GateInv, ConcludeChecks PROVE GateInv'
<1>0. /\ during = "ran" /\ spot = "checks" /\ setup.gate = "command" /\ state = "running"
      /\ todo = <<>> /\ during' = "at" /\ runs' = <<>> /\ touched' = {} /\ restored' = FALSE
      /\ ran' = [ran EXCEPT !.how = IF "skipped" \in Results(runs) THEN "partial" ELSE "checked"]
      /\ UNCHANGED <<setup, changed, todo, logs, rows, same, told, dirty, cuts, attempt>>
  BY DEF GateInv, Placed, ConcludeChecks
<1>1. PICK k \in 0..Len(runs) : RecordedTo(k)
  BY <1>0 DEF GateInv, Recording
<1>2. /\ Len(runs) \in Nat /\ DOMAIN runs = 1..Len(runs) /\ ran.run \in Nat
      /\ DOMAIN logs = 1..Len(logs) /\ Len(logs) \in Nat
      /\ runs \in Seq([result : CheckResults, log : Nat])
      /\ \A i \in DOMAIN runs : runs[i].log \in Nat /\ runs[i].result \in CheckResults
  BY LogsKnown DEF GateInv, GateKinds
<1>3. k = Len(runs)
  <2>1. todo = SubSeq(runs, k + 1, Len(runs))
    BY <1>1 DEF RecordedTo
  <2>2. QED
    BY <1>0, <1>2, <2>1, RestEmpty
<1>4. /\ ran'.run = ran.run /\ DOMAIN ran' = {"run", "how"}
      /\ ran'.how = IF "skipped" \in Results(runs) THEN "partial" ELSE "checked"
  BY <1>0 DEF GateInv, GateKinds
<1>5. "skipped" \in Results(runs) => rows.skipped
  BY <1>1, <1>2, <1>3 DEF RecordedTo, Results
<1>6. \/ /\ _aggregate(runs) = "fail" /\ any_quality_failed(runs) /\ ~any_launch_failed(runs)
         /\ evidence' = Log(runs[first_failure_log(runs)].log)
         /\ Charge("checks", FixBudget, "fixing")
      \/ /\ _aggregate(runs) # "fail" /\ evidence' = evidence /\ rounds' = rounds
         /\ spot' = "checks" /\ state' = "manual"
      \/ /\ _aggregate(runs) # "fail" /\ ~_mutated_working_tree /\ evidence' = Report(ran.run)
         /\ rounds' = rounds /\ spot' = "review" /\ state' = "running"
  BY <1>0 DEF ConcludeChecks, Manual, Pass, _publish_first_failure_log, _publish_command_report, _aggregate
<1>7. \A j \in DOMAIN logs : logs[j].run = ran.run =>
        \E i \in DOMAIN runs : runs[i].log = j /\ logs[j] = [run |-> ran.run, result |-> runs[i].result]
  <2>1. \A i \in DOMAIN runs : logs[runs[i].log] = [run |-> ran.run, result |-> runs[i].result]
    BY <1>0 DEF GateInv, Numbered
  <2>2. \A j \in DOMAIN logs : logs[j].run = ran.run => \E i \in DOMAIN runs : runs[i].log = j
    BY <1>0 DEF GateInv, Numbered
  <2>3. ASSUME NEW j \in DOMAIN logs, logs[j].run = ran.run
        PROVE  \E i \in DOMAIN runs : runs[i].log = j /\ logs[j] = [run |-> ran.run, result |-> runs[i].result]
    <3>1. PICK i \in DOMAIN runs : runs[i].log = j
      BY <2>2, <2>3
    <3>2. logs[j] = [run |-> ran.run, result |-> runs[i].result]
      BY <2>1, <3>1
    <3>3. QED
      BY <3>1, <3>2
  <2>4. QED
    BY <2>3
<1>8. CASE /\ _aggregate(runs) = "fail" /\ any_quality_failed(runs) /\ ~any_launch_failed(runs)
           /\ evidence' = Log(runs[first_failure_log(runs)].log)
           /\ Charge("checks", FixBudget, "fixing")
  <2> DEFINE f == first_failure_log(runs)
  <2>1. f \in DOMAIN runs /\ runs[f].result = "fail"
    BY <1>2, <1>8, FirstFailure
  <2>2. runs[f].log \in DOMAIN logs /\ logs[runs[f].log] = [run |-> ran.run, result |-> "fail"]
    BY <1>0, <2>1 DEF GateInv, Numbered
  <2>3. evidence' = [of |-> "log", run |-> ran.run, result |-> "fail"]
    BY <1>8, <2>2 DEF Log
  <2>4. /\ rounds' \in [checks : Nat, tool : Nat] /\ rounds'["tool"] = rounds["tool"]
        /\ rounds'["checks"] <= FixBudget \/ rounds'["checks"] = rounds["checks"]
        /\ \/ spot' = "fixing" /\ state' = "running"
           \/ spot' = "checks" /\ state' = "manual"
    <3>1. GateKinds /\ GateTypeOK /\ FixBudget \in Nat
      BY GateAssumption DEF GateInv
    <3>2. QED
      BY <1>0, <1>8, <3>1, Charged
  <2>5. \A i \in DOMAIN runs : runs[i].result # "launch"
    BY <1>8 DEF any_launch_failed, Results
  <2>6. PICK i \in DOMAIN runs : Bad(runs[i]) /\ rows.failed = CheckRunRow(runs[i].result, runs[i].log, ran.run)
    <3>1. Bad(runs[f]) /\ f \in 1..k
      BY <1>2, <1>3, <2>1 DEF Bad
    <3>2. QED
      BY <1>1, <1>2, <1>3, <3>1 DEF RecordedTo
  <2>7. runs[i].result = "fail"
    BY <1>2, <2>5, <2>6 DEF Bad, CheckResults
  <2>8. /\ rows.failed.run = ran.run /\ rows.failed.result = "fail" /\ rows.failed.log = runs[i].log
        /\ runs[i].log \in DOMAIN logs /\ logs[runs[i].log] = [run |-> ran.run, result |-> "fail"]
    BY <1>0, <2>6, <2>7 DEF CheckRunRow, GateInv, Numbered
  <2>9. \A j \in DOMAIN logs : logs[j].run = ran.run => logs[j].result # "launch"
    BY <1>7, <2>5
  <2>10. GateKinds'
    <3>1. evidence'.run \in Nat /\ runs' \in Seq([result : CheckResults, log : Nat])
      BY <1>0, <1>2, <2>3
    <3>2. QED
      BY <1>0, <1>2, <1>4, <2>4, <3>1 DEF GateInv, GateKinds
  <2>11. GateTypeOK'
    <3>1. rounds'.checks <= FixBudget
      BY <2>4 DEF GateInv, GateTypeOK
    <3>2. rounds'.tool = rounds.tool
      BY <2>4
    <3>3. evidence'.of = "log" /\ evidence'.run <= ran'.run
      BY <1>2, <1>4, <2>3
    <3>4. QED
      BY <1>0, <1>4, <2>4, <3>1, <3>2, <3>3 DEF GateInv, GateTypeOK
  <2>12. (Placed /\ Recording /\ PartialKnown)'
    BY <1>0, <1>4, <1>5, <2>4 DEF GateInv, Placed, Recording, PartialKnown
  <2>13. Numbered'
    BY <1>0, <1>4 DEF GateInv, Numbered
  <2>14. FixRecorded'
    BY <1>0, <1>4, <2>8 DEF FixRecorded
  <2>15. Seen'
    BY <2>4 DEF Seen
  <2>16. FixerReadsThisFailure'
    BY <1>0, <1>4, <2>3, <2>9 DEF FixerReadsThisFailure
  <2>17. (EvidenceCurrent /\ SkippedNotMerged)'
    BY <2>4 DEF EvidenceCurrent, SkippedNotMerged
  <2>18. QED
    BY <1>0, <2>10, <2>11, <2>12, <2>13, <2>14, <2>15, <2>16, <2>17, StreakKept DEF GateInv
<1>9. CASE \/ /\ evidence' = evidence /\ rounds' = rounds
              /\ spot' = "checks" /\ state' = "manual"
           \/ /\ evidence' = Report(ran.run)
              /\ rounds' = rounds /\ spot' = "review" /\ state' = "running"
  <2>1. evidence' = evidence \/ (evidence'.of = "report" /\ evidence'.run = ran.run)
    BY <1>9 DEF Report
  <2>2. GateKinds'
    <3>1. evidence'.run \in Nat /\ runs' \in Seq([result : CheckResults, log : Nat])
      BY <1>0, <1>2, <2>1 DEF GateInv, GateKinds
    <3>2. QED
      BY <1>0, <1>2, <1>4, <1>9, <3>1 DEF GateInv, GateKinds
  <2>3. GateTypeOK'
    BY <1>0, <1>2, <1>4, <1>9, <2>1 DEF GateInv, GateTypeOK
  <2>4. (Placed /\ Recording /\ PartialKnown)'
    BY <1>0, <1>4, <1>5, <1>9 DEF GateInv, Placed, Recording, PartialKnown
  <2>5. Numbered'
    BY <1>0, <1>4 DEF GateInv, Numbered
  <2>6. (FixRecorded /\ Seen /\ FixerReadsThisFailure /\ SkippedNotMerged)'
    BY <1>9 DEF FixRecorded, Seen, FixerReadsThisFailure, SkippedNotMerged
  <2>7. EvidenceCurrent'
    BY <1>4, <1>9 DEF EvidenceCurrent, Report
  <2>8. QED
    BY <1>0, <2>2, <2>3, <2>4, <2>5, <2>6, <2>7, StreakKept DEF GateInv
<1>10. QED
  BY <1>6, <1>8, <1>9

LEMMA CheckCitationsInv == ASSUME GateInv, CheckCitations PROVE GateInv'
<1>0. /\ spot = "checks" /\ during = "at" /\ setup.gate = "citation" /\ state = "running"
      /\ ran' = [run |-> ran.run + 1, how |-> "checked"] /\ evidence' = Report(ran.run + 1)
      /\ UNCHANGED <<setup, during, changed, todo, runs, touched, logs, same, told, dirty, cuts, attempt>>
  BY DEF CheckCitations, At, Opened
<1>1. /\ ran.run \in Nat /\ attempt \in Nat /\ DOMAIN logs = 1..Len(logs)
      /\ \A j \in DOMAIN logs : logs[j].run \in Nat /\ logs[j].run <= ran.run
  BY LogsKnown DEF GateInv, GateKinds, Numbered
<1>2. PICK res \in {"pass", "broken"} :
        /\ rows' = record_check_run(CheckRunRow(res, 0, ran.run + 1))
        /\ res = "pass" => Pass("review")
        /\ res = "broken" => Charge("checks", FixBudget, "fixing")
  BY DEF CheckCitations, Opened
<1>3. /\ rounds' \in [checks : Nat, tool : Nat] /\ rounds'["tool"] = rounds["tool"]
      /\ rounds'["checks"] <= FixBudget
      /\ \/ spot' = "review" /\ state' = "running"
         \/ spot' = "fixing" /\ state' = "running" /\ res = "broken"
         \/ spot' = "checks" /\ state' = "manual"
  <2>1. GateKinds /\ GateTypeOK /\ FixBudget \in Nat
    BY GateAssumption DEF GateInv
  <2>2. rounds \in [checks : Nat, tool : Nat] /\ rounds["checks"] <= FixBudget
    BY <2>1 DEF GateKinds, GateTypeOK
  <2>3. CASE res = "pass"
    BY <1>0, <1>2, <2>2, <2>3 DEF Pass
  <2>4. CASE res = "broken"
    <3>1. Charge("checks", FixBudget, "fixing")
      BY <1>2, <2>4
    <3>2. QED
      BY <1>0, <2>1, <2>2, <2>4, <3>1, Charged
  <2>5. QED
    BY <2>3, <2>4
<1>4. /\ res = "broken" => rows'.failed = CheckRunRow(res, 0, ran.run + 1)
      /\ res = "pass" => rows'.failed = rows.failed
      /\ rows'.skipped = rows.skipped
      /\ rows' \in [failed : [result : CheckResults \cup {"none", "broken", "no_scan"}, log : Nat,
                              run : Nat, attempt : Nat], skipped : BOOLEAN]
  <2>1. CheckRunRow("broken", 0, ran.run + 1)
          \in [result : CheckResults \cup {"none", "broken", "no_scan"}, log : Nat, run : Nat, attempt : Nat]
    BY <1>1 DEF CheckRunRow
  <2>2. rows \in [failed : [result : CheckResults \cup {"none", "broken", "no_scan"}, log : Nat,
                            run : Nat, attempt : Nat], skipped : BOOLEAN]
    BY DEF GateInv, GateKinds
  <2>3. CheckRunRow(res, 0, ran.run + 1).result = res
    BY DEF CheckRunRow
  <2>4. QED
    BY <1>2, <2>1, <2>2, <2>3 DEF record_check_run
<1>5. GateKinds'
  BY <1>0, <1>1, <1>3, <1>4 DEF GateInv, GateKinds, Report
<1>6. GateTypeOK'
  <2>1. rows'.failed.attempt <= attempt /\ rows'.failed.run <= ran.run + 1
    <3>1. rows.failed.attempt <= attempt /\ rows.failed.run <= ran.run /\ rows.failed.run \in Nat
      BY DEF GateInv, GateTypeOK, GateKinds
    <3>2. QED
      BY <1>1, <1>4, <3>1 DEF CheckRunRow
  <2>2. rounds'.tool = rounds.tool /\ rounds'.checks <= FixBudget
    BY <1>3
  <2>3. QED
    BY <1>0, <1>1, <1>3, <2>1, <2>2 DEF GateInv, GateTypeOK, Report
<1>7. Numbered'
  BY <1>0, <1>1 DEF Numbered
<1>8. (Placed /\ Recording /\ PartialKnown /\ Seen)'
  BY <1>0, <1>3 DEF GateInv, Placed, Recording, PartialKnown, Seen
<1>9. FixRecorded'
  BY <1>0, <1>3, <1>4 DEF FixRecorded, CheckRunRow
<1>10. FixerReadsThisFailure'
  BY <1>0, <1>1, <1>3 DEF FixerReadsThisFailure, Report
<1>11. (EvidenceCurrent /\ SkippedNotMerged)'
  BY <1>0, <1>3 DEF EvidenceCurrent, SkippedNotMerged, Report
<1>12. QED
  BY <1>0, <1>5, <1>6, <1>7, <1>8, <1>9, <1>10, <1>11, StreakKept DEF GateInv

LEMMA ScanDependenciesInv == ASSUME GateInv, ScanDependencies PROVE GateInv'
<1>0. /\ spot = "checks" /\ during = "at" /\ setup.gate = "dependency_scan" /\ state = "running"
      /\ ran' = [run |-> ran.run + 1, how |-> "scanned"]
      /\ spot' = "review" /\ UNCHANGED <<rounds, state>>
      /\ UNCHANGED <<setup, during, changed, todo, runs, touched, logs, evidence, same, told, dirty, cuts,
                     attempt>>
  BY DEF ScanDependencies, At, Opened, Pass
<1>1. /\ ran.run \in Nat /\ attempt \in Nat /\ DOMAIN logs = 1..Len(logs)
      /\ \A j \in DOMAIN logs : logs[j].run \in Nat /\ logs[j].run <= ran.run
  BY LogsKnown DEF GateInv, GateKinds, Numbered
<1>2. PICK res \in {"pass", "no_scan"} : rows' = record_check_run(CheckRunRow(res, 0, ran.run + 1))
  BY DEF ScanDependencies, Opened
<1>4. /\ rows'.failed \in {rows.failed, CheckRunRow("no_scan", 0, ran.run + 1)}
      /\ rows'.skipped = rows.skipped
      /\ rows' \in [failed : [result : CheckResults \cup {"none", "broken", "no_scan"}, log : Nat,
                              run : Nat, attempt : Nat], skipped : BOOLEAN]
  <2>1. CheckRunRow("no_scan", 0, ran.run + 1)
          \in [result : CheckResults \cup {"none", "broken", "no_scan"}, log : Nat, run : Nat, attempt : Nat]
    BY <1>1 DEF CheckRunRow
  <2>2. rows \in [failed : [result : CheckResults \cup {"none", "broken", "no_scan"}, log : Nat,
                            run : Nat, attempt : Nat], skipped : BOOLEAN]
    BY DEF GateInv, GateKinds
  <2>3. CheckRunRow(res, 0, ran.run + 1).result = res
    BY DEF CheckRunRow
  <2>4. QED
    BY <1>2, <2>1, <2>2, <2>3 DEF record_check_run
<1>5. GateKinds'
  BY <1>0, <1>1, <1>4 DEF GateInv, GateKinds
<1>6. GateTypeOK'
  <2>1. rows'.failed.attempt <= attempt /\ rows'.failed.run <= ran.run + 1 /\ evidence.run <= ran.run + 1
    <3>1. /\ rows.failed.attempt <= attempt /\ rows.failed.run <= ran.run /\ rows.failed.run \in Nat
          /\ evidence.run \in Nat /\ evidence.run <= ran.run
      BY DEF GateInv, GateTypeOK, GateKinds
    <3>2. QED
      BY <1>1, <1>4, <3>1 DEF CheckRunRow
  <2>2. QED
    BY <1>0, <1>1, <2>1 DEF GateInv, GateTypeOK
<1>7. Numbered'
  BY <1>0, <1>1 DEF Numbered
<1>8. (Placed /\ Recording /\ PartialKnown /\ FixRecorded /\ Seen)'
  BY <1>0, <1>4 DEF GateInv, Placed, Recording, PartialKnown, FixRecorded, Seen
<1>9. (FixerReadsThisFailure /\ EvidenceCurrent /\ SkippedNotMerged)'
  BY <1>0 DEF FixerReadsThisFailure, EvidenceCurrent, SkippedNotMerged
<1>10. QED
  BY <1>0, <1>5, <1>6, <1>7, <1>8, <1>9, StreakKept DEF GateInv

LEMMA EditInv == ASSUME GateInv, Edit PROVE GateInv'
<1>0. /\ spot \in {"implementing", "fixing", "toolfix"} /\ during = "at" /\ state = "running"
      /\ changed' \subseteq Areas /\ dirty' = {}
      /\ spot' = IF setup.gate = "tool" THEN "tool" ELSE "checks"
      /\ UNCHANGED <<setup, during, state, todo, runs, touched, logs, rows, evidence, same, rounds,
                     told, ran, cuts, restored, attempt>>
  BY DEF Edit, At
<1>1. (GateKinds /\ GateTypeOK)'
  BY <1>0 DEF GateInv, GateKinds, GateTypeOK
<1>2. Numbered'
  BY <1>0 DEF GateInv, Numbered
<1>3. (Placed /\ Recording /\ PartialKnown /\ FixRecorded /\ Seen)'
  BY <1>0 DEF GateInv, Placed, Recording, PartialKnown, FixRecorded, Seen
<1>4. (FixerReadsThisFailure /\ EvidenceCurrent /\ SkippedNotMerged)'
  BY <1>0 DEF FixerReadsThisFailure, EvidenceCurrent, SkippedNotMerged
<1>5. QED
  BY <1>0, <1>1, <1>2, <1>3, <1>4, StreakKept DEF GateInv

LEMMA ReviewInv == ASSUME GateInv, Review PROVE GateInv'
<1>0. /\ spot = "review" /\ during = "at" /\ state = "running" /\ spot' = "end"
      /\ UNCHANGED <<setup, during, state, changed, todo, runs, touched, logs, rows, evidence, same,
                     rounds, told, dirty, ran, cuts, restored, attempt>>
  BY DEF Review, At
<1>1. (GateKinds /\ GateTypeOK)'
  BY <1>0 DEF GateInv, GateKinds, GateTypeOK
<1>2. Numbered'
  BY <1>0 DEF GateInv, Numbered
<1>3. (Placed /\ Recording /\ PartialKnown /\ FixRecorded /\ Seen)'
  BY <1>0 DEF GateInv, Placed, Recording, PartialKnown, FixRecorded, Seen
<1>4. (FixerReadsThisFailure /\ EvidenceCurrent /\ SkippedNotMerged)'
  BY <1>0 DEF FixerReadsThisFailure, EvidenceCurrent, SkippedNotMerged
<1>5. QED
  BY <1>0, <1>1, <1>2, <1>3, <1>4, StreakKept DEF GateInv

LEMMA FinishRunInv == ASSUME GateInv, FinishRun PROVE GateInv'
<1>0. /\ spot = "end" /\ during = "at" /\ state = "running"
      /\ state' \in {"merged", "done"} /\ (state' = "merged" => ~rows.skipped)
      /\ UNCHANGED <<setup, spot, during, changed, todo, runs, touched, logs, rows, evidence, same,
                     rounds, told, dirty, ran, cuts, restored, attempt>>
  BY DEF FinishRun, At, task_had_skipped_checks
<1>1. (GateKinds /\ GateTypeOK)'
  BY <1>0 DEF GateInv, GateKinds, GateTypeOK
<1>2. Numbered'
  BY <1>0 DEF GateInv, Numbered
<1>3. (Placed /\ Recording /\ PartialKnown /\ FixRecorded /\ Seen)'
  BY <1>0 DEF GateInv, Placed, Recording, PartialKnown, FixRecorded, Seen
<1>4. (FixerReadsThisFailure /\ EvidenceCurrent /\ SkippedNotMerged)'
  BY <1>0 DEF GateInv, PartialKnown, FixerReadsThisFailure, EvidenceCurrent, SkippedNotMerged
<1>5. QED
  BY <1>0, <1>1, <1>2, <1>3, <1>4, StreakKept DEF GateInv

\* What a new process restores from the record, whatever it had in mind.
LEMMA Restored ==
  ASSUME GateInv
  PROVE  /\ _restore_engine_inputs.of \in {"none", "log", "report"}
         /\ _restore_engine_inputs.run \in Nat /\ _restore_engine_inputs.run <= ran.run
         /\ spot = "fixing" /\ ~setup.unit =>
              /\ _restore_engine_inputs.run = ran.run
              /\ setup.gate = "command" => /\ _restore_engine_inputs.of = "log"
                                           /\ _restore_engine_inputs.result = "fail"
<1>1. /\ DOMAIN logs = 1..Len(logs) /\ ran.run \in Nat
      /\ \A j \in DOMAIN logs : logs[j].run \in Nat /\ logs[j].run <= ran.run
  BY LogsKnown DEF GateInv, Numbered
<1>2. rows.failed.run \in Nat /\ rows.failed.run <= ran.run /\ rows.failed.log \in Nat
  BY DEF GateInv, GateKinds, GateTypeOK
<1>3. \/ _restore_engine_inputs = NoEvidence
      \/ rows.failed.log \in DOMAIN logs /\ _restore_engine_inputs = Log(rows.failed.log)
      \/ _restore_engine_inputs = Report(rows.failed.run)
  BY DEF _restore_engine_inputs, latest_failed_check_log, Exists
<1>4. ASSUME spot = "fixing", ~setup.unit
      PROVE  /\ _restore_engine_inputs.run = ran.run
             /\ setup.gate = "command" => /\ _restore_engine_inputs.of = "log"
                                          /\ _restore_engine_inputs.result = "fail"
  <2>1. setup.gate \in {"command", "citation"}
    BY <1>4 DEF GateInv, Placed
  <2>2. rows.failed # NoRow
    BY <1>4, <2>1 DEF GateInv, FixRecorded, NoRow
  <2>3. CASE setup.gate = "command"
    <3>1. /\ rows.failed.log \in DOMAIN logs
          /\ logs[rows.failed.log] = [run |-> ran.run, result |-> "fail"]
      BY <1>4, <2>3 DEF GateInv, FixRecorded
    <3>2. _restore_engine_inputs = Log(rows.failed.log)
      BY <1>1, <1>4, <2>2, <3>1 DEF _restore_engine_inputs, latest_failed_check_log, Exists
    <3>3. QED
      BY <3>1, <3>2 DEF Log
  <2>4. CASE setup.gate = "citation"
    <3>1. rows.failed.log = 0 /\ rows.failed.attempt = attempt /\ rows.failed.run = ran.run
      BY <1>4, <2>4 DEF GateInv, FixRecorded
    <3>2. _restore_engine_inputs = Report(rows.failed.run)
      BY <1>4, <2>2, <3>1 DEF _restore_engine_inputs, latest_failed_check_log, Exists
    <3>3. QED
      BY <2>4, <3>1, <3>2 DEF Report
  <2>5. QED
    BY <2>1, <2>3, <2>4
<1>5. QED
  BY <1>1, <1>2, <1>3, <1>4 DEF NoEvidence, Log, Report

LEMMA TakeUpInv == ASSUME GateInv, TakeUp PROVE GateInv'
<1>0. /\ state \in {"running", "manual"} /\ state' = "running" /\ restored' = TRUE
      /\ spot' = IF setup.unit /\ spot \in {"checks", "fixing", "review"} THEN "implementing" ELSE spot
      /\ dirty' = {}
      /\ during' = "at" /\ todo' = <<>> /\ runs' = <<>> /\ touched' = {}
      /\ evidence' = _restore_engine_inputs
      /\ same' = NoStreak /\ told' = <<>>
      /\ UNCHANGED <<setup, changed, logs, rows, rounds, ran, attempt>>
  BY DEF TakeUp
<1>1. GateKinds'
  BY <1>0, Restored DEF GateInv, GateKinds, NoStreak
<1>2. GateTypeOK'
  BY <1>0, Restored DEF GateInv, GateTypeOK, NoStreak
<1>3. Numbered'
  BY <1>0 DEF GateInv, Numbered
<1>4. (Placed /\ Recording /\ PartialKnown /\ FixRecorded /\ Seen)'
  BY <1>0 DEF GateInv, Placed, Recording, PartialKnown, FixRecorded, Seen
<1>5. Streak'
  BY <1>0 DEF Streak, NoStreak
<1>6. FixerReadsThisFailure'
  BY <1>0, Restored DEF GateInv, FixerReadsThisFailure
<1>7. (EvidenceCurrent /\ SkippedNotMerged)'
  BY <1>0 DEF EvidenceCurrent, SkippedNotMerged
<1>8. QED
  BY <1>1, <1>2, <1>3, <1>4, <1>5, <1>6, <1>7 DEF GateInv

LEMMA RerunInv == ASSUME GateInv, Rerun PROVE GateInv'
<1>0. /\ state = "manual" /\ attempt' = attempt + 1 /\ state' = "running"
      /\ spot' = "implementing" /\ changed' = {} /\ logs' = <<>> /\ evidence' = NoEvidence
      /\ rounds' = [checks |-> 0, tool |-> 0] /\ same' = NoStreak /\ told' = <<>>
      /\ UNCHANGED <<setup, during, todo, runs, touched, rows, ran, cuts>>
      /\ dirty' = {} /\ during = "at"
  BY DEF Rerun, GateInv, Placed, GateTypeOK
<1>1. GateKinds'
  BY <1>0 DEF GateInv, GateKinds, NoStreak, NoEvidence
<1>2. GateTypeOK'
  <2>1. rows.failed.attempt <= attempt + 1
    BY DEF GateInv, GateKinds, GateTypeOK
  <2>2. 0 <= ran.run
    BY DEF GateInv, GateKinds
  <2>3. runs' = <<>>
    BY <1>0 DEF GateInv, Placed
  <2>4. QED
    BY <1>0, <2>1, <2>2, <2>3, GateAssumption DEF GateInv, GateTypeOK, NoStreak, NoEvidence
<1>3. (Numbered /\ Placed /\ Recording /\ PartialKnown /\ FixRecorded /\ Seen)'
  BY <1>0 DEF GateInv, Numbered, Placed, Recording, PartialKnown, FixRecorded, Seen
<1>4. Streak'
  BY <1>0 DEF Streak, NoStreak
<1>5. (FixerReadsThisFailure /\ EvidenceCurrent /\ SkippedNotMerged)'
  BY <1>0 DEF FixerReadsThisFailure, EvidenceCurrent, SkippedNotMerged
<1>6. QED
  BY <1>1, <1>2, <1>3, <1>4, <1>5 DEF GateInv

\* What a result of the tool leads to.
LEMMA ToolTold ==
  ASSUME GateInv, RunTool
  PROVE  /\ spot = "tool" /\ during = "at" /\ state = "running"
         /\ rounds' \in [checks : Nat, tool : Nat] /\ rounds'.checks = rounds.checks
         /\ rounds'.tool <= IF ToolBudget > 0 THEN ToolBudget ELSE MaxToolRounds
         /\ spot' \in {"tool", "toolfix", "review"} /\ state' \in {"running", "manual"}
         /\ \/ UNCHANGED <<same, told>>
            \/ \E r \in ToolResults :
                 /\ same' = NextStreak(r) /\ told' = Append(told, r)
                 /\ spot' = "toolfix" => ~_repeated_unfixable_failure(r)
                 /\ state' = "manual" /\ rounds.tool < ToolBudget => _repeated_unfixable_failure(r)
         /\ UNCHANGED <<setup, during, changed, todo, runs, touched, logs, rows, evidence, dirty, ran,
                        cuts, restored, attempt>>
<1> DEFINE budget == IF ToolBudget > 0 THEN ToolBudget ELSE MaxToolRounds
<1>0. /\ spot = "tool" /\ during = "at" /\ state = "running"
      /\ UNCHANGED <<setup, during, changed, todo, runs, touched, logs, rows, evidence, dirty, ran,
                     cuts, restored, attempt>>
  BY DEF RunTool, At
<1>1. /\ rounds \in [checks : Nat, tool : Nat] /\ rounds.tool <= budget /\ budget \in Nat
      /\ ToolBudget \in Nat /\ GateKinds /\ GateTypeOK
  BY GateAssumption DEF GateInv, GateKinds, GateTypeOK
<1>2. PICK r \in ToolResults :
       \/ Manual /\ UNCHANGED <<same, told>>
       \/ /\ same' = NextStreak(r) /\ told' = Append(told, r)
          /\ \/ _repeated_unfixable_failure(r) /\ Manual
             \/ ~_repeated_unfixable_failure(r) /\ Charge("tool", budget, "toolfix")
             \/ Pass("review")
  BY DEF RunTool
<1>3. CASE Manual /\ UNCHANGED <<same, told>>
  BY <1>0, <1>1, <1>3 DEF Manual
<1>4. CASE /\ same' = NextStreak(r) /\ told' = Append(told, r)
           /\ _repeated_unfixable_failure(r) /\ Manual
  BY <1>0, <1>1, <1>4 DEF Manual
<1>5. CASE /\ same' = NextStreak(r) /\ told' = Append(told, r)
           /\ ~_repeated_unfixable_failure(r) /\ Charge("tool", budget, "toolfix")
  <2>1. /\ rounds' \in [checks : Nat, tool : Nat] /\ rounds'["checks"] = rounds["checks"]
        /\ rounds'["tool"] <= budget \/ rounds'["tool"] = rounds["tool"]
        /\ \/ spot' = "toolfix" /\ state' = state
           \/ spot' = spot /\ state' = "manual" /\ rounds["tool"] >= budget
    BY <1>1, <1>5, Charged
  <2>2. rounds.tool < ToolBudget => ~(rounds.tool >= budget)
    BY <1>1
  <2>3. rounds'.tool <= budget
    BY <1>1, <2>1
  <2>4. QED
    BY <1>0, <1>1, <1>5, <2>1, <2>2, <2>3
<1>6. CASE /\ same' = NextStreak(r) /\ told' = Append(told, r) /\ Pass("review")
  BY <1>0, <1>1, <1>6 DEF Pass
<1>7. QED
  BY <1>2, <1>3, <1>4, <1>5, <1>6

LEMMA RunToolInv == ASSUME GateInv, RunTool PROVE GateInv'
<1>0. setup.gate = "tool"
  BY ToolTold DEF GateInv, Placed
<1>1. /\ same'.count \in Nat /\ same'.count <= Len(told') /\ told' \in Seq(ToolResults)
      /\ Streak'
  <2>1. CASE UNCHANGED <<same, told>>
    BY <2>1, StreakKept DEF GateInv, GateKinds, GateTypeOK
  <2>2. CASE \E r \in ToolResults : same' = NextStreak(r) /\ told' = Append(told, r)
    <3>1. PICK r \in ToolResults : same' = NextStreak(r) /\ told' = Append(told, r)
      BY <2>2
    <3>2. GateKinds /\ Streak
      BY DEF GateInv
    <3>3. /\ same'.count \in Nat /\ same'.count <= Len(told') /\ told' \in Seq(ToolResults)
          /\ \A i \in (Len(told') - same'.count + 1)..Len(told') :
               Blind(told'[i]) /\ fingerprint(told'[i]) = same'.of
          /\ same'.count < Len(told') =>
               \/ ~Blind(told'[Len(told') - same'.count])
               \/ same'.count > 0 /\ fingerprint(told'[Len(told') - same'.count]) # same'.of
      BY <3>1, <3>2, StreakCounts
    <3>4. QED
      BY <3>3 DEF Streak
  <2>3. QED
    BY <2>1, <2>2, ToolTold
<1>2. GateKinds'
  BY <1>1, ToolTold DEF GateInv, GateKinds
<1>3. GateTypeOK'
  BY <1>1, ToolTold DEF GateInv, GateTypeOK
<1>4. Numbered'
  BY ToolTold DEF GateInv, Numbered
<1>5. (Placed /\ Recording /\ PartialKnown /\ FixRecorded /\ Seen)'
  BY <1>0, ToolTold DEF GateInv, Placed, Recording, PartialKnown, FixRecorded, Seen
<1>6. (FixerReadsThisFailure /\ EvidenceCurrent /\ SkippedNotMerged)'
  BY <1>0, ToolTold DEF FixerReadsThisFailure, EvidenceCurrent, SkippedNotMerged
<1>7. QED
  BY <1>1, <1>2, <1>3, <1>4, <1>5, <1>6 DEF GateInv

LEMMA GateStutter == ASSUME GateInv, UNCHANGED gateVars PROVE GateInv'
<1> USE DEF gateVars
<1>1. (GateKinds /\ GateTypeOK)'
  BY DEF GateInv, GateKinds, GateTypeOK
<1>2. (Numbered /\ Placed /\ PartialKnown /\ FixRecorded /\ Seen)'
  BY DEF GateInv, Numbered, Placed, PartialKnown, FixRecorded, Seen
<1>3. Recording'
  BY DEF GateInv, Recording, RecordedTo, CheckRunRow, Bad
<1>4. (FixerReadsThisFailure /\ EvidenceCurrent /\ SkippedNotMerged)'
  BY DEF GateInv, FixerReadsThisFailure, EvidenceCurrent, SkippedNotMerged
<1>5. QED
  BY <1>1, <1>2, <1>3, <1>4, StreakKept DEF GateInv

LEMMA GateInductive == ASSUME GateInv, [GateNext]_gateVars PROVE GateInv'
  BY NothingToCheckInv, BeginChecksInv, RunCheckInv, RecordInv, ConcludeChecksInv, CheckCitationsInv,
     ScanDependenciesInv, EditInv, ReviewInv, RunToolInv, FinishRunInv, TakeUpInv, RerunInv, GateStutter
     DEF GateNext

\* A pass that goes on found the tree as it was.
LEMMA PassIsClean ==
  ASSUME GateInv, [GateNext]_gateVars, spot = "checks", spot' = "review"
  PROVE  "tracked" \notin dirty
<1>1. \/ NothingToCheck \/ CheckCitations \/ ScanDependencies \/ ConcludeChecks
  BY DEF GateNext, gateVars, BeginChecks, RunCheck, Record, Edit, Review, RunTool, FinishRun, TakeUp,
         Rerun, At
<1>2. dirty \subseteq touched
  BY <1>1 DEF GateInv, Seen, Placed, NothingToCheck, CheckCitations, ScanDependencies,
              ConcludeChecks, At
<1>3. CASE NothingToCheck \/ CheckCitations \/ ScanDependencies
  <2>1. touched = {}
    BY <1>3 DEF NothingToCheck, CheckCitations, ScanDependencies, At, GateInv, Placed
  <2>2. QED
    BY <1>2, <2>1
<1>4. CASE ConcludeChecks
  <2>1. ~_mutated_working_tree
    BY <1>4 DEF ConcludeChecks, Manual, Charge, Pass
  <2>2. QED
    BY <1>2, <2>1 DEF _mutated_working_tree
<1>5. QED
  BY <1>1, <1>3, <1>4

\* A loop stops short of its budget for a repeated failure, and only for one.
LEMMA StallStep ==
  ASSUME GateInv, [GateNext]_gateVars, Len(told') > Len(told)
  PROVE  LET n == repeat_limit(Last(told')) IN
         /\ spot' = "toolfix" => ~SameFailure(told', n)
         /\ state' = "manual" /\ rounds.tool < ToolBudget => SameFailure(told', n)
<1>0. Len(told) \in Nat
  BY DEF GateInv, GateKinds
<1>1. RunTool
  <2>1. told' # told /\ told' # <<>>
    BY <1>0
  <2>2. QED
    BY <2>1 DEF GateNext, gateVars, NothingToCheck, BeginChecks, RunCheck, Record, ConcludeChecks,
            CheckCitations, ScanDependencies, Edit, Review, FinishRun, TakeUp, Rerun
<1>2. PICK r \in ToolResults :
        /\ same' = NextStreak(r) /\ told' = Append(told, r)
        /\ spot' = "toolfix" => ~_repeated_unfixable_failure(r)
        /\ state' = "manual" /\ rounds.tool < ToolBudget => _repeated_unfixable_failure(r)
  BY <1>0, <1>1, ToolTold
<1>3. GateKinds /\ Streak
  BY DEF GateInv
<1>4. repeat_limit(r) \in Nat \ {0}
  BY GateAssumption DEF repeat_limit, REPEAT_LIMIT
<1>5. Last(told') = r /\ (SameFailure(told', repeat_limit(r)) <=> _repeated_unfixable_failure(r))
  BY <1>2, <1>3, <1>4, StreakCounts DEF _repeated_unfixable_failure
<1>6. QED
  BY <1>2, <1>5

\* For any sets of checks, tools, manifests and budgets: a gate passes what its programs
\* left as it was, sends a failure on with its own evidence and stops a loop when it
\* should, through crashes, continues and fresh reruns.
THEOREM GatesSafe == GateSpec => GateSafe
<1>1. GateInit => GateInv
  BY GateInitInv
<1>2. GateInv /\ [GateNext]_gateVars => GateInv'
  BY GateInductive
<1>3. GateInv => GateTypeOK /\ FixerReadsThisFailure /\ EvidenceCurrent /\ SkippedNotMerged
  BY DEF GateInv
<1>4. GateInv /\ [GateNext]_gateVars =>
        [spot = "checks" /\ spot' = "review" => "tracked" \notin dirty]_gateVars
  BY PassIsClean
<1>5. GateInv /\ [GateNext]_gateVars =>
        [Len(told') > Len(told) =>
           LET n == repeat_limit(Last(told')) IN
           /\ spot' = "toolfix" => ~SameFailure(told', n)
           /\ state' = "manual" /\ rounds.tool < ToolBudget => SameFailure(told', n)]_gateVars
  BY StallStep
<1>6. GateSpec => [](GateTypeOK /\ FixerReadsThisFailure /\ EvidenceCurrent /\ SkippedNotMerged)
  BY <1>1, <1>2, <1>3, PTL DEF GateSpec
<1>7. GateSpec => GreenIsClean
  BY <1>1, <1>2, <1>4, PTL DEF GateSpec, GreenIsClean
<1>8. GateSpec => StallsExactly
  BY <1>1, <1>2, <1>5, PTL DEF GateSpec, StallsExactly
<1>9. QED
  BY <1>6, <1>7, <1>8 DEF GateSafe

-----------------------------------------------------------------------------
(* The launch policy. The invariant says what an attempt's vector and its    *)
(* canary were built from, that the guard and the bracket are missing only   *)
(* where no agent has a shell, and what was announced and proved of the      *)
(* configuration that is in force.                                           *)

InNode == pc \in {"invoke", "attempt", "canary", "launch", "running", "compare"}
InAttempt == pc \in {"attempt", "canary", "launch", "running", "compare"}

ClaudePlans ==
  [error : Errors \cup {"none"}, mode : {"dontAsk", "acceptEdits"},
   tools : SUBSET {"Read", "Edit", "Bash", "Web"}, needs_sandbox : BOOLEAN]

\* The canary's answer about the attempt, as the host is now.
Canary == run_codex_canary(machine.box, argv,
                           build_canary_probes(FALSE, FALSE, node.packet, guarded))

Counted == left \in [{"nodes", "changes", "restarts"} -> Nat]

\* An attempt runs while the process waits for it, the one that was asked for.
Attempted ==
  /\ Running => pc = "running" /\ launched.prov = provider
  /\ pc \in {"invoke", "attempt", "canary", "launch", "running"} => error = "none"
  /\ pc = "canary" => provider = "codex"
  /\ InNode => \A i \in DOMAIN route : route[i] \in cfg.allowed

\* The vector was built from what still holds, and the host that answered the
\* canary is the one that launches.
Vectored ==
  /\ pc = "launch" /\ provider = "claude" =>
       argv = build_claude_argv(cfg, node, machine, own) /\ argv.error = "none"
  /\ pc \in {"canary", "launch"} /\ provider = "codex" =>
       argv = build_codex_argv(cfg, node, guarded, own) /\ argv.error = "none"
  /\ pc = "launch" /\ provider = "codex" =>
       Canary = "none" \/ (Canary = "capability_unavailable" /\ ~cfg.strict)

\* No agent of this node has a shell, on this system and under this configuration.
Shellless ==
  /\ node.profile = "read-only" /\ cfg.strict
  /\ \A i \in DOMAIN route : route[i] = "claude"
  /\ node.git_evidence => machine.system = "windows"

\* Only such a node goes without the guard or the bracket, and it changes nothing.
ShellWatched ==
  /\ InAttempt /\ ~guarded => Shellless
  /\ InNode /\ node.profile = "read-only" /\ ~bracket => Shellless /\ ~wrote

\* What the configuration in force gives up was announced, whatever the host was.
Announced ==
  pc # "off" =>
    /\ ~cfg.strict => "mode" \in announced /\ ("claude" \in cfg.allowed => "claude" \in announced)
    /\ read_isolation_off(cfg) => "read" \in announced

\* What preflight proved of Codex is so while it counts.
Proved ==
  ready /\ cfg.allowed = {"codex"} =>
    /\ ~isolation_reasons(cfg, "codex")
    /\ ProbeAccepted("codex", run_codex_capability_smoke(cfg, machine.box))

LaunchInv ==
  /\ LaunchTypeOK /\ Counted /\ Attempted /\ Vectored /\ ShellWatched /\ Announced /\ Proved
  /\ Confined /\ Demonstrated /\ GapAnnounced /\ PinnedBinary /\ ReadyHolds

\* A vector of Claude's is well formed, and a strict one runs no command outside a sandbox.
LEMMA ClaudeBuilt ==
  ASSUME NEW c \in Policies, NEW n \in Requests, NEW h \in Hosts, NEW own_,
         NEW plan, plan = build_claude_argv(c, n, h, own_)
  PROVE  /\ plan \in ClaudePlans
         /\ c.strict /\ plan.error = "none" =>
              /\ "Bash" \in plan.tools =>
                   plan.needs_sandbox /\ (n.profile = "workspace-write" \/ n.git_evidence)
                   /\ h.system # "windows"
              /\ "Edit" \in plan.tools => n.profile = "workspace-write"
              /\ "Web" \in plan.tools => n.network
<1> DEFINE base == map_permission(n.profile)
           t == resolve_claude_tools(c, n, h)
<1>1. /\ c.strict \in BOOLEAN /\ n.profile \in {"read-only", "workspace-write"}
      /\ n.git_evidence \in BOOLEAN /\ n.network \in BOOLEAN /\ h.deps \in BOOLEAN
      /\ h.system \in {"linux", "mac", "windows"}
  BY DEF Policies, Requests, Hosts, Profiles, Systems
<1>2. /\ base.mode \in {"dontAsk", "acceptEdits"}
      /\ base.tools \subseteq {"Read", "Edit", "Bash"}
      /\ n.profile = "read-only" => base.tools = {"Read"}
  BY <1>1 DEF map_permission
<1>3. Refusal("capability_unavailable") \in ClaudePlans /\ Refusal("configuration_error") \in ClaudePlans
      /\ Refusal("capability_unavailable").error # "none"
      /\ Refusal("configuration_error").error # "none"
  BY DEF Refusal, ClaudePlans, Errors
<1>4. t \in ClaudePlans
  BY <1>1, <1>2, <1>3 DEF resolve_claude_tools, ClaudePlans, SandboxedShell,
                          _effective_network_access,
                          _bash_sandbox_available
<1>5. ASSUME c.strict, t.error = "none"
      PROVE  /\ "Bash" \in t.tools =>
                  t.needs_sandbox /\ (n.profile = "workspace-write" \/ n.git_evidence)
                  /\ h.system # "windows"
             /\ "Edit" \in t.tools => n.profile = "workspace-write"
             /\ "Web" \in t.tools => n.network
  BY <1>1, <1>2, <1>3, <1>5 DEF resolve_claude_tools, SandboxedShell, _effective_network_access,
                          _bash_sandbox_available
<1>6. plan = Refusal("configuration_error") \/ plan = t
  BY DEF build_claude_argv
<1>7. QED
  BY <1>3, <1>4, <1>5, <1>6

\* What a started Claude can reach: nothing a strict node was not given, given a guard
\* wherever the node writes or has a shell.
LEMMA ClaudeKept ==
  ASSUME NEW c \in Policies, NEW n \in Requests, NEW h \in Hosts, NEW own_, NEW g \in BOOLEAN,
         NEW plan, plan = build_claude_argv(c, n, h, own_), plan.error = "none",
         NEW reach, reach = ClaudeReach(c, n, plan, g)
  PROVE  /\ reach \subseteq Access
         /\ "Bash" \in plan.tools /\ ~plan.needs_sandbox => ~c.strict
         /\ {<<"read", "private">>, <<"load", "settings">>} \cap reach # {} => read_isolation_off(c)
         /\ c.strict =>
              /\ <<"write", "private">> \notin reach
              /\ <<"use", "network">> \in reach => n.network
              /\ <<"write", "tree">> \in reach => n.profile = "workspace-write"
                                                  /\ ("Edit" \in plan.tools \/ "Bash" \in plan.tools)
              /\ <<"write", "control">> \in reach =>
                   ~g /\ (n.profile = "workspace-write" \/ (n.git_evidence /\ h.system # "windows"))
<1>1. /\ c.strict \in BOOLEAN /\ c.disable_read_isolation \in BOOLEAN
      /\ n.profile \in {"read-only", "workspace-write"}
      /\ plan \in ClaudePlans
      /\ c.strict =>
           /\ "Bash" \in plan.tools =>
                plan.needs_sandbox /\ (n.profile = "workspace-write" \/ n.git_evidence)
                /\ h.system # "windows"
           /\ "Edit" \in plan.tools => n.profile = "workspace-write"
           /\ "Web" \in plan.tools => n.network
  BY ClaudeBuilt DEF Policies, Requests, Profiles
<1>2. /\ _isolation_argv(c) \subseteq Access
      /\ ~read_isolation_off(c) => _isolation_argv(c) = {}
  BY DEF _isolation_argv, Access
<1> DEFINE denied == _disallowed_tools(c, n, g)
           box == build_sandbox_settings(c, n, g)
           Has(tool) == tool \in plan.tools \/ ~c.strict
           Tools == {<<"write", a>> : a \in {x \in {"tree", "control", "private"} :
                                               Has("Edit") /\ <<"Edit", x>> \notin denied}}
                      \cup (IF Has("Read") /\ <<"Read", "private">> \notin denied
                            THEN {<<"read", "private">>} ELSE {})
                      \cup (IF "Web" \in plan.tools THEN {<<"use", "network">>} ELSE {})
           Boxed == {<<"write", a>> : a \in {"tree", "control", "private"} \ box.denyWrite}
                      \cup {<<"read", a>> : a \in {"private"} \ box.denyRead}
                      \cup (IF box.network THEN {<<"use", "network">>} ELSE {})
           Shell == IF "Bash" \notin plan.tools THEN {} ELSE IF ~plan.needs_sandbox THEN Access ELSE Boxed
<1>3. reach = Tools \cup Shell \cup _isolation_argv(c)
  BY DEF ClaudeReach
<1>4. /\ <<"Read", "private">> \in denied /\ <<"Edit", "private">> \in denied
      /\ g => <<"Edit", "control">> \in denied
  BY DEF _disallowed_tools
<1>5. /\ Tools \subseteq Access
      /\ <<"read", "private">> \notin Tools /\ <<"load", "settings">> \notin Tools
      /\ <<"write", "private">> \notin Tools
      /\ <<"use", "network">> \in Tools => "Web" \in plan.tools
      /\ <<"write", "tree">> \in Tools => Has("Edit")
      /\ <<"write", "control">> \in Tools => Has("Edit") /\ ~g
  <2> HIDE DEF denied, Has
  <2>1. Has("Edit") \in BOOLEAN /\ g \in BOOLEAN
    BY DEF Has
  <2>2. QED
    BY <1>4 DEF Access
<1>6. /\ "private" \in box.denyWrite /\ (g => "control" \in box.denyWrite)
      /\ n.profile = "read-only" => "tree" \in box.denyWrite
      /\ ~read_isolation_off(c) => "private" \in box.denyRead
      /\ c.strict /\ box.network => n.network
  BY DEF build_sandbox_settings, _effective_network_access
<1>7. /\ Boxed \subseteq Access
      /\ <<"load", "settings">> \notin Boxed
      /\ <<"read", "private">> \in Boxed => read_isolation_off(c)
      /\ <<"write", "private">> \notin Boxed
      /\ <<"use", "network">> \in Boxed /\ c.strict => n.network
      /\ <<"write", "tree">> \in Boxed => n.profile = "workspace-write"
      /\ <<"write", "control">> \in Boxed => ~g
  <2> HIDE DEF box
  <2>1. QED
    BY <1>1, <1>6 DEF Access
<1>8. ~c.strict => read_isolation_off(c)
  BY DEF read_isolation_off
<1> HIDE DEF Tools, Boxed
<1>9. reach \subseteq Access
  BY <1>2, <1>3, <1>5, <1>7
<1>10. {<<"read", "private">>, <<"load", "settings">>} \cap reach # {} => read_isolation_off(c)
  BY <1>1, <1>2, <1>3, <1>5, <1>7, <1>8
<1>11. ASSUME c.strict PROVE Shell \subseteq Boxed /\ ("Bash" \notin plan.tools => Shell = {})
  BY <1>1, <1>11
<1> HIDE DEF Shell
<1>12. ASSUME c.strict
       PROVE  /\ <<"write", "private">> \notin reach
              /\ <<"use", "network">> \in reach => n.network
              /\ <<"write", "tree">> \in reach => n.profile = "workspace-write"
                                                  /\ ("Edit" \in plan.tools \/ "Bash" \in plan.tools)
              /\ <<"write", "control">> \in reach =>
                   ~g /\ (n.profile = "workspace-write" \/ (n.git_evidence /\ h.system # "windows"))
  <2>1. _isolation_argv(c) \subseteq {<<"load", "settings">>}
    BY DEF _isolation_argv
  <2>2. \A x \in reach : x \in Tools \/ (x \in Boxed /\ "Bash" \in plan.tools) \/ x = <<"load", "settings">>
    BY <1>3, <1>11, <1>12, <2>1
  <2>3. <<"write", "private">> \notin reach
    BY <1>5, <1>7, <2>2
  <2>4. <<"use", "network">> \in reach => n.network
    BY <1>1, <1>5, <1>7, <1>12, <2>2
  <2>5. <<"write", "tree">> \in reach => n.profile = "workspace-write"
                                         /\ ("Edit" \in plan.tools \/ "Bash" \in plan.tools)
    BY <1>1, <1>5, <1>7, <1>12, <2>2
  <2>6. <<"write", "control">> \in reach =>
          ~g /\ (n.profile = "workspace-write" \/ (n.git_evidence /\ h.system # "windows"))
    BY <1>1, <1>5, <1>7, <1>12, <2>2
  <2>7. QED
    BY <2>3, <2>4, <2>5, <2>6
<1>13. QED
  BY <1>1, <1>9, <1>10, <1>12

\* A set of positions has a first one.
LEMMA FirstOf ==
  ASSUME NEW S \in SUBSET Nat, S # {}
  PROVE  \E i \in S : i = (CHOOSE i_ \in S : \A j \in S : i_ <= j) /\ \A j \in S : i <= j
<1>1. PICK x \in S : \A y \in S : ~(<<y, x>> \in OpToRel(<, Nat))
  BY WFMin, NatLessThanWellFounded
<1>2. ASSUME NEW y \in S PROVE x <= y
  <2>1. x \in Nat /\ y \in Nat
    OBVIOUS
  <2>2. y < x => <<y, x>> \in OpToRel(<, Nat)
    BY <2>1 DEF OpToRel
  <2>3. ~(y < x)
    BY <1>1, <2>2
  <2>4. QED
    BY <2>1, <2>3
<1>3. QED
  BY <1>2

\* The first probe that answers wrongly decides.
LEMMA FirstProbe ==
  ASSUME NEW box, NEW p, NEW probes, DOMAIN probes \subseteq Nat
  PROVE  LET class == run_codex_canary(box, p, probes) IN
         \/ \E i \in DOMAIN probes :
              /\ class = _classify_probe(box, p, probes[i]) /\ class # "none"
              /\ \A j \in DOMAIN probes : j < i => _classify_probe(box, p, probes[j]) = "none"
         \/ /\ \A j \in DOMAIN probes : _classify_probe(box, p, probes[j]) = "none"
            /\ class = IF \A i \in DOMAIN probes : probes[i].area # "read"
                       THEN "capability_unavailable" ELSE "none"
<1> DEFINE bad == {i \in DOMAIN probes : _classify_probe(box, p, probes[i]) # "none"}
           class == run_codex_canary(box, p, probes)
<1>1. CASE bad = {}
  BY <1>1 DEF run_codex_canary
<1>2. CASE bad # {}
  <2>1. bad \in SUBSET Nat
    OBVIOUS
  <2>2. PICK i \in bad : i = (CHOOSE i_ \in bad : \A j \in bad : i_ <= j) /\ \A j \in bad : i <= j
    BY <1>2, <2>1, FirstOf
  <2>3. class = _classify_probe(box, p, probes[i])
    BY <1>2, <2>2 DEF run_codex_canary
  <2>4. ASSUME NEW j \in DOMAIN probes, j < i PROVE _classify_probe(box, p, probes[j]) = "none"
    <3>1. i \in Nat /\ j \in Nat
      BY <2>1
    <3>2. j \notin bad
      BY <2>2, <2>4, <3>1
    <3>3. QED
      BY <3>2
  <2>5. QED
    BY <2>2, <2>3, <2>4
<1>3. QED
  BY <1>1, <1>2


LEMMA Joined ==
  ASSUME NEW S, NEW s \in Seq(S), NEW t \in Seq(S), NEW n \in Nat, NEW m \in Nat,
         Len(s) = n, Len(t) = m
  PROVE  /\ s \o t \in Seq(S) /\ Len(s \o t) = n + m /\ DOMAIN (s \o t) = 1..(n + m)
         /\ \A i \in 1..n : (s \o t)[i] = s[i]
         /\ \A i \in 1..m : (s \o t)[n + i] = t[i]
<1>1. s \o t \in Seq(S) /\ Len(s \o t) = n + m
  OBVIOUS
<1>2. DOMAIN (s \o t) = 1..(n + m)
  BY <1>1
<1>3. ASSUME NEW i \in 1..n PROVE (s \o t)[i] = s[i]
  OBVIOUS
<1>4. ASSUME NEW i \in 1..m PROVE (s \o t)[n + i] = t[i]
  OBVIOUS
<1>5. QED
  BY <1>1, <1>2, <1>3, <1>4

\* Each part keeps its order.
LEMMA JoinedAt ==
  ASSUME NEW S, NEW s \in Seq(S), NEW t \in Seq(S)
  PROVE  /\ \A i \in DOMAIN s : i \in DOMAIN (s \o t) /\ (s \o t)[i] = s[i]
         /\ \A i \in DOMAIN t : Len(s) + i \in DOMAIN (s \o t) /\ (s \o t)[Len(s) + i] = t[i]
<1>1. PICK n \in Nat : n = Len(s)
  OBVIOUS
<1>2. PICK m \in Nat : m = Len(t)
  OBVIOUS
<1>3. /\ s \o t \in Seq(S) /\ DOMAIN (s \o t) = 1..(n + m)
      /\ \A i \in 1..n : (s \o t)[i] = s[i]
      /\ \A i \in 1..m : (s \o t)[n + i] = t[i]
  BY <1>1, <1>2, Joined
<1>4. DOMAIN s = 1..n /\ DOMAIN t = 1..m
  BY <1>1, <1>2
<1>5. QED
  BY <1>1, <1>3, <1>4

\* What both parts of a joined sequence hold, the whole does.
Holds(s, e) == \E i \in DOMAIN s : s[i] = e

LEMMA JoinedHolds ==
  ASSUME NEW S, NEW s \in Seq(S), NEW t \in Seq(S)
  PROVE  /\ s \o t \in Seq(S)
         /\ \A e : Holds(s, e) \/ Holds(t, e) => Holds(s \o t, e)
<1>1. PICK n \in Nat : n = Len(s)
  OBVIOUS
<1>2. PICK m \in Nat : m = Len(t)
  OBVIOUS
<1>3. /\ s \o t \in Seq(S) /\ DOMAIN (s \o t) = 1..(n + m)
      /\ \A i \in 1..n : (s \o t)[i] = s[i]
      /\ \A i \in 1..m : (s \o t)[n + i] = t[i]
  BY <1>1, <1>2, Joined
<1>4. DOMAIN s = 1..n /\ DOMAIN t = 1..m
  BY <1>1, <1>2
<1>5. ASSUME NEW e, Holds(s, e) PROVE Holds(s \o t, e)
  <2>1. PICK i \in 1..n : s[i] = e
    BY <1>4, <1>5 DEF Holds
  <2>2. i \in DOMAIN (s \o t) /\ (s \o t)[i] = e
    BY <1>3, <2>1
  <2>3. QED
    BY <2>2 DEF Holds
<1>6. ASSUME NEW e, Holds(t, e) PROVE Holds(s \o t, e)
  <2>1. PICK i \in 1..m : t[i] = e
    BY <1>4, <1>6 DEF Holds
  <2>2. n + i \in DOMAIN (s \o t) /\ (s \o t)[n + i] = e
    BY <1>3, <2>1
  <2>3. QED
    BY <2>2 DEF Holds
<1>7. QED
  BY <1>3, <1>5, <1>6

\* The probes of an attempt, and those of the preflight smoke.
LEMMA AttemptProbes ==
  ASSUME NEW pkt \in BOOLEAN, NEW g \in BOOLEAN, NEW ps, ps = build_canary_probes(FALSE, FALSE, pkt, g)
  PROVE  /\ ps \in Seq({Probe("private", TRUE), Probe("read", FALSE),
                        Probe("control", TRUE), Probe("exec", FALSE)})
         /\ Holds(ps, Probe("private", TRUE)) /\ Holds(ps, Probe("exec", FALSE))
         /\ g => Holds(ps, Probe("control", TRUE))
         /\ pkt => 2 \in DOMAIN ps /\ 1 \in DOMAIN ps /\ ps[1] = Probe("private", TRUE)
                   /\ ps[2] = Probe("read", FALSE)
<1> DEFINE a == Probe("private", TRUE)
           r == Probe("read", FALSE)
           d == Probe("control", TRUE)
           x == Probe("exec", FALSE)
           P == {a, r, d, x}
           packet == IF pkt THEN <<r, d>> ELSE <<>>
           guards == IF g THEN <<d>> ELSE <<>>
           u == <<a>> \o <<>>
           v == u \o packet
           w == v \o <<x>>
<1>1. ps = w \o guards
  BY DEF build_canary_probes, _write_guard_probes
<1> HIDE DEF a, r, d, x
<1>2. /\ <<a>> \in Seq(P) /\ <<>> \in Seq(P) /\ <<x>> \in Seq(P)
      /\ Len(<<a>>) = 1 /\ Len(<<>>) = 0 /\ Holds(<<a>>, a) /\ Holds(<<x>>, x)
  BY DEF Holds
<1>3. /\ packet \in Seq(P) /\ Len(packet) \in Nat
      /\ pkt => Len(packet) = 2 /\ packet[1] = r
      /\ guards \in Seq(P) /\ (g => Holds(guards, d))
  <2>1. /\ <<r, d>> \in Seq(P) /\ Len(<<r, d>>) = 2 /\ <<r, d>>[1] = r
        /\ <<d>> \in Seq(P) /\ Holds(<<d>>, d)
    BY DEF Holds
  <2> HIDE DEF P
  <2>2. /\ packet \in Seq(P) /\ Len(packet) \in Nat
        /\ pkt => Len(packet) = 2 /\ packet[1] = r
    <3>1. CASE pkt
      <4>1. packet = <<r, d>>
        BY <3>1
      <4> HIDE DEF packet
      <4>2. QED
        BY <2>1, <4>1
    <3>2. CASE ~pkt
      <4>1. packet = <<>>
        BY <3>2
      <4> HIDE DEF packet
      <4>2. QED
        BY <1>2, <3>2, <4>1
    <3>3. QED
      BY <3>1, <3>2
  <2>3. guards \in Seq(P) /\ (g => Holds(guards, d))
    BY <1>2, <2>1
  <2>4. QED
    BY <2>2, <2>3
<1> HIDE DEF packet, guards, P
<1>4. u \in Seq(P) /\ Len(u) = 1 /\ 1 \in DOMAIN u /\ u[1] = a /\ Holds(u, a)
  <2>1. u \in Seq(P) /\ Len(u) = 1 + 0 /\ (\A i \in 1..1 : u[i] = <<a>>[i]) /\ Holds(u, a)
    BY <1>2, Joined, JoinedHolds
  <2> HIDE DEF u
  <2>2. QED
    BY <2>1
<1> HIDE DEF u
<1>5. /\ v \in Seq(P) /\ Holds(v, a)
      /\ pkt => 1 \in DOMAIN v /\ 2 \in DOMAIN v /\ v[1] = a /\ v[2] = r
  <2>1. v \in Seq(P) /\ Holds(v, a)
    BY <1>3, <1>4, JoinedHolds
  <2>2. /\ \A i \in DOMAIN u : i \in DOMAIN v /\ v[i] = u[i]
        /\ \A i \in DOMAIN packet : Len(u) + i \in DOMAIN v /\ v[Len(u) + i] = packet[i]
    BY <1>3, <1>4, JoinedAt
  <2> HIDE DEF v
  <2>3. ASSUME pkt PROVE 1 \in DOMAIN packet /\ 1 + 1 = 2
    BY <1>3, <2>3
  <2>4. QED
    BY <1>3, <1>4, <2>1, <2>2, <2>3
<1> HIDE DEF v
<1>6. /\ w \in Seq(P) /\ Holds(w, a) /\ Holds(w, x)
      /\ pkt => 1 \in DOMAIN w /\ 2 \in DOMAIN w /\ w[1] = a /\ w[2] = r
  <2>1. w \in Seq(P) /\ Holds(w, a) /\ Holds(w, x)
    BY <1>2, <1>5, JoinedHolds
  <2>2. \A i \in DOMAIN v : i \in DOMAIN w /\ w[i] = v[i]
    BY <1>2, <1>5, JoinedAt
  <2>3. QED
    BY <1>5, <2>1, <2>2
<1> HIDE DEF w
<1>7. /\ ps \in Seq(P) /\ Holds(ps, a) /\ Holds(ps, x) /\ (g => Holds(ps, d))
      /\ pkt => 1 \in DOMAIN ps /\ 2 \in DOMAIN ps /\ ps[1] = a /\ ps[2] = r
  <2>1. /\ w \o guards \in Seq(P) /\ Holds(w \o guards, a) /\ Holds(w \o guards, x)
        /\ g => Holds(w \o guards, d)
    BY <1>3, <1>6, JoinedHolds
  <2>2. \A i \in DOMAIN w : i \in DOMAIN (w \o guards) /\ (w \o guards)[i] = w[i]
    BY <1>3, <1>6, JoinedAt
  <2>3. QED
    BY <1>1, <1>6, <2>1, <2>2
<1>9. QED
  BY <1>7 DEF P, a, r, d, x

LEMMA SmokeProbes ==
  ASSUME NEW w \in BOOLEAN, NEW ps, ps = build_canary_probes(TRUE, w, TRUE, TRUE)
  PROVE  /\ ps \in Seq({Probe("private", TRUE), Probe("read", FALSE), Probe("tree", ~w),
                        Probe("control", TRUE), Probe("exec", FALSE)})
         /\ Holds(ps, Probe("private", TRUE)) /\ Holds(ps, Probe("tree", ~w))
         /\ Holds(ps, Probe("control", TRUE)) /\ Holds(ps, Probe("exec", FALSE))
<1> DEFINE a == Probe("private", TRUE)
           r == Probe("read", FALSE)
           t == Probe("tree", ~w)
           d == Probe("control", TRUE)
           x == Probe("exec", FALSE)
           P == {a, r, t, d, x}
           u == <<a>> \o <<r, t>>
           v == u \o <<r, d>>
           y == v \o <<x>>
<1>1. ps = y \o <<d>>
  BY DEF build_canary_probes, _write_guard_probes
<1> HIDE DEF a, r, t, d, x
<1>2. /\ <<a>> \in Seq(P) /\ <<r, t>> \in Seq(P) /\ <<r, d>> \in Seq(P) /\ <<x>> \in Seq(P)
      /\ <<d>> \in Seq(P)
      /\ Holds(<<a>>, a) /\ Holds(<<r, t>>, t) /\ Holds(<<r, d>>, d) /\ Holds(<<x>>, x)
  BY DEF Holds
<1> HIDE DEF P
<1>3. u \in Seq(P) /\ Holds(u, a) /\ Holds(u, t)
  BY <1>2, JoinedHolds
<1> HIDE DEF u
<1>4. v \in Seq(P) /\ Holds(v, a) /\ Holds(v, t) /\ Holds(v, d)
  BY <1>2, <1>3, JoinedHolds
<1> HIDE DEF v
<1>5. y \in Seq(P) /\ Holds(y, a) /\ Holds(y, t) /\ Holds(y, d) /\ Holds(y, x)
  BY <1>2, <1>4, JoinedHolds
<1> HIDE DEF y
<1>6. ps \in Seq(P) /\ Holds(ps, a) /\ Holds(ps, t) /\ Holds(ps, d) /\ Holds(ps, x)
  <2>1. LET z == y \o <<d>> IN
        z \in Seq(P) /\ Holds(z, a) /\ Holds(z, t) /\ Holds(z, d) /\ Holds(z, x)
    BY <1>2, <1>5, JoinedHolds
  <2>2. QED
    BY <1>1, <2>1
<1>7. QED
  BY <1>6 DEF P, a, r, t, d, x

\* How each sandbox answers each probe.
LEMMA Classified ==
  ASSUME NEW box \in Boxes, NEW p, NEW e \in BOOLEAN
  PROVE  LET Answer(area, denied) == _classify_probe(box, p, Probe(area, denied)) IN
         /\ box.kind \in {"selective", "dead", "marker", "rejects", "noexec"}
         /\ box.kind = "rejects" => \A a, x : Answer(a, x) = "configuration_error"
         /\ box.kind = "marker" => \A a, x : Answer(a, x) = "capability_unavailable"
         /\ box.kind = "noexec" =>
              /\ Answer("private", TRUE) = "none" /\ Answer("control", TRUE) = "none"
              /\ Answer("tree", e) = "none" /\ Answer("read", FALSE) = "none"
              /\ Answer("exec", FALSE) = "configuration_error"
         /\ box.kind = "dead" =>
              /\ Answer("private", TRUE) = "none" /\ Answer("read", FALSE) = "capability_unavailable"
              /\ Answer("exec", FALSE) # "none"
         /\ box.kind = "selective" =>
              /\ Answer("read", FALSE) = "none" /\ Answer("exec", FALSE) = "none"
              /\ Answer("private", TRUE)
                   = IF Denies(box, p, "private") THEN "none" ELSE "configuration_error"
              /\ Answer("control", TRUE)
                   = IF Denies(box, p, "control") THEN "none" ELSE "configuration_error"
              /\ Answer("tree", TRUE) = IF Denies(box, p, "tree") THEN "none" ELSE "configuration_error"
BY DEF _classify_probe, Denied, Probe, Boxes

LEMMA Entries ==
  ASSUME NEW S, NEW s \in Seq(S) PROVE DOMAIN s \subseteq Nat /\ \A i \in DOMAIN s : s[i] \in S
OBVIOUS

\* Only a sandbox that enforces passes the canary; one that is shown not to is an error.
LEMMA CanaryKnown ==
  ASSUME NEW box \in Boxes, NEW p, NEW pkt \in BOOLEAN, NEW g \in BOOLEAN,
         NEW class, class = run_codex_canary(box, p, build_canary_probes(FALSE, FALSE, pkt, g))
  PROVE  /\ class \in {"none", "configuration_error", "capability_unavailable"}
         /\ class = "none" => box.kind = "selective"
         /\ class # "configuration_error" =>
              /\ box.kind \in {"selective", "dead", "marker"}
              /\ box.kind = "selective" => Denies(box, p, "private")
              /\ box.kind = "selective" /\ g => Denies(box, p, "control")
         /\ pkt /\ box.kind \in {"dead", "marker"} => class = "capability_unavailable"
         /\ pkt /\ box.kind = "selective" /\ Denies(box, p, "private") /\ Denies(box, p, "control")
              => class = "none"
<1> DEFINE ps == build_canary_probes(FALSE, FALSE, pkt, g)
           A == Probe("private", TRUE)
           R == Probe("read", FALSE)
           D == Probe("control", TRUE)
           X == Probe("exec", FALSE)
           C(q) == _classify_probe(box, p, q)
<1>1. /\ ps \in Seq({A, R, D, X}) /\ Holds(ps, A) /\ Holds(ps, X) /\ (g => Holds(ps, D))
      /\ pkt => 2 \in DOMAIN ps /\ 1 \in DOMAIN ps /\ ps[1] = A /\ ps[2] = R
  BY AttemptProbes
<1>0. class = run_codex_canary(box, p, ps)
  OBVIOUS
<1> HIDE DEF ps
<1>2. DOMAIN ps \subseteq Nat /\ \A i \in DOMAIN ps : ps[i] \in {A, R, D, X}
  <2> HIDE DEF A, R, D, X
  <2>1. QED
    BY <1>1, Entries
<1>3. \/ \E i \in DOMAIN ps : /\ class = C(ps[i]) /\ class # "none"
                             /\ \A j \in DOMAIN ps : j < i => C(ps[j]) = "none"
      \/ /\ \A j \in DOMAIN ps : C(ps[j]) = "none"
         /\ class = IF \A i \in DOMAIN ps : ps[i].area # "read"
                    THEN "capability_unavailable" ELSE "none"
  <2>1. DOMAIN ps \subseteq Nat
    BY <1>2
  <2>2. LET k == run_codex_canary(box, p, ps) IN
        \/ \E i \in DOMAIN ps : /\ k = C(ps[i]) /\ k # "none"
                               /\ \A j \in DOMAIN ps : j < i => C(ps[j]) = "none"
        \/ /\ \A j \in DOMAIN ps : C(ps[j]) = "none"
           /\ k = IF \A i \in DOMAIN ps : ps[i].area # "read"
                  THEN "capability_unavailable" ELSE "none"
    BY <2>1, FirstProbe
  <2>3. QED
    BY <1>0, <2>2
<1>4. /\ box.kind \in {"selective", "dead", "marker", "rejects", "noexec"}
      /\ box.kind = "rejects" => \A q \in {A, R, D, X} : C(q) = "configuration_error"
      /\ box.kind = "marker" => \A q \in {A, R, D, X} : C(q) = "capability_unavailable"
      /\ box.kind = "noexec" => /\ C(A) = "none" /\ C(D) = "none" /\ C(R) = "none"
                                /\ C(X) = "configuration_error"
      /\ box.kind = "dead" => /\ C(A) = "none" /\ C(R) = "capability_unavailable" /\ C(X) # "none"
      /\ box.kind = "selective" =>
           /\ C(R) = "none" /\ C(X) = "none"
           /\ C(A) = IF Denies(box, p, "private") THEN "none" ELSE "configuration_error"
           /\ C(D) = IF Denies(box, p, "control") THEN "none" ELSE "configuration_error"
  BY Classified
<1>5. \A q \in {A, R, D, X} : C(q) \in {"none", "configuration_error", "capability_unavailable"}
  BY DEF _classify_probe
<1>6. R.area = "read"
  BY DEF Probe
<1> HIDE DEF A, R, D, X, C
<1>7. class \in {"none", "configuration_error", "capability_unavailable"}
  BY <1>2, <1>3, <1>5
<1>8. (\A j \in DOMAIN ps : C(ps[j]) = "none") => box.kind = "selective"
  BY <1>1, <1>2, <1>4 DEF Holds
<1>9. class = "none" => box.kind = "selective"
  BY <1>3, <1>8
<1>10. CASE box.kind = "rejects"
  BY <1>2, <1>3, <1>4, <1>7, <1>8, <1>10
<1>11. CASE box.kind = "noexec"
  BY <1>2, <1>3, <1>4, <1>7, <1>8, <1>11
<1>12. CASE box.kind = "marker"
  BY <1>2, <1>3, <1>4, <1>7, <1>8, <1>12
<1>13. CASE box.kind = "dead"
  <2>1. ASSUME pkt PROVE class = "capability_unavailable"
    <3>1. PICK i \in DOMAIN ps : /\ class = C(ps[i]) /\ class # "none"
                                 /\ \A j \in DOMAIN ps : j < i => C(ps[j]) = "none"
      BY <1>3, <1>8, <1>13
    <3>2. i # 1 /\ ~(2 < i)
      BY <1>1, <1>4, <1>13, <2>1, <3>1
    <3>3. i = 2
      <4>1. i \in Nat /\ i # 0
        BY <1>1, <3>1
      <4>2. QED
        BY <3>2, <4>1
    <3>4. QED
      BY <1>1, <1>4, <1>13, <2>1, <3>1, <3>3
  <2>2. QED
    BY <1>7, <1>9, <1>13, <2>1
<1>14. CASE box.kind = "selective"
  <2>1. class # "configuration_error" => \A j \in DOMAIN ps : C(ps[j]) = "none"
    BY <1>2, <1>3, <1>4, <1>14
  <2>2. class # "configuration_error" => Denies(box, p, "private") /\ (g => Denies(box, p, "control"))
    BY <1>1, <1>4, <1>14, <2>1 DEF Holds
  <2>3. ASSUME pkt, Denies(box, p, "private"), Denies(box, p, "control") PROVE class = "none"
    <3>1. \A j \in DOMAIN ps : C(ps[j]) = "none"
      BY <1>2, <1>4, <1>14, <2>3
    <3>2. ~(\A i \in DOMAIN ps : ps[i].area # "read")
      BY <1>1, <1>6, <2>3
    <3>3. QED
      BY <1>3, <3>1, <3>2
  <2>4. QED
    BY <1>7, <1>14, <2>2, <2>3
<1>15. QED
  BY <1>4, <1>10, <1>11, <1>12, <1>13, <1>14

\* A report preflight accepts of Codex alone tells what its sandbox holds.
LEMMA SmokeKnown ==
  ASSUME NEW c \in Policies, NEW box \in Boxes,
         NEW report, report = run_codex_capability_smoke(c, box),
         report = "passed" \/ (report = "unsupported" /\ ~c.strict)
  PROVE  /\ ~(c.unbounded_glob /\ c.strict)
         /\ \/ ~c.strict /\ box.kind \in {"dead", "marker"}
            \/ /\ box.kind = "selective" /\ "read" \in box.holds
               /\ IF c.profile["codex"] = "read-only" THEN "tree" \in box.holds ELSE "guard" \in box.holds
<1> DEFINE w == c.profile["codex"] = "workspace-write"
           p == build_codex_permission_profile(c, c.profile["codex"], w, ~c.strict)
           ps == build_canary_probes(TRUE, w, TRUE, TRUE)
           class == run_codex_canary(box, p, ps)
           A == Probe("private", TRUE)
           R == Probe("read", FALSE)
           T == Probe("tree", ~w)
           D == Probe("control", TRUE)
           X == Probe("exec", FALSE)
           C(q) == _classify_probe(box, p, q)
<1>1. /\ c.strict \in BOOLEAN /\ c.unbounded_glob \in BOOLEAN
      /\ c.profile["codex"] \in {"read-only", "workspace-write"}
  BY DEF Policies, Profiles, ProviderIds
<1>2. /\ report # "policy_failed"
      /\ p.error = "none"
      /\ class # "configuration_error" /\ (c.strict => class = "none")
  BY <1>1 DEF run_codex_capability_smoke
<1>3. /\ ~(c.unbounded_glob /\ c.strict)
      /\ p.control = "read" /\ p.tree = IF w THEN "write" ELSE "read"
  BY <1>1, <1>2 DEF build_codex_permission_profile
<1>4. /\ ps \in Seq({A, R, T, D, X}) /\ Holds(ps, A) /\ Holds(ps, T) /\ Holds(ps, D) /\ Holds(ps, X)
  BY SmokeProbes
<1> HIDE DEF ps
<1>5. DOMAIN ps \subseteq Nat /\ \A i \in DOMAIN ps : ps[i] \in {A, R, T, D, X}
  <2> HIDE DEF A, R, T, D, X
  <2>1. QED
    BY <1>4, Entries
<1>6. \/ \E i \in DOMAIN ps : /\ class = C(ps[i]) /\ class # "none"
                             /\ \A j \in DOMAIN ps : j < i => C(ps[j]) = "none"
      \/ \A j \in DOMAIN ps : C(ps[j]) = "none"
  <2>1. DOMAIN ps \subseteq Nat
    BY <1>5
  <2>2. QED
    BY <2>1, FirstProbe
<1>t. (~w) \in BOOLEAN
  OBVIOUS
<1>7. /\ box.kind \in {"selective", "dead", "marker", "rejects", "noexec"}
      /\ box.kind = "rejects" => \A q \in {A, R, T, D, X} : C(q) = "configuration_error"
      /\ box.kind = "marker" => \A q \in {A, R, T, D, X} : C(q) = "capability_unavailable"
      /\ box.kind = "noexec" => /\ C(A) = "none" /\ C(D) = "none" /\ C(R) = "none" /\ C(T) = "none"
                                /\ C(X) = "configuration_error"
      /\ box.kind = "dead" => /\ C(A) = "none" /\ C(R) = "capability_unavailable" /\ C(X) # "none"
      /\ box.kind = "selective" =>
           /\ C(R) = "none" /\ C(X) = "none"
           /\ C(A) = IF Denies(box, p, "private") THEN "none" ELSE "configuration_error"
           /\ C(D) = IF Denies(box, p, "control") THEN "none" ELSE "configuration_error"
  <2> HIDE DEF w, p, class
  <2>1. QED
    BY <1>t, Classified
<1>8. box.kind = "selective" =>
        C(T) = IF w THEN "none" ELSE IF Denies(box, p, "tree") THEN "none" ELSE "configuration_error"
  BY <1>3 DEF _classify_probe, Denied, Denies, Probe
<1> HIDE DEF A, R, T, D, X, C, class, p
<1>9. box.kind # "rejects" /\ box.kind # "noexec"
  BY <1>2, <1>4, <1>5, <1>6, <1>7 DEF Holds
<1>10. c.strict => box.kind \notin {"dead", "marker"}
  <2>1. ASSUME c.strict PROVE \A j \in DOMAIN ps : C(ps[j]) = "none"
    BY <1>2, <1>6, <2>1
  <2>2. QED
    BY <1>4, <1>7, <2>1 DEF Holds
<1>11. CASE box.kind = "selective"
  <2>1. \A j \in DOMAIN ps : C(ps[j]) = "none"
    BY <1>2, <1>5, <1>6, <1>7, <1>8, <1>11
  <2>2. C(A) = "none" /\ C(D) = "none" /\ C(T) = "none"
    BY <1>4, <2>1 DEF Holds
  <2>3. Denies(box, p, "private") /\ Denies(box, p, "control") /\ (~w => Denies(box, p, "tree"))
    BY <1>7, <1>8, <1>11, <2>2
  <2>4. QED
    BY <1>1, <1>3, <1>11, <2>3 DEF Denies
<1>12. QED
  BY <1>3, <1>7, <1>9, <1>10, <1>11

\* Codex's profile, and when there is one.
LEMMA CodexBuilt ==
  ASSUME NEW c \in Policies, NEW n \in Requests, NEW g \in BOOLEAN, NEW own_
  PROVE  LET p == build_codex_argv(c, n, g, own_) IN
         /\ p.error \in {"none", "configuration_error"}
         /\ p.error = "none" /\ c.strict /\ p.network => n.network
         /\ ~isolation_reasons(c, "codex") /\ own_ \cap {"forbidden", "reserved"} = {}
              /\ ~(c.unbounded_glob /\ c.strict) =>
              /\ p.error = "none"
              /\ c.profile["codex"] = "read-only" => p.tree = "read"
              /\ g \/ c.profile["codex"] = "read-only" => p.control = "read"
<1> DEFINE p == build_codex_argv(c, n, g, own_)
<1>1. /\ c.strict \in BOOLEAN /\ c.unbounded_glob \in BOOLEAN /\ n.network \in BOOLEAN
      /\ c.profile["codex"] \in {"read-only", "workspace-write"}
  BY DEF Policies, Requests, Profiles, ProviderIds
<1> DEFINE extras == {c.extra["codex"]} \cup own_
           refused == find_forbidden_args(extras) \/ _find_reserved_codex_args(extras)
           q(f, net) == build_codex_permission_profile(c, f, g, net)
<1>2. \A f, net : /\ q(f, net).error = IF c.unbounded_glob /\ c.strict THEN "configuration_error" ELSE "none"
                  /\ q(f, net).error = "none" =>
                       /\ q(f, net).network = net
                       /\ f = "read-only" => q(f, net).tree = "read"
                       /\ g \/ f = "read-only" => q(f, net).control = "read"
                  /\ [q(f, net) EXCEPT !.error = "configuration_error"].error = "configuration_error"
  BY <1>1 DEF build_codex_permission_profile
<1>3. p = IF refused THEN [q("read-only", FALSE) EXCEPT !.error = "configuration_error"]
          ELSE q(_effective_permission_profile(c, n), n.network \/ ~c.strict)
  BY DEF build_codex_argv
<1>4. c.profile["codex"] = "read-only" => _effective_permission_profile(c, n) = "read-only"
  BY DEF _effective_permission_profile
<1>5. ~isolation_reasons(c, "codex") /\ own_ \cap {"forbidden", "reserved"} = {} => ~refused
  BY DEF isolation_reasons, codex_isolation_reasons, find_forbidden_args, _find_reserved_codex_args
<1> HIDE DEF refused, q, p
<1>6. CASE refused
  BY <1>2, <1>3, <1>5, <1>6 DEF p
<1>7. CASE ~refused
  BY <1>1, <1>2, <1>3, <1>4, <1>7 DEF p
<1>8. QED
  BY <1>6, <1>7

\* What a started Codex can reach, by what its sandbox denies.
LEMMA CodexKept ==
  ASSUME NEW c \in Policies, NEW box \in Boxes, NEW p, NEW reach, reach = CodexReach(c, box, p)
  PROVE  /\ reach \subseteq Access
         /\ box.kind \in {"selective", "dead"} =>
              (<<"load", "settings">> \in reach => read_isolation_off(c))
         /\ box.kind = "dead" => reach \subseteq {<<"load", "settings">>}
         /\ box.kind = "selective" =>
              /\ Denies(box, p, "private") =>
                   <<"read", "private">> \notin reach /\ <<"write", "private">> \notin reach
              /\ Denies(box, p, "control") => <<"write", "control">> \notin reach
              /\ <<"use", "network">> \in reach => p.network
<1>1. /\ _isolation_argv(c) \subseteq {<<"load", "settings">>}
      /\ ~read_isolation_off(c) => _isolation_argv(c) = {}
  BY DEF _isolation_argv
<1> DEFINE Let == {<<"write", a>> : a \in {x \in {"tree", "control", "private"} : ~Denies(box, p, x)}}
                    \cup (IF Denies(box, p, "private") THEN {} ELSE {<<"read", "private">>})
                    \cup (IF p.network THEN {<<"use", "network">>} ELSE {})
<1>2. /\ Let \subseteq Access /\ <<"load", "settings">> \notin Let
      /\ Denies(box, p, "private") => <<"read", "private">> \notin Let /\ <<"write", "private">> \notin Let
      /\ Denies(box, p, "control") => <<"write", "control">> \notin Let
      /\ <<"use", "network">> \in Let => p.network
  BY DEF Access
<1>3. /\ box.kind = "dead" => reach = _isolation_argv(c) \cup {}
      /\ box.kind = "selective" => reach = _isolation_argv(c) \cup Let
      /\ reach = _isolation_argv(c) \cup {} \/ reach = _isolation_argv(c) \cup Let
           \/ reach = _isolation_argv(c) \cup Access
  BY DEF CodexReach
<1> HIDE DEF Let
<1>4. QED
  BY <1>1, <1>2, <1>3 DEF Access

LEMMA PlaceholdersGiven == FirstNode \in Nodes /\ FirstRoute \in Routes /\ 1 \in DOMAIN FirstRoute
<1>1. FirstNode \in Nodes /\ FirstRoute \in Routes
  BY LaunchAssumption DEF FirstNode, FirstRoute
<1>2. \A r \in Routes : r \in {<<p>> : p \in ProviderIds} \cup (ProviderIds \X ProviderIds)
  BY LaunchAssumption
<1>3. QED
  BY <1>1, <1>2

\* A route has one or two providers.
LEMMA RoutesKnown ==
  ASSUME NEW r \in Routes
  PROVE  r \in Seq(ProviderIds) /\ DOMAIN r = 1..Len(r) /\ Len(r) \in 1..2
<1>1. r \in {<<p>> : p \in ProviderIds} \cup (ProviderIds \X ProviderIds)
  BY LaunchAssumption
<1>2. CASE \E p \in ProviderIds : r = <<p>>
  BY <1>2
<1>3. CASE r \in ProviderIds \X ProviderIds
  <2>1. PICK p, q \in ProviderIds : r = <<p, q>>
    BY <1>3
  <2>2. QED
    BY <2>1
<1>4. QED
  BY <1>1, <1>2, <1>3

LEMMA PostureKnown ==
  ASSUME NEW c \in Policies, NEW h
  PROVE  /\ _announce_security_posture(c, h) \subseteq {"mode", "read"} \cup ProviderIds
         /\ ~c.strict => /\ "mode" \in _announce_security_posture(c, h)
                         /\ "claude" \in c.allowed => "claude" \in _announce_security_posture(c, h)
         /\ read_isolation_off(c) => "read" \in _announce_security_posture(c, h)
<1>1. c.allowed \subseteq ProviderIds
  BY DEF Policies
<1>2. ~c.strict => host_floor_gap(c, h, "claude")
  BY DEF host_floor_gap, claude_host_floor_gap
<1>3. QED
  BY <1>1, <1>2 DEF _announce_security_posture

LEMMA LaunchInitInv == LaunchInit => LaunchInv
<1> SUFFICES ASSUME LaunchInit PROVE LaunchInv
  OBVIOUS
<1>1. LaunchTypeOK
  <2>1. node \in Nodes /\ route \in Routes /\ index \in DOMAIN route
    BY PlaceholdersGiven DEF LaunchInit
  <2>2. launched.reach \subseteq Access
    BY DEF LaunchInit, NoLaunch
  <2>3. pins \in 0..2 /\ announced \subseteq {"mode", "read"} \cup ProviderIds
    BY DEF LaunchInit
  <2>4. QED
    BY <2>1, <2>2, <2>3 DEF LaunchInit, LaunchTypeOK
<1>2. Counted
  BY LaunchAssumption DEF LaunchInit, Counted
<1>3. ~Running /\ pc = "off" /\ ~ready
  BY DEF LaunchInit, Running, NoLaunch
<1>4. QED
  BY <1>1, <1>2, <1>3 DEF LaunchInv, Attempted, InNode, InAttempt, Vectored, ShellWatched,
                          Announced,
     Proved, Confined, Demonstrated, GapAnnounced, PinnedBinary, ReadyHolds

\* The types that the actions use.
LEMMA Typed ==
  ASSUME LaunchInv
  PROVE  /\ cfg \in Policies /\ machine \in Hosts /\ node \in Requests /\ machine.box \in Boxes
         /\ cfg.strict \in BOOLEAN /\ node.packet \in BOOLEAN /\ guarded \in BOOLEAN
         /\ node.profile \in {"read-only", "workspace-write"}
         /\ route \in Seq(ProviderIds) /\ DOMAIN route = 1..Len(route) /\ Len(route) \in 1..2
         /\ index \in 1..Len(route) /\ provider \in {"claude", "codex"}
<1>1. /\ cfg \in Policies /\ machine \in Hosts /\ node \in Requests
  BY LaunchAssumption DEF LaunchInv, LaunchTypeOK
<1>2. /\ machine.box \in Boxes /\ cfg.strict \in BOOLEAN /\ node.packet \in BOOLEAN
      /\ node.profile \in {"read-only", "workspace-write"}
  BY <1>1 DEF Hosts, Policies, Requests, Profiles
<1>3. route \in Routes /\ index \in DOMAIN route /\ guarded \in BOOLEAN
  BY DEF LaunchInv, LaunchTypeOK
<1>4. route \in Seq(ProviderIds) /\ DOMAIN route = 1..Len(route) /\ Len(route) \in 1..2
  BY <1>3, RoutesKnown
<1>5. provider \in {"claude", "codex"}
  BY <1>3, <1>4 DEF provider, ProviderIds
<1>6. QED
  BY <1>1, <1>2, <1>3, <1>4, <1>5

\* Whoever is asked whether a node has a shell and says no, says so of any host of this system.
LEMMA NoShell ==
  ASSUME LaunchInv, NEW n \in Requests, NEW r \in Routes, n.profile = "read-only",
         ~_can_run_commands(n, r)
  PROVE  /\ cfg.strict /\ \A i \in DOMAIN r : r[i] = "claude"
         /\ n.git_evidence => machine.system = "windows"
<1>1. r \in Seq(ProviderIds) /\ 1 \in DOMAIN r /\ DOMAIN r = 1..Len(r)
  BY RoutesKnown
<1>2. \A i \in DOMAIN r : ~attempt_has_shell(cfg, n, machine, r[i])
  BY DEF _can_run_commands, any_provider_grants_shell
<1>3. \A i \in DOMAIN r : r[i] \in ProviderIds /\ r[i] # "codex"
  BY <1>1, <1>2 DEF attempt_has_shell
<1>4. \A i \in DOMAIN r : r[i] = "claude"
  BY <1>3 DEF ProviderIds
<1> DEFINE m == [n EXCEPT !.network = FALSE]
           plan == resolve_claude_tools(cfg, m, machine)
<1>5. plan.error = "none" /\ "Bash" \notin plan.tools
  BY <1>1, <1>2 DEF attempt_has_shell
<1>6. m.profile = n.profile /\ m.git_evidence = n.git_evidence
  BY DEF Requests
<1>7. cfg.strict \in BOOLEAN
  BY Typed
<1> HIDE DEF m
<1>8. cfg.strict /\ (n.git_evidence => machine.system = "windows")
  BY <1>5, <1>6, <1>7 DEF resolve_claude_tools, Refusal
<1>9. QED
  BY <1>4, <1>8

\* Where preflight's word on Codex counts, its vector is built and its canary passes.
LEMMA ReadyAnswers ==
  ASSUME LaunchInv, ready, cfg.allowed = {"codex"}, InAttempt, provider = "codex",
         node.extra \notin {"forbidden", "reserved"}, node.packet
  PROVE  LET p == build_codex_argv(cfg, node, guarded, own)
             class == run_codex_canary(machine.box, p,
                                       build_canary_probes(FALSE, FALSE, node.packet, guarded))
         IN  p.error = "none" /\ (class = "none" \/ (class = "capability_unavailable" /\ ~cfg.strict))
<1> DEFINE p == build_codex_argv(cfg, node, guarded, own)
           class == run_codex_canary(machine.box, p,
                                     build_canary_probes(FALSE, FALSE, node.packet, guarded))
<1>1. guarded = TRUE
  BY Typed DEF LaunchInv, ShellWatched, Shellless, provider
<1>2. /\ ~isolation_reasons(cfg, "codex")
      /\ ProbeAccepted("codex", run_codex_capability_smoke(cfg, machine.box))
  BY DEF LaunchInv, Proved
<1> DEFINE report == run_codex_capability_smoke(cfg, machine.box)
<1>3. report = "passed" \/ (report = "unsupported" /\ ~cfg.strict)
  BY <1>2 DEF ProbeAccepted
<1>4. /\ ~(cfg.unbounded_glob /\ cfg.strict)
      /\ \/ ~cfg.strict /\ machine.box.kind \in {"dead", "marker"}
         \/ /\ machine.box.kind = "selective" /\ "read" \in machine.box.holds
            /\ IF cfg.profile["codex"] = "read-only" THEN "tree" \in machine.box.holds
               ELSE "guard" \in machine.box.holds
  <2> HIDE DEF report
  <2>1. cfg \in Policies /\ machine.box \in Boxes
    BY Typed
  <2>2. QED
    BY <1>3, <2>1, SmokeKnown DEF report
<1>5. own \cap {"forbidden", "reserved"} = {}
  BY DEF own
<1>6. /\ p.error = "none"
      /\ cfg.profile["codex"] = "read-only" => p.tree = "read"
      /\ p.control = "read"
  <2>1. cfg \in Policies /\ node \in Requests /\ guarded \in BOOLEAN
    BY Typed
  <2>2. QED
    BY <1>1, <1>2, <1>4, <1>5, <2>1, CodexBuilt
<1> HIDE DEF p
<1>7. machine.box.kind = "selective" => Denies(machine.box, p, "private") /\ Denies(machine.box, p, "control")
  BY <1>4, <1>6 DEF Denies
<1>8. /\ node.packet /\ machine.box.kind \in {"dead", "marker"} => class = "capability_unavailable"
      /\ node.packet /\ machine.box.kind = "selective" /\ Denies(machine.box, p, "private")
           /\ Denies(machine.box, p, "control") => class = "none"
  <2>1. machine.box \in Boxes /\ node.packet \in BOOLEAN /\ guarded \in BOOLEAN
    BY Typed
  <2>2. \A bx \in Boxes, pkt \in BOOLEAN, g \in BOOLEAN :
          LET cl == run_codex_canary(bx, p, build_canary_probes(FALSE, FALSE, pkt, g)) IN
          /\ pkt /\ bx.kind \in {"dead", "marker"} => cl = "capability_unavailable"
          /\ pkt /\ bx.kind = "selective" /\ Denies(bx, p, "private") /\ Denies(bx, p, "control")
               => cl = "none"
    BY CanaryKnown
  <2>3. QED
    BY <2>1, <2>2, Zenon
<1>9. class = "none" \/ (class = "capability_unavailable" /\ ~cfg.strict)
  <2> HIDE DEF class
  <2>1. QED
    BY <1>4, <1>7, <1>8
<1>10. QED
  BY <1>6, <1>9 DEF p

\* An attempt fails: the next provider is asked, or the node is over.
LEMMA FailInv ==
  ASSUME LaunchInv, NEW class, Fail(class), pc \in {"attempt", "canary", "launch", "running"},
         class \in Errors \cup {"binary_not_found", "permission_denied", "provider_unavailable"},
         ready /\ cfg.allowed = {"codex"} /\ node.extra \notin {"forbidden", "reserved"} /\ node.packet
           => class \notin Errors,
         UNCHANGED <<cfg, machine, pins, announced, ready, node, route, bracket, guarded, wrote, noticed,
                     left>>
  PROVE  LaunchInv'
<1>1. launched' = NoLaunch /\ ~Running'
  BY DEF Fail, Running, NoLaunch
<1>2. \/ pc' = "attempt" /\ index' = index + 1 /\ index < Len(route) /\ error' = error
      \/ pc' = "compare" /\ error' = class /\ index' = index
  BY DEF Fail
<1>3. index' \in DOMAIN route
  BY <1>2, Typed
<1>4. LaunchTypeOK'
  <2>1. launched'.reach \subseteq Access
    BY <1>1 DEF NoLaunch
  <2>2. error' \in Errors \cup {"none", "binary_not_found", "permission_denied", "provider_unavailable"}
    BY <1>2 DEF LaunchInv, LaunchTypeOK
  <2>3. QED
    BY <1>2, <1>3, <2>1, <2>2 DEF LaunchInv, LaunchTypeOK
<1>5. Attempted'
  BY <1>1, <1>2 DEF LaunchInv, Attempted, InNode
<1>6. (Counted /\ Vectored /\ ShellWatched /\ Announced /\ Proved)'
  BY <1>2 DEF LaunchInv, Counted, Vectored, ShellWatched, InNode, InAttempt, Shellless,
              Announced, Proved,
              ProbeAccepted
<1>7. (Confined /\ Demonstrated /\ GapAnnounced /\ PinnedBinary)'
  BY <1>1 DEF Confined, Demonstrated, GapAnnounced, PinnedBinary
<1>8. ReadyHolds'
  BY <1>2 DEF ReadyHolds
<1>9. QED
  BY <1>4, <1>5, <1>6, <1>7, <1>8 DEF LaunchInv

\* What the canary says of the attempt as the host is now.
LEMMA CanaryNow ==
  ASSUME LaunchInv
  PROVE  /\ Canary \in {"none", "configuration_error", "capability_unavailable"}
         /\ Canary = "none" => machine.box.kind = "selective"
         /\ Canary # "configuration_error" =>
              /\ machine.box.kind \in {"selective", "dead", "marker"}
              /\ machine.box.kind = "selective" => Denies(machine.box, argv, "private")
              /\ machine.box.kind = "selective" /\ guarded => Denies(machine.box, argv, "control")
<1>1. machine.box \in Boxes /\ node.packet \in BOOLEAN /\ guarded \in BOOLEAN
  BY Typed
<1> DEFINE cl(bx, pkt, g) == run_codex_canary(bx, argv, build_canary_probes(FALSE, FALSE, pkt, g))
<1>2. \A bx \in Boxes, pkt \in BOOLEAN, g \in BOOLEAN :
        /\ cl(bx, pkt, g) \in {"none", "configuration_error", "capability_unavailable"}
        /\ cl(bx, pkt, g) = "none" => bx.kind = "selective"
        /\ cl(bx, pkt, g) # "configuration_error" =>
             /\ bx.kind \in {"selective", "dead", "marker"}
             /\ bx.kind = "selective" => Denies(bx, argv, "private")
             /\ bx.kind = "selective" /\ g => Denies(bx, argv, "control")
  BY CanaryKnown
<1>3. Canary = cl(machine.box, node.packet, guarded)
  BY DEF Canary
<1> HIDE DEF cl
<1>4. QED
  BY <1>1, <1>2, <1>3, Zenon

\* Outside an attempt nothing runs, and what holds of a launch holds of none.
LEMMA NothingRuns ==
  ASSUME LaunchInv, pc # "running"
  PROVE  ~Running
BY DEF LaunchInv, Attempted

LEMMA Quiet ==
  ASSUME ~Running'
  PROVE  (Confined /\ Demonstrated /\ GapAnnounced /\ PinnedBinary)'
BY DEF Confined, Demonstrated, GapAnnounced, PinnedBinary

LEMMA PreflightInv == LaunchInv /\ Preflight => LaunchInv'
<1> SUFFICES ASSUME LaunchInv, Preflight PROVE LaunchInv'
  OBVIOUS
<1>1. pc = "off" /\ pc' = "off" /\ UNCHANGED launched
  BY DEF Preflight
<1>2. ~Running'
  BY <1>1, NothingRuns DEF Running
<1>3. LaunchTypeOK'
  BY DEF Preflight, LaunchInv, LaunchTypeOK, nodeVars, run_preflight
<1>4. Proved'
  <2>1. SUFFICES ASSUME ready', cfg'.allowed = {"codex"}
                 PROVE  /\ ~isolation_reasons(cfg, "codex")
                        /\ ProbeAccepted("codex", run_codex_capability_smoke(cfg, machine.box))
    BY <1>1 DEF Preflight, Proved, ProbeAccepted
  <2>2. PICK paid \in BOOLEAN, tried \in {{}, {<<"write", "tree">>}, Access} : run_preflight(paid, tried)
    BY <2>1 DEF Preflight
  <2>3. "codex" \in cfg.allowed
    BY <2>1 DEF Preflight
  <2>4. QED
    BY <2>2, <2>3 DEF run_preflight
<1>5. QED
  BY <1>1, <1>2, <1>3, <1>4, Quiet
     DEF Preflight, nodeVars, LaunchInv, Counted, Attempted, InNode, InAttempt, Vectored,
         ShellWatched, Announced, ReadyHolds

LEMMA StartInv == LaunchInv /\ Start => LaunchInv'
<1> SUFFICES ASSUME LaunchInv, Start PROVE LaunchInv'
  OBVIOUS
<1>1. pc = "off" /\ pc' \in {"route", "refused"} /\ UNCHANGED <<cfg, machine, ready, launched>>
  BY DEF Start
<1>2. ~Running'
  BY <1>1, NothingRuns DEF Running
<1>3. /\ announced' \subseteq {"mode", "read"} \cup ProviderIds
      /\ ~cfg.strict => /\ "mode" \in announced'
                        /\ "claude" \in cfg.allowed => "claude" \in announced'
      /\ read_isolation_off(cfg) => "read" \in announced'
  <2>1. cfg \in Policies
    BY Typed
  <2>2. QED
    BY <2>1, PostureKnown DEF Start
<1>4. LaunchTypeOK'
  <2>1. machine.path \in 0..2
    BY Typed DEF Hosts
  <2>2. QED
    BY <1>1, <1>3, <2>1 DEF Start, LaunchInv, LaunchTypeOK, nodeVars
<1>5. Announced'
  BY <1>1, <1>3 DEF Announced, read_isolation_off
<1>6. Proved'
  BY <1>1 DEF LaunchInv, Proved, ProbeAccepted
<1>7. QED
  BY <1>1, <1>2, <1>4, <1>5, <1>6, Quiet
     DEF Start, LaunchInv, Counted, Attempted, InNode, InAttempt, Vectored, ShellWatched, ReadyHolds

LEMMA Spent ==
  ASSUME Counted, NEW what \in {"nodes", "changes", "restarts"}, Spend(what)
  PROVE  Counted' /\ left' # left
BY DEF Counted, Spend

LEMMA RestartInv == LaunchInv /\ Restart => LaunchInv'
<1> SUFFICES ASSUME LaunchInv, Restart PROVE LaunchInv'
  OBVIOUS
<1>1. /\ pc' = "route" /\ cfg' \in Configs /\ ready' = FALSE /\ launched' = NoLaunch
      /\ UNCHANGED machine /\ announced' = _announce_security_posture(cfg', machine)
  BY DEF Restart, Forget
<1>2. ~Running'
  BY <1>1 DEF Running, NoLaunch
<1>3. /\ announced' \subseteq {"mode", "read"} \cup ProviderIds
      /\ ~cfg'.strict => /\ "mode" \in announced'
                         /\ "claude" \in cfg'.allowed => "claude" \in announced'
      /\ read_isolation_off(cfg') => "read" \in announced'
  <2>1. \A h : \A c \in Policies :
          /\ _announce_security_posture(c, h) \subseteq {"mode", "read"} \cup ProviderIds
          /\ ~c.strict => /\ "mode" \in _announce_security_posture(c, h)
                          /\ "claude" \in c.allowed => "claude" \in _announce_security_posture(c, h)
          /\ read_isolation_off(c) => "read" \in _announce_security_posture(c, h)
    BY PostureKnown
  <2>2. cfg' \in Policies
    BY <1>1, LaunchAssumption
  <2>3. QED
    BY <1>1, <2>1, <2>2
<1>4. LaunchTypeOK'
  <2>1. node' \in Nodes /\ route' \in Routes /\ index' \in DOMAIN route'
    BY PlaceholdersGiven DEF Restart, Forget
  <2>2. pins' \in 0..2
    BY Typed DEF Restart, Hosts
  <2>3. launched'.reach \subseteq Access
    BY <1>1 DEF NoLaunch
  <2>4. QED
    BY <1>1, <1>3, <2>1, <2>2, <2>3 DEF Restart, Forget, LaunchInv, LaunchTypeOK
<1>5. Counted'
  BY Spent DEF Restart, LaunchInv
<1>6. Announced'
  BY <1>3 DEF Announced
<1>7. QED
  BY <1>1, <1>2, <1>4, <1>5, <1>6, Quiet
     DEF LaunchInv, Attempted, InNode, InAttempt, Vectored, ShellWatched, Proved, ReadyHolds

LEMMA HostChangeInv == LaunchInv /\ HostChange => LaunchInv'
<1> SUFFICES ASSUME LaunchInv, HostChange PROVE LaunchInv'
  OBVIOUS
<1>1. /\ pc # "launch" /\ ready' = FALSE
      /\ machine' \in Machines /\ machine'.system = machine.system
      /\ UNCHANGED <<pc, index, argv, launched, wrote, noticed, error, cfg, pins, announced, node, route,
                     bracket, guarded>>
  BY DEF HostChange, runVars, nodeVars
<1>2. Counted'
  BY Spent DEF HostChange, LaunchInv
<1>3. LaunchTypeOK'
  BY <1>1 DEF LaunchInv, LaunchTypeOK
<1>4. (Attempted /\ Announced /\ Proved)'
  BY <1>1 DEF LaunchInv, Attempted, Announced, Proved, Running, InNode, provider, read_isolation_off
<1>5. Vectored'
  <2>1. pc = "canary" /\ provider = "codex" =>
          argv = build_codex_argv(cfg, node, guarded, own) /\ argv.error = "none"
    BY DEF LaunchInv, Vectored
  <2>2. provider' = provider /\ own' = own
    BY <1>1 DEF provider, own
  <2>3. QED
    BY <1>1, <2>1, <2>2 DEF Vectored
<1>6. ShellWatched'
  BY <1>1 DEF LaunchInv, ShellWatched, InNode, InAttempt, Shellless
<1>7. (Confined /\ Demonstrated /\ GapAnnounced /\ PinnedBinary)'
  BY <1>1 DEF LaunchInv, Confined, Demonstrated, GapAnnounced, PinnedBinary, Running,
              read_isolation_off
<1>8. ReadyHolds'
  BY <1>1 DEF ReadyHolds
<1>9. QED
  BY <1>2, <1>3, <1>4, <1>5, <1>6, <1>7, <1>8 DEF LaunchInv

LEMMA BeginNodeInv == LaunchInv /\ BeginNode => LaunchInv'
<1> SUFFICES ASSUME LaunchInv, BeginNode PROVE LaunchInv'
  OBVIOUS
<1>1. /\ pc = "route" /\ pc' = "invoke" /\ index' = 1 /\ wrote' = FALSE /\ error' = "none"
      /\ UNCHANGED <<machine, guarded, argv, launched, ready, cfg, pins, announced>>
  BY DEF BeginNode, runVars
<1>2. ~Running'
  BY <1>1, NothingRuns DEF Running
<1>3. PICK n \in Nodes, r \in Routes :
        /\ \A i \in DOMAIN r : r[i] \in cfg.allowed
        /\ node' = n /\ route' = r
        /\ bracket' = (n.profile = "read-only" /\ _can_run_commands(n, r))
  BY DEF BeginNode
<1>4. n \in Requests /\ 1 \in DOMAIN r
  BY LaunchAssumption, RoutesKnown
<1>5. Counted'
  BY Spent DEF BeginNode, LaunchInv
<1>6. LaunchTypeOK'
  BY <1>1, <1>3, <1>4 DEF LaunchInv, LaunchTypeOK
<1>7. ShellWatched'
  <2>1. n.profile = "read-only" /\ ~_can_run_commands(n, r) =>
          /\ cfg.strict /\ \A i \in DOMAIN r : r[i] = "claude"
          /\ n.git_evidence => machine.system = "windows"
    BY <1>4, NoShell
  <2>2. QED
    BY <1>1, <1>3, <2>1 DEF ShellWatched, InAttempt, InNode, Shellless
<1>8. (Attempted /\ Announced /\ Proved)'
  BY <1>1, <1>2, <1>3 DEF LaunchInv, Attempted, Announced, Proved, ProbeAccepted, read_isolation_off
<1>9. (Vectored /\ ReadyHolds)'
  BY <1>1 DEF Vectored, ReadyHolds
<1>10. QED
  BY <1>2, <1>5, <1>6, <1>7, <1>8, <1>9, Quiet DEF LaunchInv

LEMMA InvokeInv == LaunchInv /\ Invoke => LaunchInv'
<1> SUFFICES ASSUME LaunchInv, Invoke PROVE LaunchInv'
  OBVIOUS
<1>1. /\ pc = "invoke" /\ pc' = "attempt"
      /\ guarded' = (node.profile = "workspace-write" \/ _can_run_commands(node, route))
      /\ UNCHANGED <<machine, node, route, bracket, index, argv, launched, wrote, noticed, error, left, ready,
                     cfg, pins, announced>>
  BY DEF Invoke, runVars
<1>2. ~Running'
  BY <1>1, NothingRuns DEF Running
<1>3. LaunchTypeOK'
  BY <1>1 DEF LaunchInv, LaunchTypeOK
<1>4. ShellWatched'
  <2>1. node \in Requests /\ route \in Routes /\ node.profile \in {"read-only", "workspace-write"}
    BY Typed DEF LaunchInv, LaunchTypeOK
  <2>2. ~guarded' => Shellless
    BY <1>1, <2>1, NoShell DEF Shellless
  <2>3. QED
    BY <1>1, <2>2 DEF LaunchInv, ShellWatched, InAttempt, InNode, Shellless
<1>5. (Counted /\ Attempted /\ Announced /\ Proved)'
  BY <1>1, <1>2
     DEF LaunchInv, Counted, Attempted, Announced, Proved, ProbeAccepted, read_isolation_off, InNode
<1>6. (Vectored /\ ReadyHolds)'
  BY <1>1 DEF Vectored, ReadyHolds
<1>7. QED
  BY <1>2, <1>3, <1>4, <1>5, <1>6, Quiet DEF LaunchInv

LEMMA BuildClaudeInv == LaunchInv /\ BuildClaude => LaunchInv'
<1> SUFFICES ASSUME LaunchInv, BuildClaude PROVE LaunchInv'
  OBVIOUS
<1> DEFINE plan == build_claude_argv(cfg, node, machine, own)
<1>1. /\ pc = "attempt" /\ provider = "claude"
      /\ UNCHANGED <<machine, wrote, noticed, left, ready, cfg, pins, announced, node, route,
                     bracket, guarded>>
      /\ IF plan.error # "none" THEN Fail(plan.error)
         ELSE argv' = plan /\ pc' = "launch" /\ UNCHANGED <<index, launched, error>>
  BY DEF BuildClaude, Built, runVars, nodeVars
<1>2. plan.error \in Errors \cup {"none"}
  <2>1. cfg \in Policies /\ node \in Requests /\ machine \in Hosts
    BY Typed
  <2>2. plan \in ClaudePlans
    BY <2>1, ClaudeBuilt
  <2> HIDE DEF plan
  <2>3. QED
    BY <2>2 DEF ClaudePlans
<1>3. CASE plan.error # "none"
  <2>1. cfg.allowed # {"codex"}
    <3>1. route[index] = "claude" /\ index \in DOMAIN route
      BY <1>1, Typed DEF provider
    <3>2. \A i \in DOMAIN route : route[i] \in cfg.allowed
      BY <1>1 DEF LaunchInv, Attempted, InNode
    <3>3. QED
      BY <3>1, <3>2
  <2> HIDE DEF plan
  <2>2. plan.error \in Errors
    BY <1>2, <1>3
  <2>3. Fail(plan.error)
    BY <1>1, <1>3
  <2>4. QED
    BY <1>1, <2>1, <2>2, <2>3, FailInv
<1>4. CASE plan.error = "none"
  <2>1. argv' = plan /\ pc' = "launch" /\ UNCHANGED <<index, launched, error>>
    BY <1>1, <1>4
  <2>2. ~Running'
    BY <1>1, <2>1, NothingRuns DEF Running
  <2>3. provider' = "claude" /\ own' = own
    BY <1>1, <2>1 DEF provider, own
  <2>4. Vectored'
    BY <1>1, <1>4, <2>1, <2>3 DEF Vectored
  <2> HIDE DEF plan
  <2>5. LaunchTypeOK'
    BY <1>1, <2>1 DEF LaunchInv, LaunchTypeOK
  <2>6. (Counted /\ Attempted /\ ShellWatched /\ Announced /\ Proved)'
    BY <1>1, <2>1, <2>2 DEF LaunchInv, Counted, Attempted, ShellWatched, Announced, Proved,
                            ProbeAccepted,
       read_isolation_off, InNode, InAttempt, Shellless
  <2>7. ReadyHolds'
    BY <2>1 DEF ReadyHolds
  <2>8. QED
    BY <2>2, <2>4, <2>5, <2>6, <2>7, Quiet DEF LaunchInv
<1>5. QED
  BY <1>3, <1>4

LEMMA BuildCodexInv == LaunchInv /\ BuildCodex => LaunchInv'
<1> SUFFICES ASSUME LaunchInv, BuildCodex PROVE LaunchInv'
  OBVIOUS
<1> DEFINE p == build_codex_argv(cfg, node, guarded, own)
<1>1. /\ pc = "attempt" /\ provider = "codex"
      /\ UNCHANGED <<machine, wrote, noticed, left, ready, cfg, pins, announced, node, route,
                     bracket, guarded>>
      /\ IF p.error # "none" THEN Fail(p.error)
         ELSE argv' = p /\ pc' = "canary" /\ UNCHANGED <<index, launched, error>>
  BY DEF BuildCodex, Built, runVars, nodeVars
<1>2. p.error \in {"none", "configuration_error"}
  <2>1. cfg \in Policies /\ node \in Requests /\ guarded \in BOOLEAN
    BY Typed
  <2>2. QED
    BY <2>1, CodexBuilt
<1>3. CASE p.error # "none"
  <2>1. ~(ready /\ cfg.allowed = {"codex"} /\ node.extra \notin {"forbidden", "reserved"} /\ node.packet)
    <3>1. InAttempt
      BY <1>1 DEF InAttempt
    <3>2. QED
      BY <1>1, <1>3, <3>1, ReadyAnswers
  <2> HIDE DEF p
  <2>2. p.error \in Errors
    BY <1>2, <1>3 DEF Errors
  <2>3. Fail(p.error)
    BY <1>1, <1>3
  <2>4. QED
    BY <1>1, <2>1, <2>2, <2>3, FailInv
<1>4. CASE p.error = "none"
  <2>1. argv' = p /\ pc' = "canary" /\ UNCHANGED <<index, launched, error>>
    BY <1>1, <1>4
  <2>2. ~Running'
    BY <1>1, <2>1, NothingRuns DEF Running
  <2>3. provider' = "codex" /\ own' = own
    BY <1>1, <2>1 DEF provider, own
  <2>4. Vectored'
    BY <1>1, <1>4, <2>1, <2>3 DEF Vectored
  <2> HIDE DEF p
  <2>5. LaunchTypeOK'
    BY <1>1, <2>1 DEF LaunchInv, LaunchTypeOK
  <2>6. (Counted /\ Attempted /\ ShellWatched /\ Announced /\ Proved)'
    BY <1>1, <2>1, <2>2, <2>3 DEF LaunchInv, Counted, Attempted, ShellWatched, Announced, Proved,
                                  ProbeAccepted,
       read_isolation_off, InNode, InAttempt, Shellless
  <2>7. ReadyHolds'
    BY <2>1 DEF ReadyHolds
  <2>8. QED
    BY <2>2, <2>4, <2>5, <2>6, <2>7, Quiet DEF LaunchInv
<1>5. QED
  BY <1>3, <1>4

LEMMA PreLaunchInv == LaunchInv /\ _pre_launch_check => LaunchInv'
<1> SUFFICES ASSUME LaunchInv, _pre_launch_check PROVE LaunchInv'
  OBVIOUS
<1> DEFINE passes == Canary = "none" \/ (Canary = "capability_unavailable" /\ ~cfg.strict)
<1>1. /\ pc = "canary"
      /\ UNCHANGED <<machine, wrote, noticed, left, ready, cfg, pins, announced, node, route,
                     bracket, guarded>>
      /\ IF passes THEN pc' = "launch" /\ UNCHANGED <<index, argv, launched, error>>
         ELSE Fail(Canary)
  BY DEF _pre_launch_check, runVars, nodeVars, Canary
<1>2. /\ provider = "codex"
      /\ argv = build_codex_argv(cfg, node, guarded, own) /\ argv.error = "none"
  BY <1>1 DEF LaunchInv, Attempted, Vectored
<1>3. CASE ~passes
  <2>1. ~(ready /\ cfg.allowed = {"codex"} /\ node.extra \notin {"forbidden", "reserved"} /\ node.packet)
    <3>1. InAttempt
      BY <1>1 DEF InAttempt
    <3>2. QED
      BY <1>2, <1>3, <3>1, ReadyAnswers DEF Canary
  <2>2. Canary \in Errors
    BY <1>3, CanaryNow DEF Errors
  <2>3. Fail(Canary)
    BY <1>1, <1>3
  <2>4. QED
    BY <1>1, <2>1, <2>2, <2>3, FailInv
<1>4. CASE passes
  <2>1. pc' = "launch" /\ UNCHANGED <<index, argv, launched, error>>
    BY <1>1, <1>4
  <2>2. ~Running'
    BY <1>1, <2>1, NothingRuns DEF Running
  <2>3. provider' = "codex" /\ own' = own /\ Canary' = Canary
    BY <1>1, <1>2, <2>1 DEF provider, own, Canary
  <2>4. Vectored'
    BY <1>1, <1>2, <1>4, <2>1, <2>3 DEF Vectored
  <2>5. LaunchTypeOK'
    BY <1>1, <2>1 DEF LaunchInv, LaunchTypeOK
  <2>6. (Counted /\ Attempted /\ ShellWatched /\ Announced /\ Proved)'
    BY <1>1, <2>1, <2>2 DEF LaunchInv, Counted, Attempted, ShellWatched, Announced, Proved,
                            ProbeAccepted,
       read_isolation_off, InNode, InAttempt, Shellless
  <2>7. ReadyHolds'
    BY <2>1 DEF ReadyHolds
  <2>8. QED
    BY <2>2, <2>4, <2>5, <2>6, <2>7, Quiet DEF LaunchInv
<1>5. QED
  BY <1>3, <1>4

LEMMA SucceedInv == LaunchInv /\ Succeed => LaunchInv'
<1> SUFFICES ASSUME LaunchInv, Succeed PROVE LaunchInv'
  OBVIOUS
<1>1. /\ pc = "running" /\ pc' = "compare" /\ launched' = NoLaunch
      /\ UNCHANGED <<machine, index, wrote, noticed, error, left, ready, cfg, pins, announced, node, route,
                     bracket, guarded>>
  BY DEF Succeed, runVars, nodeVars
<1>2. ~Running' /\ launched'.reach \subseteq Access
  BY <1>1 DEF Running, NoLaunch
<1>3. LaunchTypeOK'
  BY <1>1, <1>2 DEF LaunchInv, LaunchTypeOK
<1>4. error = "none"
  BY <1>1 DEF LaunchInv, Attempted
<1>5. (Counted /\ Attempted /\ ShellWatched /\ Announced /\ Proved)'
  BY <1>1, <1>2 DEF LaunchInv, Counted, Attempted, ShellWatched, Announced, Proved, ProbeAccepted,
     read_isolation_off, InNode, InAttempt, Shellless
<1>6. (Vectored /\ ReadyHolds)'
  BY <1>1, <1>4 DEF Vectored, ReadyHolds, Errors
<1>7. QED
  BY <1>2, <1>3, <1>5, <1>6, Quiet DEF LaunchInv

LEMMA BreakInv == LaunchInv /\ Break => LaunchInv'
<1> SUFFICES ASSUME LaunchInv, Break PROVE LaunchInv'
  OBVIOUS
<1>1. /\ pc = "running"
      /\ UNCHANGED <<machine, wrote, noticed, left, ready, cfg, pins, announced, node, route,
                     bracket, guarded>>
      /\ Fail("permission_denied") \/ Fail("provider_unavailable")
  BY DEF Break, runVars, nodeVars
<1>2. "permission_denied" \notin Errors /\ "provider_unavailable" \notin Errors
  BY DEF Errors
<1>3. QED
  BY <1>1, <1>2, FailInv

LEMMA CompareInv == LaunchInv /\ Compare => LaunchInv'
<1> SUFFICES ASSUME LaunchInv, Compare PROVE LaunchInv'
  OBVIOUS
<1>1. /\ pc = "compare" /\ pc' = "route"
      /\ UNCHANGED <<machine, index, argv, launched, wrote, error, left, ready, cfg, pins, announced, node,
                     route, bracket, guarded>>
  BY DEF Compare, runVars, nodeVars
<1>2. ~Running'
  BY <1>1, NothingRuns DEF Running
<1>3. LaunchTypeOK'
  BY <1>1 DEF LaunchInv, LaunchTypeOK
<1>4. (Counted /\ Attempted /\ ShellWatched /\ Announced /\ Proved)'
  BY <1>1, <1>2 DEF LaunchInv, Counted, Attempted, ShellWatched, Announced, Proved, ProbeAccepted,
     read_isolation_off, InNode, InAttempt, Shellless
<1>5. (Vectored /\ ReadyHolds)'
  BY <1>1 DEF Vectored, ReadyHolds
<1>6. QED
  BY <1>2, <1>3, <1>4, <1>5, Quiet DEF LaunchInv

\* What a Claude launched now could reach.
LEMMA ClaudeLaunched ==
  ASSUME LaunchInv, pc = "launch", provider = "claude",
         NEW reach, reach = ClaudeReach(cfg, node, argv, guarded)
  PROVE  /\ reach \subseteq Access
         /\ {<<"read", "private">>, <<"load", "settings">>} \cap reach # {} => read_isolation_off(cfg)
         /\ "Bash" \in argv.tools /\ ~argv.needs_sandbox => ~cfg.strict
         /\ cfg.strict =>
              /\ {<<"write", "control">>, <<"write", "private">>} \cap reach = {}
              /\ <<"use", "network">> \in reach => node.network
              /\ <<"write", "tree">> \in reach => node.profile = "workspace-write"
<1>1. cfg \in Policies /\ node \in Requests /\ machine \in Hosts /\ guarded \in BOOLEAN
  BY Typed
<1>2. argv = build_claude_argv(cfg, node, machine, own) /\ argv.error = "none"
  BY DEF LaunchInv, Vectored
<1>3. /\ reach \subseteq Access
      /\ "Bash" \in argv.tools /\ ~argv.needs_sandbox => ~cfg.strict
      /\ {<<"read", "private">>, <<"load", "settings">>} \cap reach # {} => read_isolation_off(cfg)
      /\ cfg.strict =>
           /\ <<"write", "private">> \notin reach
           /\ <<"use", "network">> \in reach => node.network
           /\ <<"write", "tree">> \in reach => node.profile = "workspace-write"
           /\ <<"write", "control">> \in reach =>
                ~guarded /\ (node.profile = "workspace-write"
                               \/ (node.git_evidence /\ machine.system # "windows"))
  BY <1>1, <1>2, ClaudeKept
<1>4. ~guarded => node.profile = "read-only" /\ (node.git_evidence => machine.system = "windows")
  BY DEF LaunchInv, ShellWatched, InAttempt, Shellless
<1>5. <<"write", "control">> \in reach => ~cfg.strict
  BY <1>3, <1>4
<1>6. QED
  BY <1>3, <1>5

\* What a Codex launched now could reach, given what its canary answered.
LEMMA CodexLaunched ==
  ASSUME LaunchInv, pc = "launch", provider = "codex",
         NEW reach, reach = CodexReach(cfg, machine.box, argv)
  PROVE  /\ reach \subseteq Access
         /\ {<<"read", "private">>, <<"load", "settings">>} \cap reach # {} => read_isolation_off(cfg)
         /\ cfg.strict => machine.box.kind = "selective"
         /\ machine.box.kind = "selective" =>
              /\ {<<"write", "control">>, <<"write", "private">>, <<"read", "private">>} \cap reach = {}
              /\ cfg.strict /\ <<"use", "network">> \in reach => node.network
<1>1. cfg \in Policies /\ node \in Requests /\ machine.box \in Boxes /\ guarded \in BOOLEAN
      /\ index \in DOMAIN route /\ cfg.strict \in BOOLEAN
  BY Typed
<1>2. argv = build_codex_argv(cfg, node, guarded, own) /\ argv.error = "none"
  BY DEF LaunchInv, Vectored
<1>3. Canary = "none" \/ (Canary = "capability_unavailable" /\ ~cfg.strict)
  BY DEF LaunchInv, Vectored
<1>4. guarded
  BY <1>1 DEF LaunchInv, ShellWatched, InAttempt, Shellless, provider
<1>5. cfg.strict /\ argv.network => node.network
  BY <1>1, <1>2, CodexBuilt
<1>6. /\ reach \subseteq Access
      /\ machine.box.kind \in {"selective", "dead"} =>
           (<<"load", "settings">> \in reach => read_isolation_off(cfg))
      /\ machine.box.kind = "dead" => reach \subseteq {<<"load", "settings">>}
      /\ machine.box.kind = "selective" =>
           /\ Denies(machine.box, argv, "private") =>
                <<"read", "private">> \notin reach /\ <<"write", "private">> \notin reach
           /\ Denies(machine.box, argv, "control") => <<"write", "control">> \notin reach
           /\ <<"use", "network">> \in reach => argv.network
  BY <1>1, CodexKept
<1>7. /\ machine.box.kind \in {"selective", "dead", "marker"}
      /\ machine.box.kind = "selective" => Denies(machine.box, argv, "private")
      /\ machine.box.kind = "selective" => Denies(machine.box, argv, "control")
      /\ cfg.strict => machine.box.kind = "selective"
  BY <1>3, <1>4, CanaryNow
<1>8. ~cfg.strict => read_isolation_off(cfg)
  BY DEF read_isolation_off
<1>9. {<<"read", "private">>, <<"load", "settings">>} \cap reach # {} => read_isolation_off(cfg)
  BY <1>6, <1>7, <1>8
<1>10. QED
  BY <1>5, <1>6, <1>7, <1>9

LEMMA LaunchStepInv == LaunchInv /\ Launch => LaunchInv'
<1> SUFFICES ASSUME LaunchInv, Launch PROVE LaunchInv'
  OBVIOUS
<1>1. pc = "launch" /\ UNCHANGED <<machine, noticed, left, ready, cfg, pins, announced, node,
                                   route, bracket, guarded>>
  BY DEF Launch, runVars, nodeVars
<1>2. CASE launch = 0
  <2>1. "binary_not_found" \notin Errors
    BY DEF Errors
  <2>2. Fail("binary_not_found") /\ UNCHANGED wrote
    BY <1>2 DEF Launch
  <2>3. QED
    BY <1>1, <2>1, <2>2, FailInv
<1>3. CASE launch # 0
  <2> DEFINE reach == IF provider = "claude" THEN ClaudeReach(cfg, node, argv, guarded)
                      ELSE CodexReach(cfg, machine.box, argv)
             boxed == provider = "codex" \/ argv.needs_sandbox \/ "Bash" \notin argv.tools
  <2>1. /\ launched' = [prov |-> provider, bin |-> launch, reach |-> reach, sandboxed |-> boxed,
                        box |-> machine.box.kind]
        /\ wrote' = wrote \/ wrote' = (wrote \/ <<"write", "tree">> \in launched'.reach)
        /\ pc' = "running" /\ UNCHANGED <<index, argv, error>>
    BY <1>3 DEF Launch
  <2>2. /\ reach \subseteq Access
        /\ {<<"read", "private">>, <<"load", "settings">>} \cap reach # {} => read_isolation_off(cfg)
        /\ provider = "claude" =>
             /\ ~boxed => ~cfg.strict
             /\ cfg.strict =>
                  /\ {<<"write", "control">>, <<"write", "private">>} \cap reach = {}
                  /\ <<"use", "network">> \in reach => node.network
                  /\ <<"write", "tree">> \in reach => node.profile = "workspace-write"
        /\ provider = "codex" =>
             /\ boxed
             /\ cfg.strict => machine.box.kind = "selective"
             /\ machine.box.kind = "selective" =>
                  /\ {<<"write", "control">>, <<"write", "private">>, <<"read", "private">>} \cap reach = {}
                  /\ cfg.strict /\ <<"use", "network">> \in reach => node.network
    <3>1. provider \in {"claude", "codex"}
      BY Typed
    <3>2. CASE provider = "claude"
      BY <1>1, <3>2, ClaudeLaunched
    <3>3. CASE provider = "codex"
      BY <1>1, <3>3, CodexLaunched
    <3>4. QED
      BY <3>1, <3>2, <3>3
  <2> HIDE DEF reach, boxed
  <2>3. /\ launched'.prov = provider /\ launched'.bin = launch /\ launched'.reach = reach
        /\ launched'.sandboxed = boxed /\ launched'.box = machine.box.kind
    BY <2>1
  <2>4. provider' = provider /\ provider \in {"claude", "codex"} /\ guarded \in BOOLEAN /\ wrote \in BOOLEAN
        /\ index \in DOMAIN route
    BY <1>1, <2>1, Typed DEF provider, LaunchInv, LaunchTypeOK
  <2>5. /\ wrote' \in BOOLEAN
        /\ wrote' => wrote \/ <<"write", "tree">> \in reach
    <3>1. wrote' = wrote \/ wrote' = (wrote \/ <<"write", "tree">> \in reach)
      BY <2>1, <2>3
    <3>2. CASE wrote' = wrote
      BY <2>4, <3>2
    <3>3. CASE wrote' = (wrote \/ <<"write", "tree">> \in reach)
      BY <2>4, <3>3, Zenon
    <3>4. QED
      BY <3>1, <3>2, <3>3
  <2>6. LaunchTypeOK'
    BY <1>1, <2>1, <2>2, <2>3, <2>5 DEF LaunchInv, LaunchTypeOK
  <2>7. Attempted'
    BY <1>1, <2>1, <2>3, <2>4 DEF LaunchInv, Attempted, InNode
  <2>8. ShellWatched'
    <3>1. InAttempt /\ InNode
      BY <1>1 DEF InAttempt, InNode
    <3>2. Shellless /\ ~wrote => ~wrote'
      BY <2>2, <2>4, <2>5 DEF Shellless, provider
    <3>3. Shellless' = Shellless
      BY <1>1 DEF Shellless
    <3>4. QED
      BY <1>1, <3>1, <3>2, <3>3 DEF LaunchInv, ShellWatched
  <2>9. (Counted /\ Announced /\ Proved)'
    BY <1>1, <2>1 DEF LaunchInv, Counted, Announced, Proved, ProbeAccepted, read_isolation_off
  <2>10. Vectored' /\ ReadyHolds'
    BY <2>1 DEF Vectored, ReadyHolds
  <2>11. Confined'
    <3>1. read_isolation_off(cfg') = read_isolation_off(cfg)
      BY <1>1
    <3>2. cfg.strict =>
            /\ {<<"write", "control">>, <<"write", "private">>} \cap reach = {}
            /\ <<"use", "network">> \in reach => node.network
      BY <2>2, <2>4
    <3>3. QED
      BY <1>1, <2>2, <2>3, <3>1, <3>2 DEF Confined
  <2>12. Demonstrated'
    BY <1>1, <2>2, <2>3 DEF Demonstrated
  <2>13. GapAnnounced'
    <3>1. /\ ~cfg.strict => "mode" \in announced /\ ("claude" \in cfg.allowed => "claude" \in announced)
          /\ read_isolation_off(cfg) => "read" \in announced
      BY <1>1 DEF LaunchInv, Announced
    <3>2. provider = "claude" => "claude" \in cfg.allowed
      BY <1>1, <2>4 DEF LaunchInv, Attempted, InNode, provider
    <3>3. QED
      BY <1>1, <2>2, <2>3, <2>4, <3>1, <3>2 DEF GapAnnounced
  <2>14. PinnedBinary'
    BY <1>1, <2>3 DEF PinnedBinary, launch
  <2>15. QED
    BY <2>6, <2>7, <2>8, <2>9, <2>10, <2>11, <2>12, <2>13, <2>14 DEF LaunchInv
<1>4. QED
  BY <1>2, <1>3

LEMMA LaunchInductive == LaunchInv /\ [LaunchNext]_launchVars => LaunchInv'
<1>1. ASSUME LaunchInv, UNCHANGED launchVars PROVE LaunchInv'
  <2>1. LaunchTypeOK' /\ Counted' /\ Attempted'
    BY <1>1 DEF launchVars, LaunchInv, LaunchTypeOK, Counted, Attempted, Running, InNode, provider
  <2>2. Vectored'
    <3>1. provider' = provider /\ own' = own /\ Canary' = Canary
      BY <1>1 DEF launchVars, provider, own, Canary
    <3>2. QED
      BY <1>1, <3>1 DEF launchVars, LaunchInv, Vectored
  <2>3. (ShellWatched /\ Announced /\ Proved)'
    BY <1>1 DEF launchVars, LaunchInv, ShellWatched, Announced, Proved, InNode, InAttempt,
                Shellless,
                ProbeAccepted, read_isolation_off
  <2>4. (Confined /\ Demonstrated /\ GapAnnounced /\ PinnedBinary /\ ReadyHolds)'
    BY <1>1 DEF launchVars, LaunchInv, Confined, Demonstrated, GapAnnounced, PinnedBinary,
                ReadyHolds, Running,
                read_isolation_off
  <2>5. QED
    BY <2>1, <2>2, <2>3, <2>4 DEF LaunchInv
<1>2. QED
  BY <1>1, PreflightInv, StartInv, RestartInv, HostChangeInv, BeginNodeInv, InvokeInv, BuildClaudeInv,
     BuildCodexInv, PreLaunchInv, LaunchStepInv, SucceedInv, BreakInv, CompareInv DEF LaunchNext

\* A read-only node whose agent wrote is bracketed, so the comparison reports it.
LEMMA BracketedStep ==
  ASSUME LaunchInv, [LaunchNext]_launchVars,
         pc = "compare", pc' = "route", node.profile = "read-only", wrote, left' = left
  PROVE  noticed'.write
<1>1. bracket
  BY DEF LaunchInv, ShellWatched, InNode
<1>2. CASE Compare
  BY <1>1, <1>2 DEF Compare
<1>3. ~Restart
  BY Spent DEF Restart, LaunchInv
<1>4. QED
  BY <1>2, <1>3 DEF LaunchNext, Preflight, Start, HostChange, BeginNode, Invoke, BuildClaude,
                    BuildCodex,
     _pre_launch_check, Launch, Succeed, Break, launchVars

\* Every launch of every run keeps to what the node was given, what was demonstrated and what was
\* announced, and a read-only node that changes the tree is reported: for every set of
\* configurations, hosts, requests and routes, and any number of nodes, host changes and restarts.
\* The host a canary answered for is the one that launches (HostChange).
THEOREM LaunchesSafe == LaunchSpec => LaunchSafe
<1>1. LaunchInv => LaunchTypeOK /\ Confined /\ Demonstrated /\ GapAnnounced /\ PinnedBinary /\ ReadyHolds
  BY DEF LaunchInv
<1>2. LaunchInv /\ [LaunchNext]_launchVars =>
        [pc = "compare" /\ pc' = "route" /\ node.profile = "read-only" /\ wrote /\ left' = left
           => noticed'.write]_launchVars
  BY BracketedStep
<1>3. QED
  BY <1>1, <1>2, LaunchInitInv, LaunchInductive, PTL DEF LaunchSpec, LaunchSafe, Bracketed
=============================================================================
