----------------------------- MODULE ProviderRun -----------------------------
(***************************************************************************)
(* One call of a provider adapter: BaseCliProvider.run of                  *)
(* providers/_adapter_base.py over run_process and the containments of     *)
(* providers/process.py, with the two concrete adapters claude and codex.  *)
(*                                                                         *)
(* The agent is a process tree that moves by itself: the root writes events *)
(* to its stdout file, starts helpers, and ends or is killed from outside. *)
(* Beside the call that waits for it run two threads, the tracker of the   *)
(* POSIX containment and the settle watch of the claude adapter. The model *)
(* interleaves all of them. What the call finally raises or returns is     *)
(* computed from what is on disk and from what the barrier could prove.    *)
(***************************************************************************)
EXTENDS ProviderOutcome

CONSTANTS
  Helpers,     \* processes an agent may start
  MaxEvents,   \* bound on the events an agent writes
  MaxFaults    \* bound on unkillable helpers and failed job assignments

VARIABLES
  host,        \* platform and isolation mode, fixed for a behaviour
  step,        \* where the call is
  prov,        \* the adapter of the call
  root,        \* the CLI process: "none", "alive", "gone"
  helper,      \* status of every helper
  tracked,     \* helpers the tracker has ever seen
  holds,       \* helpers that keep the CLI's stderr open
  stubborn,    \* helpers a kill does not end within the barrier's budget
  stream,      \* what the stdout file says, read to its end
  watch,       \* the settle watch: its copy of the file and its progress
  ended,       \* how the process ended: timed out, exit code zero, stderr
  quiet,       \* the barrier's verdict: "unknown", "proven", "unproven"
  adopted,     \* the containment holds the tree (a Windows job may not)
  outcome,     \* what the last call came back with
  used         \* events and faults of this call

vars == <<host, step, prov, root, helper, tracked, holds, stubborn,
          stream, watch, ended, quiet, adopted, outcome, used>>

ASSUME ProviderAssumption ==
  /\ IsFiniteSet(Helpers)
  /\ MaxEvents \in Nat /\ MaxFaults \in Nat

Statuses == {"unborn", "group", "detached", "orphan", "dead"}
Living == {"group", "detached", "orphan"}
Alive == {h \in Helpers : helper[h] \in Living}

-----------------------------------------------------------------------------
(* The event stream. `result` is the last result event, `limited` that one of *)
(* them was an error with a limit signal, `later` that other work was written *)
(* after the last result, `bg` the state of a background task, `spared` that  *)
(* the CLI counted no task killed by itself, `idleTokens` that the usage adds *)
(* no output to what the session had before.                                  *)

EmptyStream == [result |-> "none", limited |-> FALSE, later |-> FALSE, bg |-> "none",
                spared |-> FALSE, idleTokens |-> FALSE, resets |-> NoReset]

Streams == [result : {"none", "ok", "err"}, limited : BOOLEAN, later : BOOLEAN,
            bg : {"none", "running", "finished", "killed", "stopped"},
            spared : BOOLEAN, idleTokens : BOOLEAN, resets : Windows \cup {NoReset}]

\* What one more line does to the file's reading.
fold(s) ==
  {[s EXCEPT !.later = TRUE]}
  \cup {[s EXCEPT !.bg = "running", !.later = TRUE] : x \in {y \in {1} : s.bg = "none"}}
  \cup {[s EXCEPT !.bg = b, !.later = TRUE] :
          b \in {y \in {"finished", "killed", "stopped"} : s.bg = "running"}}
  \cup {[s EXCEPT !.result = "ok", !.later = FALSE, !.spared = z] :
          z \in IF s.bg = "none" THEN {FALSE} ELSE BOOLEAN}
  \cup {[s EXCEPT !.result = "err", !.later = FALSE, !.idleTokens = z] : z \in BOOLEAN}
  \cup {[s EXCEPT !.result = "err", !.limited = TRUE, !.later = FALSE, !.resets = r] :
          r \in Windows \cup {NoReset}}

pending(s) == s.bg = "running"

settled(s) == s.result # "none" /\ ~s.later /\ ~pending(s)

abandoned(s) == ~s.spared /\ s.bg \in {"running", "killed"}

-----------------------------------------------------------------------------
(* Killing. A descendant is seen through its parent links only while the root *)
(* lives; a helper that left the group and lost its parent is out of sight.   *)

Posix == host.platform = "posix"

descendants == IF root = "alive" THEN {h \in Helpers : helper[h] \in {"group", "detached"}} ELSE {}

InGroup == {h \in Helpers : helper[h] = "group"}

\* Mutant: what the tracker saw is not killed and not looked for.
Reach_GroupOnly == IF Posix THEN InGroup ELSE IF adopted THEN Alive ELSE {}

\* What a kill of the containment reaches.
Reach == IF Posix THEN InGroup \cup tracked \cup descendants
         ELSE IF adopted THEN Alive ELSE {}

KillsRoot == Posix \/ adopted

\* Helpers after `hit` were killed and, if so, the root died.
After(hit, dies) == [h \in Helpers |->
  IF h \in hit /\ h \in Alive /\ h \notin stubborn THEN "dead"
  ELSE IF dies /\ helper[h] = "detached" THEN "orphan"
  ELSE helper[h]]

terminate ==
  /\ tracked' = IF Posix THEN tracked \cup descendants ELSE tracked
  /\ helper' = After(Reach, KillsRoot)
  /\ root' = IF KillsRoot /\ root = "alive" THEN "gone" ELSE root

\* A process that nobody here can end keeps the CLI's stderr open.
OutOfReach ==
  \/ (holds \cap Alive) \ (Reach \ stubborn) # {}
  \/ root = "alive" /\ ~KillsRoot

-----------------------------------------------------------------------------
NoWatch == [on |-> FALSE, copy |-> EmptyStream, idle |-> FALSE, verdict |-> FALSE, settled |-> FALSE]
NoEnd == [timed |-> FALSE, zero |-> FALSE, sig |-> "none", launch |-> TRUE]

Init ==
  /\ host \in [platform : {"posix", "windows"}, strict : StrictModes]
  /\ step = "idle" /\ prov = "claude"
  /\ root = "none" /\ helper = [h \in Helpers |-> "unborn"]
  /\ tracked = {} /\ holds = {} /\ stubborn = {}
  /\ stream = EmptyStream /\ watch = NoWatch /\ ended = NoEnd
  /\ quiet = "unknown" /\ adopted = FALSE
  /\ outcome = NoOutcome /\ used = [events |-> 0, faults |-> 0]

\* The router calls run: a call owns everything it works on and starts from
\* nothing; what an earlier one left behind is outside its containment.
StartRun(p) ==
  /\ step = "idle"
  /\ step' = "argv" /\ prov' = p
  /\ root' = "none" /\ stream' = EmptyStream /\ watch' = NoWatch /\ ended' = NoEnd
  /\ quiet' = "unknown" /\ adopted' = FALSE /\ outcome' = NoOutcome
  /\ tracked' = {} /\ holds' = {} /\ stubborn' = {}
  /\ helper' = [h \in Helpers |-> "unborn"] /\ used' = [events |-> 0, faults |-> 0]
  /\ UNCHANGED host

Finish(o) == step' = "over" /\ outcome' = o

\* Building the command line refuses unsafe arguments, skills that strict
\* isolation has no tool for and, for claude, a shell the host cannot sandbox.
BuildArgv ==
  /\ step = "argv"
  /\ \/ /\ step' = IF prov = "codex" THEN "canary" ELSE "spawn"
        /\ UNCHANGED outcome
     \/ Finish(Raised("configuration_error", NoReset))
     \/ prov = "claude" /\ host.strict /\ Posix
        /\ Finish(Raised("capability_unavailable", NoReset))
  /\ UNCHANGED <<host, prov, root, helper, tracked, holds, stubborn, stream,
                 watch, ended, quiet, adopted, used>>

\* codex proves its sandbox first. A host where it cannot be demonstrated is
\* refused under strict isolation only; a policy that does not hold, always.
PreLaunchCheck ==
  /\ step = "canary"
  /\ \/ step' = "spawn" /\ UNCHANGED outcome
     \/ Finish(Raised("configuration_error", NoReset))
     \/ host.strict /\ Finish(Raised("capability_unavailable", NoReset))
  /\ UNCHANGED <<host, prov, root, helper, tracked, holds, stubborn, stream,
                 watch, ended, quiet, adopted, used>>

\* The binary may be missing; a Windows job may refuse the new process.
Spawn ==
  /\ step = "spawn"
  /\ \/ /\ step' = "parse" /\ UNCHANGED <<root, watch, adopted, ended, used>>
     \/ /\ step' = "wait" /\ root' = "alive"
        /\ watch' = [NoWatch EXCEPT !.on = prov = "claude"]
        /\ ended' = [NoEnd EXCEPT !.launch = FALSE]
        /\ \/ adopted' = TRUE /\ UNCHANGED used
           \/ ~Posix /\ used.faults < MaxFaults
              /\ adopted' = FALSE /\ used' = [used EXCEPT !.faults = @ + 1]
  /\ UNCHANGED <<host, prov, helper, tracked, holds, stubborn, stream, quiet, outcome>>

-----------------------------------------------------------------------------
(* The agent and its processes. *)

AgentUnchanged == UNCHANGED <<host, step, prov, outcome, ended, quiet, adopted, watch>>

AgentWrites ==
  /\ root = "alive" /\ used.events < MaxEvents
  /\ stream' \in fold(stream)
  /\ used' = [used EXCEPT !.events = @ + 1]
  /\ UNCHANGED <<root, helper, tracked, holds, stubborn>> /\ AgentUnchanged

AgentForks(h) ==
  /\ root = "alive" /\ helper[h] = "unborn"
  /\ helper' = [helper EXCEPT ![h] = "group"]
  /\ holds' \in {holds, holds \cup {h}}
  /\ \/ UNCHANGED <<stubborn, used>>
     \/ used.faults < MaxFaults /\ stubborn' = stubborn \cup {h}
        /\ used' = [used EXCEPT !.faults = @ + 1]
  /\ UNCHANGED <<root, tracked, stream>> /\ AgentUnchanged

\* setsid, then the loss of the parent.
HelperDetaches(h) ==
  /\ \/ helper[h] = "group" /\ helper' = [helper EXCEPT ![h] =
           IF root = "alive" THEN "detached" ELSE "orphan"]
     \/ helper[h] = "detached" /\ helper' = [helper EXCEPT ![h] = "orphan"]
  /\ UNCHANGED <<root, tracked, holds, stubborn, stream, used>> /\ AgentUnchanged

HelperEnds(h) ==
  /\ helper[h] \in Living
  /\ helper' = [helper EXCEPT ![h] = "dead"]
  /\ UNCHANGED <<root, tracked, holds, stubborn, stream, used>> /\ AgentUnchanged

\* The CLI ends by itself, with any exit code and stderr.
RootEnds ==
  /\ step \in {"wait", "drain"} /\ root = "alive"
  /\ root' = "gone" /\ helper' = After({}, TRUE)
  /\ \E z \in BOOLEAN, s \in Sigs \cup {"none"} :
       ended' = [ended EXCEPT !.zero = z, !.sig = s]
  /\ UNCHANGED <<host, step, prov, tracked, holds, stubborn, stream, watch,
                 quiet, adopted, outcome, used>>

\* Somebody outside kills the agent's subtree: a stop, the operating system.
RootKilled ==
  /\ step = "wait" /\ root = "alive"
  /\ root' = "gone"
  /\ helper' = After(InGroup \cup descendants, TRUE)
  /\ \E s \in Sigs \cup {"none"} : ended' = [ended EXCEPT !.sig = s]
  /\ UNCHANGED <<host, step, prov, tracked, holds, stubborn, stream, watch,
                 quiet, adopted, outcome, used>>

-----------------------------------------------------------------------------
(* The two threads beside the call. *)

Track ==
  /\ Posix /\ step = "wait" /\ root = "alive" /\ ~(descendants \subseteq tracked)
  /\ tracked' = tracked \cup descendants
  /\ UNCHANGED <<host, step, prov, root, helper, holds, stubborn, stream, watch,
                 ended, quiet, adopted, outcome, used>>

\* A poll that finds growth feeds it to the tracker; one that does not lets the
\* idle time run, reads once more, and only then decides.
WatchPolls ==
  /\ watch.on /\ step \in {"wait", "drain"} /\ ~watch.settled
  /\ watch' = IF watch.copy # stream /\ ~watch.verdict
              THEN [watch EXCEPT !.copy = stream, !.idle = FALSE]
              ELSE IF ~watch.idle THEN [watch EXCEPT !.idle = TRUE]
              ELSE [watch EXCEPT !.verdict = TRUE]
  /\ watch' # watch
  /\ UNCHANGED <<host, step, prov, root, helper, tracked, holds, stubborn, stream,
                 ended, quiet, adopted, outcome, used>>

WatchDecides ==
  /\ watch.on /\ watch.verdict /\ step \in {"wait", "drain"} /\ ~watch.settled
  /\ IF settled(watch.copy) /\ root = "alive"
     THEN watch' = [watch EXCEPT !.settled = TRUE] /\ terminate
     ELSE watch' = [watch EXCEPT !.verdict = FALSE]
          /\ UNCHANGED <<tracked, helper, root>>
  /\ UNCHANGED <<host, step, prov, holds, stubborn, stream, ended, quiet, adopted,
                 outcome, used>>

-----------------------------------------------------------------------------
(* The waiting call. *)

Drained == root = "gone" /\ holds \cap Alive = {}

WaitUnchanged == UNCHANGED <<host, prov, holds, stubborn, stream, adopted, outcome, used>>

\* communicate returns: the CLI is gone and nobody holds its stderr.
Communicate ==
  /\ step \in {"wait", "drain"} /\ Drained
  /\ step' = "prove"
  /\ UNCHANGED <<root, helper, tracked, ended, quiet, watch>> /\ WaitUnchanged

\* Mutant: the time limit is noted and nobody is killed.
Timeout_NoKill ==
  /\ step = "wait" /\ step' = "drain"
  /\ ended' = [ended EXCEPT !.timed = TRUE]
  /\ UNCHANGED <<root, helper, tracked, quiet, watch>> /\ WaitUnchanged

\* TimeoutExpired: kill the tree, then drain without a limit.
Timeout ==
  /\ step = "wait"
  /\ terminate /\ step' = "drain"
  /\ ended' = [ended EXCEPT !.timed = TRUE]
  /\ UNCHANGED <<quiet, watch>> /\ WaitUnchanged

\* The barrier kills once more and looks for survivors: what it ever tracked
\* and the group, or the members of the job.
TerminateAndProve ==
  /\ step = "prove"
  /\ terminate
  /\ quiet' = IF (Posix \/ adopted) /\ {h \in Reach : helper'[h] \in Living} = {}
              THEN "proven" ELSE "unproven"
  /\ step' = "parse"
  /\ UNCHANGED <<ended, watch>> /\ WaitUnchanged

\* Mutant: no class for a process that ends badly without a signature.
classify_NoCrash ==
  IF ended.launch THEN "binary_not_found" ELSE IF ended.timed THEN "timeout" ELSE ended.sig

\* providers/errors.py: launch error, timeout, signature, exit code.
classify ==
  IF ended.launch THEN "binary_not_found"
  ELSE IF ended.timed THEN "timeout"
  ELSE IF ended.sig # "none" THEN ended.sig
  ELSE IF ended.zero THEN "task_failure" ELSE "process_crashed"

\* What the adapter makes of a stream with a result in it.
verdict ==
  IF stream.result # "ok" /\ prov = "claude" /\ stream.limited
    THEN {Raised("rate_limited", stream.resets)}
  ELSE IF stream.result # "ok" /\ stream.idleTokens
    THEN {Raised("agent_no_progress", NoReset)}
  ELSE IF stream.result = "ok" /\ prov = "claude" /\ abandoned(stream)
    THEN {Raised("background_work_lost", NoReset)}
  ELSE IF stream.result = "ok" /\ prov = "codex"
    THEN {Returned("succeeded"), Raised("permission_denied", NoReset)}
  ELSE {Returned(IF stream.result = "ok" THEN "succeeded" ELSE "failed")}

\* Mutant: a bad exit code is classified before the stream is read.
Parse_ExitFirst ==
  /\ step = "parse"
  /\ \E o \in IF quiet = "unproven" THEN {Raised("containment_unverified", NoReset)}
              ELSE IF ~ended.zero THEN {Raised(classify, NoReset)}
              ELSE IF stream.result = "none" THEN {Raised("invalid_output", NoReset)}
              ELSE verdict :
       Finish(o)
  /\ UNCHANGED <<host, prov, root, helper, tracked, holds, stubborn, stream,
                 watch, ended, quiet, adopted, used>>

\* The barrier's verdict first, then launch and time limit, then the stream, and
\* the exit code only where the stream has no result.
Parse ==
  /\ step = "parse"
  /\ \E o \in IF quiet = "unproven" THEN {Raised("containment_unverified", NoReset)}
              ELSE IF ended.launch \/ ended.timed THEN {Raised(classify, NoReset)}
              ELSE IF stream.result = "none"
                THEN {Raised(IF ended.zero THEN "invalid_output" ELSE classify, NoReset)}
              ELSE verdict :
       Finish(o)
  /\ UNCHANGED <<host, prov, root, helper, tracked, holds, stubborn, stream,
                 watch, ended, quiet, adopted, used>>

\* The router takes the answer.
Taken ==
  /\ step = "over" /\ step' = "idle"
  /\ UNCHANGED <<host, prov, root, helper, tracked, holds, stubborn, stream,
                 watch, ended, quiet, adopted, outcome, used>>

Next ==
  \/ \E p \in Providers : StartRun(p)
  \/ BuildArgv \/ PreLaunchCheck \/ Spawn
  \/ AgentWrites \/ RootEnds \/ RootKilled
  \/ \E h \in Helpers : AgentForks(h) \/ HelperDetaches(h) \/ HelperEnds(h)
  \/ Track \/ WatchPolls \/ WatchDecides
  \/ Communicate \/ Timeout \/ TerminateAndProve \/ Parse \/ Taken

Spec == Init /\ [][Next]_vars

\* The call keeps going and its time limit runs out sooner or later; agents
\* and their helpers may live for ever.
FairSpec ==
  /\ Spec
  /\ WF_vars(BuildArgv) /\ WF_vars(PreLaunchCheck) /\ WF_vars(Spawn) /\ WF_vars(Timeout)
  /\ WF_vars(Communicate) /\ WF_vars(TerminateAndProve) /\ WF_vars(Parse)

-----------------------------------------------------------------------------
(* Properties. *)

\* Every variable keeps its type, whatever the tree, its watchers and the call
\* do to each other.
TypeOK ==
  /\ host \in [platform : {"posix", "windows"}, strict : StrictModes]
  /\ step \in {"idle", "argv", "canary", "spawn", "wait", "drain", "prove", "parse", "over"}
  /\ prov \in Providers
  /\ root \in {"none", "alive", "gone"} /\ helper \in [Helpers -> Statuses]
  /\ tracked \subseteq Helpers /\ holds \subseteq Helpers /\ stubborn \subseteq Helpers
  /\ stream \in Streams
  /\ watch \in [on : BOOLEAN, copy : Streams, idle : BOOLEAN, verdict : BOOLEAN, settled : BOOLEAN]
  /\ ended \in [timed : BOOLEAN, zero : BOOLEAN, sig : Sigs \cup {"none"}, launch : BOOLEAN]
  /\ quiet \in {"unknown", "proven", "unproven"} /\ adopted \in BOOLEAN
  /\ outcome \in Outcomes
  /\ used \in [events : 0..MaxEvents, faults : 0..MaxFaults]

\* Processes of the last call that its barrier knows of: the group and what it
\* tracked, or on Windows whatever was started.
Known == IF Posix THEN InGroup \cup tracked ELSE Helpers

Phase == IF step \in {"idle", "over"} THEN step ELSE "working"
Survivors == step \in {"over", "idle"} /\ Known \cap Alive # {}

Call == INSTANCE ProviderCall WITH
  strict <- host.strict, phase <- Phase, survivors <- Survivors

\* The adapters and the containments implement the call the router relies on:
\* whatever the agent's tree does, and whoever kills it, the call answers once,
\* and only containment_unverified leaves known processes behind
\* (_adapter_base.py run, process.py run_process and the containments).
ImplementsCall == Call!CallSpec

\* An agent the settle watch stopped is judged by the result it had written,
\* not by the exit code of the kill, even if it wrote on between the watch's
\* last look and the kill (process.py SettlingContainment, _adapter_base.py run).
SettledByResult ==
  step = "over" /\ watch.settled /\ quiet = "proven" /\ ~ended.timed =>
    stream.result # "none" /\ outcome \in verdict

\* Every call of a provider ends, by its answer or by its time limit, unless a
\* process nobody here can reach keeps the pipe open (process.py run_process).
CallEnds == step = "argv" ~> step = "over" \/ OutOfReach

\* What a call hands back: well typed, and true to the result its agent had written.
CallSafe == TypeOK /\ SettledByResult
=============================================================================
