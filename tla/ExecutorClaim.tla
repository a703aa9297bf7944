--------------------------- MODULE ExecutorClaim ---------------------------
(***************************************************************************)
(* The processes that share one private home: `watch` daemons, `run` and   *)
(* `rerun` commands, and `stop` commands.  They meet only in four files:   *)
(* the daemon's marker (orchestrator.pid), the runner's marker             *)
(* (orchestrator.run), the stop sentinel (orchestrator.stop) and the       *)
(* handle of the daemon's agent (orchestrator.children).  Every step reads *)
(* or writes one of them once, so every interleaving of the system calls   *)
(* of cmd_run, cmd_watch and stop_process is a behaviour here.             *)
(*                                                                         *)
(* pc[p] names the next call of process p.  A process is one invocation:   *)
(* a restart is another member of Watchers or Runners.  Two platforms      *)
(* differ: "posix" can probe and signal another process, "nt" cannot.      *)
(***************************************************************************)
EXTENDS Naturals

CONSTANTS
  Watchers,    \* the invocations of `watch`, polling
  Runners,     \* the invocations of `run` and `rerun`
  Stoppers,    \* the invocations of `stop`
  Platforms,   \* the platforms to consider, a subset of {"posix", "nt"}
  MaxAgents,   \* bound: agents one daemon launches
  MaxFaults    \* bound: processes that die, and barriers that prove nothing

Nobody == "nobody"
NoHandle == <<>>
Executors == Watchers \cup Runners
Procs == Executors \cup Stoppers

ASSUME ProcsAssumption ==
  /\ Watchers \cap Runners = {} /\ Executors \cap Stoppers = {}
  /\ Nobody \notin Procs
ASSUME BoundsAssumption ==
  Platforms \subseteq {"posix", "nt"} /\ MaxAgents \in Nat /\ MaxFaults \in Nat

VARIABLES
  platform,   \* what _can_signal answers
  pc,         \* the next call of each process
  holder,     \* the process each marker was created by, or Nobody: no file
  full,       \* whether the marker's line has been written
  stopFile,   \* whether the stop sentinel exists
  children,   \* the recorded agent, or NoHandle: no file
  event,      \* the event that SIGTERM sets in each process
  agents,     \* the agents that are running, <<daemon, number>>
  spawned,    \* how many agents each daemon launched
  unproven,   \* the agents whose quiescence barrier proved nothing
  handle,     \* the agent handle each process has read
  target,     \* the daemon each stop has read from the marker
  level,      \* how hard each stop is
  faults,     \* the faults so far
  raced       \* whether a command was starting beside another start or a stop

files == <<holder, full, stopFile, children>>
daemon == <<event, agents, spawned, unproven>>
stops == <<target, level>>
vars == <<platform, pc, files, daemon, handle, stops, faults, raced>>

Init ==
  /\ platform \in Platforms
  /\ pc = [p \in Procs |-> "idle"]
  /\ holder = [k \in {"watch", "run"} |-> Nobody]
  /\ full = [k \in {"watch", "run"} |-> FALSE]
  /\ stopFile = FALSE /\ children = NoHandle
  /\ event = [w \in Watchers |-> FALSE]
  /\ agents = {} /\ unproven = {}
  /\ spawned = [w \in Watchers |-> 0]
  /\ handle = [p \in Procs |-> NoHandle]
  /\ target = [s \in Stoppers |-> Nobody]
  /\ level = [s \in Stoppers |-> "soft"]
  /\ faults = 0 /\ raced = FALSE

-----------------------------------------------------------------------------
(* What a process can find out about another. *)

Over == {"done", "refused", "dead", "terminated"}
is_running(p) == pc[p] \notin Over \cup {"idle"}

\* The marker's record: an absent or an empty file is no record at all.
read_pid_record(k) == IF full[k] THEN holder[k] ELSE Nobody

running_daemon_pid_Presence(k) == read_pid_record(k)

\* The live process a marker names.  Without signals presence is liveness.
running_daemon_pid(k) ==
  LET p == read_pid_record(k) IN
  IF p # Nobody /\ platform = "posix" /\ ~is_running(p) THEN Nobody ELSE p

Kind(p) == IF p \in Watchers THEN "watch" ELSE "run"

stop_requested_FileOnly(w) == stopFile
stop_requested(w) == event[w] \/ stopFile

Starting(p) ==
  pc[p] \in {"check_daemon", "check_runner", "build", "create", "write", "probe", "replace"}

\* A command is starting while another one is, or while a stop is at work.
Racing ==
  \E p \in Executors : Starting(p) /\
    \/ \E q \in Executors \ {p} : Starting(q)
    \/ \E s \in Stoppers : is_running(s)

Moves(next) == pc' = next /\ raced' = (raced \/ Racing')
Goto(p, to) == Moves([pc EXCEPT ![p] = to])

-----------------------------------------------------------------------------
(* run, rerun and watch: look at both markers, build the engine, claim. *)

Start(p) ==
  /\ pc[p] = "idle" /\ Goto(p, "check_daemon")
  /\ UNCHANGED <<platform, files, daemon, handle, stops, faults>>

\* _executor_owner, and the two checks of cmd_watch: first the daemon's marker.
CheckDaemon(p) ==
  /\ pc[p] = "check_daemon"
  /\ Goto(p, IF running_daemon_pid("watch") = Nobody THEN "check_runner" ELSE "refused")
  /\ UNCHANGED <<platform, files, daemon, handle, stops, faults>>

CheckRunner_Skipped(p) ==
  /\ pc[p] = "check_runner" /\ Goto(p, "build")
  /\ UNCHANGED <<platform, files, daemon, handle, stops, faults>>

\* Then the runner's.
CheckRunner(p) ==
  /\ pc[p] = "check_runner"
  /\ Goto(p, IF running_daemon_pid("run") = Nobody THEN "build" ELSE "refused")
  /\ UNCHANGED <<platform, files, daemon, handle, stops, faults>>

\* The engine is built and a daemon installs its SIGTERM handler, or a run
\* whose task is settled or ineligible ends here.
Build(p) ==
  /\ pc[p] = "build"
  /\ \E to \in IF p \in Runners THEN {"create", "done"} ELSE {"create"} : Goto(p, to)
  /\ UNCHANGED <<platform, files, daemon, handle, stops, faults>>

\* os.open with O_CREAT | O_EXCL: the file is there, and still empty.
CreateExclusively(p) ==
  /\ pc[p] = "create"
  /\ IF holder[Kind(p)] = Nobody
     THEN holder' = [holder EXCEPT ![Kind(p)] = p] /\ Goto(p, "write")
     ELSE UNCHANGED holder /\ Goto(p, "probe")
  /\ UNCHANGED <<platform, full, stopFile, children, daemon, handle, stops, faults>>

\* Where a claimed process goes on.
Claimed(p) == IF p \in Watchers THEN "clear_stop" ELSE "work"

WritePayload_ByName(p) ==
  /\ pc[p] = "write" /\ Goto(p, Claimed(p))
  /\ full' = [full EXCEPT ![Kind(p)] = TRUE]
  /\ UNCHANGED <<platform, holder, stopFile, children, daemon, handle, stops, faults>>

\* The line goes to the file that was opened, whether or not it still has its name.
WritePayload(p) ==
  /\ pc[p] = "write" /\ Goto(p, Claimed(p))
  /\ full' = [full EXCEPT ![Kind(p)] = @ \/ holder[Kind(p)] = p]
  /\ UNCHANGED <<platform, holder, stopFile, children, daemon, handle, stops, faults>>

\* The file existed: a live holder refuses the claim, anything else is stale.
ProbeHolder(p) ==
  /\ pc[p] = "probe"
  /\ Goto(p, IF running_daemon_pid(Kind(p)) = Nobody THEN "replace" ELSE "refused")
  /\ UNCHANGED <<platform, files, daemon, handle, stops, faults>>

ReplaceAtomically(p) ==
  /\ pc[p] = "replace" /\ Goto(p, Claimed(p))
  /\ holder' = [holder EXCEPT ![Kind(p)] = p]
  /\ full' = [full EXCEPT ![Kind(p)] = TRUE]
  /\ UNCHANGED <<platform, stopFile, children, daemon, handle, stops, faults>>

\* A run ends, well or not: its finally drops the marker, whoever it names.
EndRun(r) ==
  /\ pc[r] = "work" /\ Goto(r, "unlink")
  /\ UNCHANGED <<platform, files, daemon, handle, stops, faults>>

-----------------------------------------------------------------------------
(* The daemon's loop. *)

ClearStop(w) ==
  /\ pc[w] = "clear_stop" /\ Goto(w, "clear_children")
  /\ stopFile' = FALSE
  /\ UNCHANGED <<platform, holder, full, children, daemon, handle, stops, faults>>

ClearChildren(w) ==
  /\ pc[w] = "clear_children" /\ Goto(w, "poll")
  /\ children' = NoHandle
  /\ UNCHANGED <<platform, holder, full, stopFile, daemon, handle, stops, faults>>

\* Between ticks, while it sleeps, and before each node of a flow.
Poll(w) ==
  /\ pc[w] = "poll"
  /\ Goto(w, IF stop_requested(w) THEN "reap" ELSE "tick")
  /\ UNCHANGED <<platform, files, daemon, handle, stops, faults>>

EndTick(w) ==
  /\ pc[w] = "tick" /\ Goto(w, "poll")
  /\ UNCHANGED <<platform, files, daemon, handle, stops, faults>>

\* Popen: the agent runs before anything names it.
Spawn(w) ==
  /\ pc[w] = "tick" /\ spawned[w] < MaxAgents /\ Goto(w, "record")
  /\ spawned' = [spawned EXCEPT ![w] = @ + 1]
  /\ agents' = agents \cup {<<w, spawned[w] + 1>>}
  /\ UNCHANGED <<platform, files, event, unproven, handle, stops, faults>>

OnSpawn(w) ==
  /\ pc[w] = "record" /\ Goto(w, "running")
  /\ children' = <<w, spawned[w]>>
  /\ UNCHANGED <<platform, holder, full, stopFile, daemon, handle, stops, faults>>

\* The agent ends, times out or is interrupted, and the barrier proves its tree empty.
AgentEnds(w) ==
  /\ pc[w] = "running" /\ Goto(w, "reaped")
  /\ agents' = agents \ {<<w, spawned[w]>>}
  /\ UNCHANGED <<platform, files, event, spawned, unproven, handle, stops, faults>>

\* The barrier runs out of its budget: the handle is kept for a later stop.
AgentSurvives(w) ==
  /\ pc[w] = "running" /\ <<w, spawned[w]>> \in agents /\ Goto(w, "poll")
  /\ unproven' = unproven \cup {<<w, spawned[w]>>}
  /\ faults < MaxFaults /\ faults' = faults + 1
  /\ UNCHANGED <<platform, files, event, agents, spawned, handle, stops>>

\* The next node is behind a poll; a retry inside the router is not.
OnReap(w) ==
  /\ pc[w] = "reaped" /\ \E to \in {"poll", "tick"} : Goto(w, to)
  /\ children' = NoHandle
  /\ UNCHANGED <<platform, holder, full, stopFile, daemon, handle, stops, faults>>

\* Ctrl-C, or an error of the loop.
Interrupt(w) ==
  /\ pc[w] \in {"clear_stop", "clear_children", "poll", "tick"} /\ Goto(w, "reap")
  /\ UNCHANGED <<platform, files, daemon, handle, stops, faults>>

\* cmd_watch's finally: the SIGTERM handler is gone, the agent is looked up,
ReadHandle(w) ==
  /\ pc[w] = "reap" /\ Goto(w, "kill_handle")
  /\ handle' = [handle EXCEPT ![w] = children]
  /\ UNCHANGED <<platform, files, daemon, stops, faults>>

KillHandle_Skipped(w) ==
  /\ pc[w] = "kill_handle" /\ Goto(w, "clear_handle")
  /\ UNCHANGED <<platform, files, daemon, handle, stops, faults>>

\* killed,
KillHandle(w) ==
  /\ pc[w] = "kill_handle" /\ Goto(w, "clear_handle")
  /\ agents' = agents \ {handle[w]}
  /\ UNCHANGED <<platform, files, event, spawned, unproven, handle, stops, faults>>

\* and forgotten;
ClearHandle(w) ==
  /\ pc[w] = "clear_handle" /\ Goto(w, "unlink")
  /\ children' = NoHandle
  /\ UNCHANGED <<platform, holder, full, stopFile, daemon, handle, stops, faults>>

\* the marker goes (a run does only this),
Unlink(p) ==
  /\ pc[p] = "unlink" /\ Goto(p, IF p \in Watchers THEN "unlink_stop" ELSE "done")
  /\ holder' = [holder EXCEPT ![Kind(p)] = Nobody]
  /\ full' = [full EXCEPT ![Kind(p)] = FALSE]
  /\ UNCHANGED <<platform, stopFile, children, daemon, handle, stops, faults>>

\* and the sentinel.
UnlinkStop(w) ==
  /\ pc[w] = "unlink_stop" /\ Goto(w, "done")
  /\ stopFile' = FALSE
  /\ UNCHANGED <<platform, holder, full, children, daemon, handle, stops, faults>>

-----------------------------------------------------------------------------
(* stop: the soft rung asks and waits, the full rung kills. *)

Ask(s, l) ==
  /\ pc[s] = "idle" /\ Goto(s, "read")
  /\ level' = [level EXCEPT ![s] = l]
  /\ UNCHANGED <<platform, files, daemon, handle, target, faults>>

\* Which path of stop_process the record, the rung and the platform choose.
Path(p, l) ==
  CASE p = Nobody -> IF platform = "posix" THEN "reap_stop" ELSE "done"
    [] p # Nobody /\ l = "soft" -> IF platform = "posix" THEN "probe_pid" ELSE "write_stop"
    [] OTHER -> IF platform = "posix" THEN "write_stop" ELSE "kill"

ReadPid(s) ==
  /\ pc[s] = "read"
  /\ target' = [target EXCEPT ![s] = read_pid_record("watch")]
  /\ Goto(s, Path(read_pid_record("watch"), level[s]))
  /\ UNCHANGED <<platform, files, daemon, handle, level, faults>>

ProbePid(s) ==
  /\ pc[s] = "probe_pid"
  /\ Goto(s, IF is_running(target[s]) THEN "write_stop" ELSE "reap_pid")
  /\ UNCHANGED <<platform, files, daemon, handle, stops, faults>>

WriteStop(s) ==
  /\ pc[s] = "write_stop" /\ stopFile' = TRUE
  /\ Goto(s, CASE level[s] = "full" -> "read_child"
               [] level[s] = "soft" /\ platform = "posix" -> "signal"
               [] OTHER -> "wait")
  /\ UNCHANGED <<platform, holder, full, children, daemon, handle, stops, faults>>

\* Where the daemon's own handler receives SIGTERM; elsewhere it is fatal.
Handled == {"create", "write", "probe", "replace", "clear_stop", "clear_children",
            "poll", "tick", "record", "running", "reaped"}

Signal(s) ==
  LET w == target[s] IN
  /\ pc[s] = "signal"
  /\ Moves([pc EXCEPT ![s] = IF is_running(w) THEN "wait" ELSE "reap_pid",
                      ![w] = IF is_running(w) /\ pc[w] \notin Handled THEN "terminated" ELSE @])
  /\ event' = [event EXCEPT ![w] = @ \/ pc[w] \in Handled]
  /\ UNCHANGED <<platform, files, agents, spawned, unproven, handle, stops, faults>>

\* posix sees the process end; nt sees the marker go.
Confirm(s) ==
  /\ pc[s] = "wait"
  /\ IF platform = "posix" THEN ~is_running(target[s]) /\ Goto(s, "reap_pid")
                           ELSE holder["watch"] = Nobody /\ Goto(s, "reap_stop")
  /\ UNCHANGED <<platform, files, daemon, handle, stops, faults>>

\* The timeout: the request stays pending and every file stays.
TimesOut(s) ==
  /\ pc[s] = "wait" /\ Goto(s, "done")
  /\ UNCHANGED <<platform, files, daemon, handle, stops, faults>>

ReadChild(s) ==
  /\ pc[s] = "read_child"
  /\ Goto(s, IF platform = "posix" THEN "kill" ELSE "kill_child")
  /\ handle' = [handle EXCEPT ![s] = children]
  /\ UNCHANGED <<platform, files, daemon, stops, faults>>

\* What is left of the agents when p dies: on nt they go with its job object.
AgentsWithout(p) == IF platform = "nt" THEN {a \in agents : a[1] # p} ELSE agents

\* killpg of the daemon's group, which its agent is not in; taskkill /T on nt.
Kill(s) ==
  LET w == target[s] IN
  /\ pc[s] = "kill"
  /\ Moves([pc EXCEPT ![s] = IF platform = "posix" THEN "kill_child" ELSE "read_child",
                      ![w] = IF is_running(w) THEN "dead" ELSE @])
  /\ agents' = AgentsWithout(w)
  /\ UNCHANGED <<platform, files, event, spawned, unproven, handle, stops, faults>>

KillChild(s) ==
  /\ pc[s] = "kill_child" /\ Goto(s, "reap_pid")
  /\ agents' = agents \ {handle[s]}
  /\ UNCHANGED <<platform, files, event, spawned, unproven, handle, stops, faults>>

\* The marker goes, whoever it names by now,
ReapPid(s) ==
  /\ pc[s] = "reap_pid" /\ Goto(s, "reap_stop")
  /\ holder' = [holder EXCEPT !["watch"] = Nobody]
  /\ full' = [full EXCEPT !["watch"] = FALSE]
  /\ UNCHANGED <<platform, stopFile, children, daemon, handle, stops, faults>>

\* then the sentinel,
ReapStop(s) ==
  /\ pc[s] = "reap_stop" /\ stopFile' = FALSE
  /\ Goto(s, IF level[s] = "full" \/ target[s] = Nobody THEN "reap_children" ELSE "done")
  /\ UNCHANGED <<platform, holder, full, children, daemon, handle, stops, faults>>

\* then, unless a daemon was asked softly, the agent's handle.
ReapChildren(s) ==
  /\ pc[s] = "reap_children" /\ Goto(s, "done")
  /\ children' = NoHandle
  /\ UNCHANGED <<platform, holder, full, stopFile, daemon, handle, stops, faults>>

\* A process is killed from outside, or the machine takes it down.
Crash(p) ==
  /\ is_running(p) /\ Goto(p, "dead")
  /\ agents' = AgentsWithout(p)
  /\ faults < MaxFaults /\ faults' = faults + 1
  /\ UNCHANGED <<platform, files, event, spawned, unproven, handle, stops>>

-----------------------------------------------------------------------------
\* The calls a claiming process makes by itself.
Claims(p) ==
  \/ CheckDaemon(p) \/ CheckRunner(p) \/ Build(p)
  \/ CreateExclusively(p) \/ WritePayload(p) \/ ProbeHolder(p) \/ ReplaceAtomically(p)
  \/ Unlink(p)

Loops(w) ==
  \/ ClearStop(w) \/ ClearChildren(w) \/ Poll(w) \/ EndTick(w) \/ Spawn(w)
  \/ OnSpawn(w) \/ AgentEnds(w) \/ AgentSurvives(w) \/ OnReap(w)
  \/ ReadHandle(w) \/ KillHandle(w) \/ ClearHandle(w) \/ UnlinkStop(w)

StopSteps(s) ==
  \/ ReadPid(s) \/ ProbePid(s) \/ WriteStop(s) \/ Signal(s) \/ Confirm(s) \/ TimesOut(s)
  \/ ReadChild(s) \/ Kill(s) \/ KillChild(s) \/ ReapPid(s) \/ ReapStop(s) \/ ReapChildren(s)

Next ==
  \/ \E p \in Executors : Start(p) \/ Claims(p)
  \/ \E r \in Runners : EndRun(r)
  \/ \E w \in Watchers : Loops(w) \/ Interrupt(w)
  \/ \E s \in Stoppers : (\E l \in {"soft", "full"} : Ask(s, l)) \/ StopSteps(s)
  \/ \E p \in Procs : Crash(p)

\* A process that is alive keeps running, and an agent ends: run_process
\* gives each one a timeout.
Fairness ==
  /\ \A p \in Executors : WF_vars(Claims(p))
  /\ \A w \in Watchers : WF_vars(Loops(w))

Spec == Init /\ [][Next]_vars /\ Fairness

-----------------------------------------------------------------------------
Handles == {NoHandle} \cup (Watchers \X (1 .. MaxAgents))

PCs == Over \cup Handled \cup
  {"idle", "check_daemon", "check_runner", "build", "work", "reap", "kill_handle",
   "clear_handle", "unlink", "unlink_stop", "read", "probe_pid", "write_stop", "signal",
   "wait", "read_child", "kill", "kill_child", "reap_pid", "reap_stop", "reap_children"}

ControlOK ==
  /\ platform \in Platforms /\ pc \in [Procs -> PCs]
  /\ faults \in 0 .. MaxFaults /\ raced \in BOOLEAN

\* A marker names a process that can hold it, and an absent one has no line.
FilesOK ==
  /\ holder \in [{"watch", "run"} -> Executors \cup {Nobody}]
  /\ holder["watch"] \in Watchers \cup {Nobody} /\ holder["run"] \in Runners \cup {Nobody}
  /\ full \in [{"watch", "run"} -> BOOLEAN]
  /\ \A k \in {"watch", "run"} : full[k] => holder[k] # Nobody
  /\ stopFile \in BOOLEAN /\ children \in Handles

\* An agent that runs was launched.
AgentsOK ==
  /\ event \in [Watchers -> BOOLEAN]
  /\ spawned \in [Watchers -> 0 .. MaxAgents]
  /\ agents \subseteq Watchers \X (1 .. MaxAgents)
  /\ \A a \in agents : a[2] <= spawned[a[1]]
  /\ unproven \subseteq Watchers \X (1 .. MaxAgents)
  /\ handle \in [Procs -> Handles]

StopsOK ==
  /\ target \in [Stoppers -> Watchers \cup {Nobody}]
  /\ level \in [Stoppers -> {"soft", "full"}]

\* Every process is at a call of its own, and every file, agent and stop is
\* what the calls so far can have made of it.
TypeOK == ControlOK /\ FilesOK /\ AgentsOK /\ StopsOK

\* The processes that drive the clone.
Drives(p) ==
  pc[p] \in {"work", "clear_stop", "clear_children", "poll", "tick", "record", "running",
             "reaped"}

\* What the markers do guarantee: as long as no command was ever started
\* beside another start or beside a stop at work, at most one process drives
\* the clone, wherever processes died and whatever files they left behind.
SerialExclusion ==
  raced \/ \A p, q \in Executors : Drives(p) /\ Drives(q) => p = q

\* The two together: the claims that the markers keep apart.
ClaimSafe == TypeOK /\ SerialExclusion

\* A daemon that left by itself, or that a stop's SIGTERM ended while it was
\* cleaning up, leaves no agent behind: none at all whose barrier proved its
\* tree empty, and after a whole cleanup that nothing raced, not the last
\* agent either, whose handle the failed barrier kept.
GracefulExit ==
  \A a \in agents :
    /\ pc[a[1]] \in {"done", "terminated"} => a \in unproven
    /\ pc[a[1]] = "done" /\ ~raced => a[2] < spawned[a[1]]

\* A daemon whose SIGTERM event was set leaves, although its own start
\* clears the sentinel that was written with the signal.
StopHonoured == \A w \in Watchers : event[w] ~> ~is_running(w)

\* On posix a crash locks nobody out: a command that is starting once every
\* other executor is over is not refused, whatever those left behind.
NoLockout ==
  \A p \in Executors :
    (platform = "posix" /\ Starting(p) /\ \A q \in Executors \ {p} : pc[q] \in Over)
      ~> (Drives(p) \/ pc[p] \in Over \ {"refused"})

-----------------------------------------------------------------------------
(* What the repository says, and the code does not keep. *)

\* _create_exclusively: of two executors racing for the same clone exactly
\* one wins.
OneExecutor == \A p, q \in Executors : Drives(p) /\ Drives(q) => p = q

\* stop_process: after the full rung nothing is orphaned.
NothingOrphaned ==
  \A s \in Stoppers :
    pc[s] = "done" /\ level[s] = "full" /\ target[s] # Nobody =>
      \A a \in agents : a[1] # target[s]

\* stop_process: a soft stop that timed out stays pending, and the daemon
\* still exits at its next node boundary.
PendingStopHonoured ==
  \A w \in Watchers : \A s \in Stoppers :
    (pc[s] = "wait" /\ target[s] = w) ~> ~is_running(w)

\* run_process: an unproven subtree keeps the handle, so that a later stop
\* can still reap the survivor.
SurvivorReachable ==
  \A a \in unproven \cap agents : is_running(a[1]) => children = a

=============================================================================
