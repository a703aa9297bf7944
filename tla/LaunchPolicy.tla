----------------------------- MODULE LaunchPolicy -----------------------------
(***************************************************************************)
(* A run's provider launches under the security configuration: preflight,  *)
(* the refusals and announcements at the start and at a restart, the       *)
(* questions a node asks before its attempt, the two adapters' argument    *)
(* vectors, the Codex canary, the launch of the pinned binary, the hop to   *)
(* the other provider, and the comparison when the node is done.  The host *)
(* may change between any two of these but a check and the launch that     *)
(* follows on it: a package is installed or removed, a sandbox stops       *)
(* working, a file on PATH is replaced.                                    *)
(***************************************************************************)
EXTENDS ToolPolicy

CONSTANTS
  Configs,       \* configurations the operator may have written
  Nodes,         \* requests a flow may make
  Machines,      \* states the host may be in
  Routes,        \* sequences of one or two providers
  MaxNodes, MaxChanges, MaxRestarts

ASSUME LaunchAssumption ==
  /\ Configs \subseteq Policies /\ Nodes \subseteq Requests /\ Machines \subseteq Hosts
  /\ Routes \subseteq {<<p>> : p \in ProviderIds} \cup (ProviderIds \X ProviderIds)
  /\ Nodes # {} /\ Routes # {} /\ {MaxNodes, MaxChanges, MaxRestarts} \subseteq Nat

VARIABLES
  cfg, machine,
  pins,        \* binary the command resolved to when the run was built, 0 none
  announced,   \* what the run log says is not enforced
  ready,       \* preflight said ready, and nothing has changed since
  pc, node, route, index,
  bracket,     \* the tree was captured before a read-only node with a shell
  guarded,     \* the request carries the write guard
  argv,        \* the present attempt's vector
  launched,    \* the attempt running: provider, binary, what it can reach
  wrote,       \* the node's agents have changed the working tree
  noticed,     \* what the last comparison reported
  error,       \* class the node ended with
  left

launchVars == <<cfg, machine, pins, announced, ready, pc, node, route, index, bracket, guarded, argv,
          launched, wrote, noticed, error, left>>
runVars == <<cfg, pins, announced>>
nodeVars == <<node, route, bracket, guarded>>

FirstNode == CHOOSE n \in Nodes : TRUE
FirstRoute == CHOOSE r \in Routes : TRUE
NoLaunch == [prov |-> "none", bin |-> 0, reach |-> {}, sandboxed |-> TRUE, box |-> "dead"]
NoArgv == [error |-> "none"]
NothingNoticed == [write |-> FALSE, swap |-> FALSE]
Spend(what) == left[what] > 0 /\ left' = [left EXCEPT ![what] = @ - 1]

LaunchInit ==
  /\ cfg \in Configs /\ machine \in Machines
  /\ pins = 0 /\ announced = {} /\ ready = FALSE
  /\ pc = "off" /\ node = FirstNode /\ route = FirstRoute
  /\ index = 1 /\ bracket = FALSE /\ guarded = FALSE /\ argv = NoArgv
  /\ launched = NoLaunch /\ wrote = FALSE /\ noticed = NothingNoticed /\ error = "none"
  /\ left = [nodes |-> MaxNodes, changes |-> MaxChanges, restarts |-> MaxRestarts]

-----------------------------------------------------------------------------
(* Preflight *)

\* The binary answers --version and exposes what the adapter needs.
healthy(p) == machine.path # 0 /\ ~_preflight_capability_error(cfg, machine, p)

\* Mutant: what cannot be demonstrated is never fatal.
ProbeAccepted_Advisory(p, report) == report # "policy_failed"

\* _append_isolation_probe_lines: a proven leak always fails, a sandbox that
\* cannot be demonstrated only where nothing covers for it.
ProbeAccepted(p, report) ==
  \/ report = "passed"
  \/ report = "unsupported" /\ (~cfg.strict \/ cfg.allowed # {p})

run_preflight(paid, tried) ==
  \A p \in cfg.allowed :
    /\ healthy(p) /\ ~isolation_reasons(cfg, p)
    /\ _preflight_auth_state(machine) # "logged_out"
    /\ _preflight_degraded_reasons(machine) => cfg.allowed # {p}
    /\ p = "codex" => ProbeAccepted(p, run_codex_capability_smoke(cfg, machine.box))
    /\ p = "claude" /\ paid => ProbeAccepted(p, paid_isolation_probe(cfg, machine, tried))

Preflight ==
  /\ pc = "off"
  /\ \E paid \in BOOLEAN, tried \in {{}, {<<"write", "tree">>}, Access} :
       ready' = run_preflight(paid, tried)
  /\ UNCHANGED <<cfg, machine, pins, announced, pc, index, argv, launched, wrote, noticed, error, left>>
  /\ UNCHANGED nodeVars

-----------------------------------------------------------------------------
(* The run *)

\* describe_advanced_mode, describe_host_floor and the read-isolation line.
_announce_security_posture(c, h) ==
  (IF c.strict THEN {} ELSE {"mode"}) \cup (IF read_isolation_off(c) THEN {"read"} ELSE {})
    \cup {p \in c.allowed : host_floor_gap(c, h, p)}

check_isolation == {p \in cfg.allowed : isolation_reasons(cfg, p)}

Start ==
  /\ pc = "off"
  /\ pc' = IF check_isolation = {} THEN "route" ELSE "refused"
  /\ pins' = machine.path
  /\ announced' = _announce_security_posture(cfg, machine)
  /\ UNCHANGED <<cfg, machine, ready, index, argv, launched, wrote, noticed, error, left>>
  /\ UNCHANGED nodeVars

\* What the process held in memory is gone.
Forget ==
  /\ pc' = "route" /\ node' = FirstNode /\ route' = FirstRoute /\ index' = 1
  /\ bracket' = FALSE /\ guarded' = FALSE /\ argv' = NoArgv /\ launched' = NoLaunch
  /\ wrote' = FALSE /\ noticed' = NothingNoticed /\ error' = "none"

\* Mutant: a resumed run says nothing about its posture.
Restart_Silent ==
  /\ pc \notin {"off", "refused"} /\ Spend("restarts") /\ Forget
  /\ cfg' \in Configs /\ pins' = machine.path /\ ready' = FALSE
  /\ UNCHANGED <<machine, announced>>

\* The daemon dies and resumes, perhaps with an edited configuration. The
\* resume announces again; whether it is legal is left to each attempt.
Restart ==
  /\ pc \notin {"off", "refused"} /\ Spend("restarts") /\ Forget
  /\ cfg' \in Configs /\ pins' = machine.path /\ ready' = FALSE
  /\ announced' = _announce_security_posture(cfg', machine)
  /\ UNCHANGED machine

\* The operator's machine, between any two steps but a canary or a vector and
\* its launch: no check could say anything of a host that changes after it.
HostChange ==
  /\ pc # "launch" /\ Spend("changes")
  /\ machine' \in {h \in Machines : h.system = machine.system} /\ ready' = FALSE
  /\ UNCHANGED <<pc, index, argv, launched, wrote, noticed, error>>
  /\ UNCHANGED <<runVars, nodeVars>>

_can_run_commands(n, r) == any_provider_grants_shell(cfg, n, machine, r)

\* _granted_shell_before: only a read-only node with a shell is bracketed.
BeginNode ==
  /\ pc = "route" /\ Spend("nodes")
  /\ \E n \in Nodes, r \in Routes :
       /\ \A i \in DOMAIN r : r[i] \in cfg.allowed
       /\ node' = n /\ route' = r
       /\ bracket' = (n.profile = "read-only" /\ _can_run_commands(n, r))
  /\ pc' = "invoke" /\ index' = 1 /\ wrote' = FALSE /\ error' = "none"
  /\ noticed' = NothingNoticed
  /\ UNCHANGED <<machine, guarded, argv, launched>> /\ UNCHANGED <<ready, runVars>>

\* The write guard follows the profile or a shell, asked for again.
Invoke ==
  /\ pc = "invoke"
  /\ guarded' = (node.profile = "workspace-write" \/ _can_run_commands(node, route))
  /\ pc' = "attempt"
  /\ UNCHANGED <<machine, node, route, bracket, index, argv, launched, wrote, noticed, error, left>>
  /\ UNCHANGED <<ready, runVars>>

provider == route[index]
\* _build_request drops the node's own arguments when the provider changes.
own == IF index = 1 THEN {node.extra} ELSE {}

\* fallback_allowed of the router, as far as these classes go.
fallback_allowed(class, p, q) ==
  LET stricter == cfg.profile[q] = "read-only" \/ cfg.profile[p] = "workspace-write" IN
  CASE class = "configuration_error" -> FALSE
    [] class = "capability_unavailable" -> stricter /\ ~isolation_reasons(cfg, q)
    [] class = "permission_denied" -> stricter
    [] OTHER -> TRUE

Fail(class) ==
  /\ launched' = NoLaunch /\ argv' = NoArgv
  /\ IF index < Len(route) /\ fallback_allowed(class, provider, route[index + 1])
     THEN index' = index + 1 /\ pc' = "attempt" /\ UNCHANGED error
     ELSE pc' = "compare" /\ error' = class /\ UNCHANGED index

Built(vector, next) ==
  IF vector.error # "none" THEN Fail(vector.error)
  ELSE argv' = vector /\ pc' = next /\ UNCHANGED <<index, launched, error>>

BuildClaude ==
  /\ pc = "attempt" /\ provider = "claude"
  /\ Built(build_claude_argv(cfg, node, machine, own), "launch")
  /\ UNCHANGED <<machine, wrote, noticed, left>> /\ UNCHANGED <<ready, runVars, nodeVars>>

BuildCodex ==
  /\ pc = "attempt" /\ provider = "codex"
  /\ Built(build_codex_argv(cfg, node, guarded, own), "canary")
  /\ UNCHANGED <<machine, wrote, noticed, left>> /\ UNCHANGED <<ready, runVars, nodeVars>>

\* Mutant: outside strict isolation every answer of the canary is a warning.
_pre_launch_check_Tolerant ==
  /\ pc = "canary"
  /\ LET class == run_codex_canary(machine.box, argv,
                                   build_canary_probes(FALSE, FALSE, node.packet, guarded)) IN
     IF class = "none" \/ ~cfg.strict
     THEN pc' = "launch" /\ UNCHANGED <<index, argv, launched, error>>
     ELSE Fail(class)
  /\ UNCHANGED <<machine, wrote, noticed, left>> /\ UNCHANGED <<ready, runVars, nodeVars>>

\* Outside strict isolation a sandbox that cannot be demonstrated is only
\* warned about; one that is shown not to enforce stops the attempt always.
_pre_launch_check ==
  /\ pc = "canary"
  /\ LET class == run_codex_canary(machine.box, argv,
                                   build_canary_probes(FALSE, FALSE, node.packet, guarded)) IN
     IF class = "none" \/ (class = "capability_unavailable" /\ ~cfg.strict)
     THEN pc' = "launch" /\ UNCHANGED <<index, argv, launched, error>>
     ELSE Fail(class)
  /\ UNCHANGED <<machine, wrote, noticed, left>> /\ UNCHANGED <<ready, runVars, nodeVars>>

\* Mutant: the command is looked up again at every launch.
launch_Again == machine.path
\* PinnedLaunchers.launch: a name that did not resolve is tried as it is.
launch == IF pins # 0 THEN pins ELSE machine.path

Launch ==
  /\ pc = "launch"
  /\ IF launch = 0 THEN Fail("binary_not_found") /\ UNCHANGED wrote
     ELSE /\ launched' =
               [prov |-> provider, bin |-> launch,
                reach |-> IF provider = "claude" THEN ClaudeReach(cfg, node, argv, guarded)
                          ELSE CodexReach(cfg, machine.box, argv),
                sandboxed |-> provider = "codex" \/ argv.needs_sandbox \/ "Bash" \notin argv.tools,
                box |-> machine.box.kind]
          /\ wrote' \in {wrote, wrote \/ <<"write", "tree">> \in launched'.reach}
          /\ pc' = "running" /\ UNCHANGED <<index, argv, error>>
  /\ UNCHANGED <<machine, noticed, left>> /\ UNCHANGED <<ready, runVars, nodeVars>>

Succeed ==
  /\ pc = "running"
  /\ pc' = "compare" /\ launched' = NoLaunch /\ argv' = NoArgv
  /\ UNCHANGED <<machine, index, wrote, noticed, error, left>> /\ UNCHANGED <<ready, runVars, nodeVars>>

\* A Windows helper failure found after success, or an infrastructure error.
Break ==
  /\ pc = "running"
  /\ \/ provider = "codex" /\ machine.system = "windows" /\ Fail("permission_denied")
     \/ Fail("provider_unavailable")
  /\ UNCHANGED <<machine, wrote, noticed, left>> /\ UNCHANGED <<ready, runVars, nodeVars>>

\* _result: a control comparison for a node that writes or has a shell, the
\* tree for a bracketed one.  The comparison asks about the executables too.
Compare ==
  /\ pc = "compare"
  /\ noticed' = [write |-> bracket /\ wrote,
                 swap |-> (bracket \/ node.profile = "workspace-write") /\ pins # machine.path]
  /\ pc' = "route"
  /\ UNCHANGED <<machine, index, argv, launched, wrote, error, left>> /\ UNCHANGED <<ready, runVars, nodeVars>>

LaunchNext ==
  \/ Preflight \/ Start \/ Restart \/ HostChange \/ BeginNode \/ Invoke
  \/ BuildClaude \/ BuildCodex \/ _pre_launch_check \/ Launch \/ Succeed \/ Break \/ Compare

LaunchSpec == LaunchInit /\ [][LaunchNext]_launchVars

-----------------------------------------------------------------------------
(* Properties *)

\* Types of the variables of a run and its attempts.
LaunchTypeOK ==
  /\ cfg \in Configs /\ machine \in Machines /\ pins \in 0..2
  /\ announced \subseteq {"mode", "read"} \cup ProviderIds
  /\ ready \in BOOLEAN
  /\ pc \in {"off", "refused", "route", "invoke", "attempt", "canary", "launch", "running", "compare"}
  /\ node \in Nodes /\ route \in Routes /\ index \in DOMAIN route
  /\ bracket \in BOOLEAN /\ guarded \in BOOLEAN /\ wrote \in BOOLEAN
  /\ launched.reach \subseteq Access
  /\ error \in Errors \cup {"none", "binary_not_found", "permission_denied", "provider_unavailable"}

Running == launched.prov # "none"

\* Under strict isolation an attempt that got as far as running reaches no
\* more than its node was given, whichever provider it hopped to and however
\* the host changed on the way.  The tree of a read-only Codex node rests on
\* a sandbox whose canary does not probe it: Bracketed is about that.
Confined ==
  Running /\ cfg.strict =>
    /\ {<<"write", "control">>, <<"write", "private">>} \cap launched.reach = {}
    /\ <<"use", "network">> \in launched.reach => node.network
    /\ {<<"read", "private">>, <<"load", "settings">>} \cap launched.reach # {}
         => read_isolation_off(cfg)
    /\ launched.prov = "claude" /\ <<"write", "tree">> \in launched.reach
         => node.profile = "workspace-write"

\* Codex is started unproven only outside strict isolation and only where the
\* host could not answer: a sandbox seen not to enforce stops every attempt,
\* and so does, under strict isolation, one that denies whatever it is asked.
Demonstrated ==
  Running /\ launched.prov = "codex" =>
    /\ cfg.strict => launched.box = "selective"
    /\ launched.box = "selective" => <<"read", "private">> \notin launched.reach
    /\ launched.box = "selective" /\ guarded => <<"write", "control">> \notin launched.reach

\* A read-only node whose agent changed the tree is reported when it ends,
\* though the question whether it has a shell is put before its provider,
\* its vector and the state of the host are known.
Bracketed == [][pc = "compare" /\ pc' = "route" /\ node.profile = "read-only" /\ wrote /\ left' = left
                  => noticed'.write]_launchVars

\* What a run does without a sandbox was said when it started or resumed.
GapAnnounced ==
  Running =>
    /\ ~launched.sandboxed => {"mode", launched.prov} \subseteq announced
    /\ launched.prov = "codex" /\ launched.box # "selective" => "mode" \in announced
    /\ {<<"read", "private">>, <<"load", "settings">>} \cap launched.reach # {}
         => "read" \in announced

\* A binary replaced on PATH while the run goes on is not the one started,
\* and a comparison that looks at the executables reports it.
PinnedBinary ==
  Running => launched.bin = pins \/ pins = 0

\* Preflight keeps its word about Codex: with nothing changed since and
\* nobody to fall back on, an ordinary node is not refused for its isolation.
ReadyHolds ==
  /\ ready /\ cfg.allowed = {"codex"} /\ pc = "compare"
  /\ node.extra \notin {"forbidden", "reserved"} /\ node.packet
  => error \notin Errors

\* A provider launch keeps to what the node was given, what was demonstrated and what
\* was announced, and a read-only node is watched, across hops, restarts and changes
\* of the host.
LaunchSafe ==
  /\ [](LaunchTypeOK /\ Confined /\ Demonstrated /\ GapAnnounced /\ PinnedBinary /\ ReadyHolds)
  /\ Bracketed
=============================================================================
