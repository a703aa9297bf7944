------------------------------ MODULE ToolPolicy ------------------------------
(***************************************************************************)
(* What the two provider adapters ask of their command line for one        *)
(* attempt, and what the started process can then reach.  A policy is a    *)
(* record c of the configuration, a request a record n of the node, a host *)
(* a record h of the machine; areas of the disk are the working tree, the  *)
(* control paths inside it (.git, tasks/, the exchange) and the            *)
(* orchestrator's private homes.                                           *)
(***************************************************************************)
EXTENDS Integers, Sequences, FiniteSets

ProviderIds == {"claude", "codex"}
Profiles == {"read-only", "workspace-write"}
Systems == {"linux", "mac", "windows"}
\* Kinds of extra arguments: none, one that is forbidden, one the adapter's
\* policy reserves, a --permission-mode that is auto or acceptEdits.
ExtraArgs == {"none", "forbidden", "reserved", "auto", "acceptEdits"}

Policies == [strict : BOOLEAN, disable_read_isolation : BOOLEAN, profile : [ProviderIds -> Profiles],
             extra : [ProviderIds -> ExtraArgs], unbounded_glob : BOOLEAN,
             allowed : SUBSET ProviderIds]
Requests == [profile : Profiles, network : BOOLEAN, git_evidence : BOOLEAN, skills : BOOLEAN,
             extra : ExtraArgs, packet : BOOLEAN]
\* How `codex sandbox` behaves: it enforces the parts it holds, denies
\* everything, reports that it cannot, refuses the profile, or refuses to
\* execute codex itself.
Boxes == [kind : {"selective"}, holds : SUBSET {"read", "tree", "guard"}]
           \cup [kind : {"dead", "marker", "rejects", "noexec"}, holds : {{}}]
\* What the installed command line answers when asked about itself.
Clis == {"good", "old", "no_resume", "logged_out"}
Hosts == [system : Systems, deps : BOOLEAN, box : Boxes, helper : BOOLEAN, path : 0..2, cli : Clis]

read_isolation_off(c) == c.disable_read_isolation \/ ~c.strict

Access == {<<"write", "tree">>, <<"write", "control">>, <<"write", "private">>,
           <<"read", "private">>, <<"use", "network">>, <<"load", "settings">>}
\* The repository's own settings, hooks and servers are loaded or closed off.
_isolation_argv(c) == IF read_isolation_off(c) THEN {<<"load", "settings">>} ELSE {}
Errors == {"configuration_error", "capability_unavailable"}


-----------------------------------------------------------------------------
(* Claude: a permission mode, a list of tools, denied tools and a sandbox *)

\* _MODE_ORDER, of which the modes in between are not told apart.
Rank == [dontAsk |-> 1, acceptEdits |-> 3, auto |-> 4]

_bash_sandbox_available(h) == h.system = "mac" \/ (h.system = "linux" /\ h.deps)

map_permission(profile) ==
  IF profile = "read-only" THEN [mode |-> "dontAsk", tools |-> {"Read"}]
  ELSE [mode |-> "acceptEdits", tools |-> {"Read", "Edit", "Bash"}]

_effective_network_access(c, n) == n.network \/ ~c.strict

\* Mutant: a refusal to build is filed as the task's own failure.
Refusal_Task(class) == [error |-> "task_failure", mode |-> "dontAsk", tools |-> {}, needs_sandbox |-> FALSE]

Refusal(class) == [error |-> class, mode |-> "dontAsk", tools |-> {}, needs_sandbox |-> FALSE]

\* Mutant: only the shell of a writing node is put in the sandbox.
SandboxedShell_Writers(c, n, h) ==
  c.strict /\ n.profile = "workspace-write" /\ _bash_sandbox_available(h)

SandboxedShell(c, n, h) == c.strict /\ _bash_sandbox_available(h)

\* The git-evidence grant gives a read-only node a shell for git's reading
\* verbs.  A strict shell is sandboxed, dropped (Windows) or refused.
resolve_claude_tools(c, n, h) ==
  LET base == map_permission(n.profile)
      shell == "Bash" \in base.tools \/ ~c.strict \/ n.git_evidence
      dropped == c.strict /\ h.system = "windows" IN
  IF c.strict /\ shell /\ h.system = "linux" /\ ~h.deps THEN Refusal("capability_unavailable")
  ELSE [error |-> "none",
        mode |-> IF c.strict THEN base.mode ELSE "acceptEdits",
        tools |-> (base.tools \ (IF dropped THEN {"Bash"} ELSE {}))
                    \cup (IF shell /\ ~dropped THEN {"Bash"} ELSE {})
                    \cup (IF _effective_network_access(c, n) THEN {"Web"} ELSE {}),
        needs_sandbox |-> shell /\ SandboxedShell(c, n, h)]

\* Asked of the extra arguments of the configuration and of the request together.
find_forbidden_args(extras) == "forbidden" \in extras
_find_reserved_claude_args(extras) == "reserved" \in extras

_reject_weaker_permission_override(extras, mode) ==
  \E e \in extras \cap {"auto", "acceptEdits"} : Rank[e] > Rank[mode]

\* What --disallowedTools takes away from the file tools. A guard comes with
\* an attempt that can write or run commands.
_disallowed_tools(c, n, guarded) ==
  {<<"Read", "private">>, <<"Edit", "private">>}
    \cup (IF guarded THEN {<<"Edit", "control">>} ELSE {})
    \cup (IF ~c.strict /\ n.profile = "read-only"
          THEN {"Edit"} \X {"tree", "control", "private"} ELSE {})

\* The settings file of a sandboxed shell.
build_sandbox_settings(c, n, guarded) ==
  [denyRead |-> IF read_isolation_off(c) THEN {} ELSE {"private"},
   denyWrite |-> {"private"} \cup (IF guarded THEN {"control"} ELSE {})
                   \cup (IF n.profile = "read-only" THEN {"tree"} ELSE {}),
   network |-> _effective_network_access(c, n)]

\* A plan that cannot be had is the first refusal: _build_argv asks for it before
\* build_claude_argv looks at the arguments and the skills.
build_claude_argv(c, n, h, own) ==
  LET extras == {c.extra["claude"]} \cup own
      plan == resolve_claude_tools(c, n, h) IN
  IF /\ plan.error = "none"
     /\ \/ find_forbidden_args(extras) \/ _find_reserved_claude_args(extras)
        \/ n.skills /\ c.strict
        \/ _reject_weaker_permission_override(extras, plan.mode)
  THEN Refusal("configuration_error") ELSE plan

\* Outside strict isolation no list of tools is passed, and no sandbox is on.
ClaudeReach(c, n, plan, guarded) ==
  LET denied == _disallowed_tools(c, n, guarded)
      has(tool) == tool \in plan.tools \/ ~c.strict
      box == build_sandbox_settings(c, n, guarded)
      tools == {<<"write", a>> : a \in {x \in {"tree", "control", "private"} :
                                          has("Edit") /\ <<"Edit", x>> \notin denied}}
                 \cup (IF has("Read") /\ <<"Read", "private">> \notin denied
                       THEN {<<"read", "private">>} ELSE {})
                 \cup (IF "Web" \in plan.tools THEN {<<"use", "network">>} ELSE {})
      shell == IF "Bash" \notin plan.tools THEN {}
               ELSE IF ~plan.needs_sandbox THEN Access
               ELSE {<<"write", a>> : a \in {"tree", "control", "private"} \ box.denyWrite}
                      \cup {<<"read", a>> : a \in {"private"} \ box.denyRead}
                      \cup (IF box.network THEN {<<"use", "network">>} ELSE {})
  IN tools \cup shell \cup _isolation_argv(c)

\* What a configuration alone is refused for. The mode it is measured
\* against is the configured profile's, not a node's.
claude_isolation_reasons(c) ==
  \/ find_forbidden_args({c.extra["claude"]}) \/ _find_reserved_claude_args({c.extra["claude"]})
  \/ _reject_weaker_permission_override({c.extra["claude"]},
                                        map_permission(c.profile["claude"]).mode)

-----------------------------------------------------------------------------
(* Codex: a permission profile its sandbox enforces, and the canary *)

\* The stricter of the two: a node cannot widen what is configured.
_effective_permission_profile(c, n) ==
  IF "read-only" \in {n.profile, c.profile["codex"]} THEN "read-only" ELSE "workspace-write"

\* Longest path wins: the control paths and the private homes lie inside
\* what the workspace, or the whole disk, is given.
build_codex_permission_profile(c, profile, guarded, network) ==
  IF c.unbounded_glob /\ c.strict
  THEN [error |-> "configuration_error", tree |-> "read", control |-> "read", private |-> "deny",
        network |-> FALSE]
  ELSE [error |-> "none",
        tree |-> IF profile = "workspace-write" THEN "write" ELSE "read",
        control |-> IF guarded \/ profile = "read-only" THEN "read" ELSE "write",
        private |-> "deny",
        network |-> network]

_find_reserved_codex_args(extras) == "reserved" \in extras

build_codex_argv(c, n, guarded, own) ==
  LET extras == {c.extra["codex"]} \cup own IN
  IF find_forbidden_args(extras) \/ _find_reserved_codex_args(extras)
  THEN [build_codex_permission_profile(c, "read-only", guarded, FALSE)
          EXCEPT !.error = "configuration_error"]
  ELSE build_codex_permission_profile(c, _effective_permission_profile(c, n), guarded,
                                      n.network \/ ~c.strict)

codex_isolation_reasons(c) ==
  find_forbidden_args({c.extra["codex"]}) \/ _find_reserved_codex_args({c.extra["codex"]})

\* Does this sandbox deny a write into the control paths, into the tree?
Denies(box, profile, area) ==
  \/ box.kind = "dead"
  \/ /\ box.kind = "selective"
     /\ CASE area = "private" -> "read" \in box.holds
          [] area = "control" -> /\ profile.control = "read"
                                 /\ \/ "guard" \in box.holds
                                    \/ profile.tree = "read" /\ "tree" \in box.holds
          [] area = "tree" -> profile.tree = "read" /\ "tree" \in box.holds

CodexReach(c, box, profile) ==
  _isolation_argv(c) \cup
  CASE box.kind = "dead" -> {}
    [] box.kind \notin {"dead", "selective"} -> Access
    [] OTHER -> {<<"write", a>> : a \in {x \in {"tree", "control", "private"} : ~Denies(box, profile, x)}}
                  \cup (IF Denies(box, profile, "private") THEN {} ELSE {<<"read", "private">>})
                  \cup (IF profile.network THEN {<<"use", "network">>} ELSE {})

Probe(area, expect_denied) == [area |-> area, expect_denied |-> expect_denied]
\* In the order they run. "exec" starts codex itself inside the sandbox,
\* "read" reads an allowed file.
\* _write_guard_probes: a root is probed by a write that must be denied.
_write_guard_probes(guarded) == IF guarded THEN <<Probe("control", TRUE)>> ELSE <<>>
build_canary_probes(repo, writable, exchange, guards) ==
  <<Probe("private", TRUE)>>
    \o (IF repo THEN <<Probe("read", FALSE), Probe("tree", ~writable)>> ELSE <<>>)
    \o (IF exchange THEN <<Probe("read", FALSE), Probe("control", TRUE)>> ELSE <<>>)
    \o <<Probe("exec", FALSE)>>
    \o _write_guard_probes(guards)

Denied(box, profile, probe) ==
  IF box.kind \in {"marker", "rejects", "dead"} THEN TRUE
  ELSE IF probe.area = "read" THEN FALSE
  ELSE IF probe.area = "exec" THEN box.kind = "noexec"
  ELSE IF box.kind = "noexec" THEN probe.expect_denied
  ELSE Denies(box, profile, probe.area)

_classify_probe(box, profile, probe) ==
  LET denied == Denied(box, profile, probe) IN
  IF box.kind = "marker" THEN "capability_unavailable"
  ELSE IF \/ denied /\ (probe.area = "exec" \/ box.kind = "rejects")
          \/ probe.expect_denied /\ ~denied
    THEN "configuration_error"
  ELSE IF ~probe.expect_denied /\ denied THEN "capability_unavailable" ELSE "none"

\* The first probe that answers wrongly decides; an allowed read must have
\* succeeded, or a harness that denies everything would pass.
run_codex_canary(box, profile, probes) ==
  LET bad == {i \in DOMAIN probes : _classify_probe(box, profile, probes[i]) # "none"} IN
  IF bad # {} THEN _classify_probe(box, profile, probes[CHOOSE i \in bad : \A j \in bad : i <= j])
  ELSE IF \A i \in DOMAIN probes : probes[i].area # "read" THEN "capability_unavailable"
  ELSE "none"

\* The preflight smoke: a fixture of its own, all the probes, and the
\* configured profile.
run_codex_capability_smoke(c, box) ==
  LET configured == c.profile["codex"]
      writable == configured = "workspace-write"
      profile == build_codex_permission_profile(c, configured, writable, ~c.strict) IN
  IF profile.error # "none" THEN "policy_failed"
  ELSE CASE run_codex_canary(box, profile, build_canary_probes(TRUE, writable, TRUE, TRUE)) = "none"
              -> "passed"
         [] run_codex_canary(box, profile, build_canary_probes(TRUE, writable, TRUE, TRUE))
              = "configuration_error" -> "policy_failed"
         [] OTHER -> "unsupported"

\* The request of Claude's paid probe: an agent told to write everywhere.
ProbeRequest == [profile |-> "workspace-write", network |-> FALSE, git_evidence |-> FALSE,
                 skills |-> FALSE, extra |-> "none", packet |-> FALSE]

\* Only the allowed file makes the absence of the others mean something.
classify_paid_probe(landed) ==
  IF landed \cap {<<"write", "control">>, <<"write", "private">>} # {} THEN "policy_failed"
  ELSE IF <<"write", "tree">> \notin landed THEN "unsupported" ELSE "passed"

\* `tried` is what the agent attempted of it.
paid_isolation_probe(c, h, tried) ==
  LET plan == build_claude_argv(c, ProbeRequest, h, {}) IN
  IF ~c.strict \/ ~_bash_sandbox_available(h) \/ plan.error # "none" THEN "unsupported"
  ELSE classify_paid_probe(tried \cap ClaudeReach(c, ProbeRequest, plan, TRUE))

-----------------------------------------------------------------------------
(* Questions about a provider before it is asked for anything *)

isolation_reasons(c, p) ==
  IF p = "claude" THEN claude_isolation_reasons(c) ELSE codex_isolation_reasons(c)

\* A plan the adapter refuses counts as one with a shell.
attempt_has_shell(c, n, h, p) ==
  \/ p = "codex"
  \/ LET plan == resolve_claude_tools(c, [n EXCEPT !.network = FALSE], h) IN
     plan.error # "none" \/ "Bash" \in plan.tools

\* Mutant: only the primary is asked.
any_provider_grants_shell_Primary(c, n, h, ps) == attempt_has_shell(c, n, h, ps[1])

any_provider_grants_shell(c, n, h, ps) == \E i \in DOMAIN ps : attempt_has_shell(c, n, h, ps[i])

claude_host_floor_gap(c, h) == ~c.strict \/ ~_bash_sandbox_available(h)
codex_host_floor_gap(h) == h.system = "windows"
host_floor_gap(c, h, p) ==
  IF p = "claude" THEN claude_host_floor_gap(c, h) ELSE codex_host_floor_gap(h)

\* A command line too old for the isolation flags; Codex also misses its
\* Windows helper if the configured profile makes it need one.
_windows_sandbox_helper_error(c, h) ==
  h.system = "windows" /\ c.profile["codex"] # "read-only" /\ ~h.helper
_preflight_capability_error(c, h, p) ==
  h.cli = "old" \/ (p = "codex" /\ _windows_sandbox_helper_error(c, h))
_preflight_degraded_reasons(h) == h.cli = "no_resume"
_preflight_auth_state(h) == IF h.cli = "logged_out" THEN "logged_out" ELSE "logged_in"
=============================================================================
