------------------------------- MODULE ChildEnv -------------------------------
(* What a child process is given of the environment, and what of it is scrubbed *)
(* from the records of a run.  A process of the orchestrator loads its env-file *)
(* and starts children: some on the agent's behalf, and git and gh as itself.   *)
(* A name is its segments and whether it has its documented spelling; a value   *)
(* is told by where it came from, its name and whether it is long enough to be  *)
(* scrubbed as a literal.                                                       *)
EXTENDS Naturals, FiniteSets, SequencesExt

CONSTANTS Securities,   \* security sections of config.yaml
          Shells,       \* environments the operator starts worc in
          EnvFiles,     \* contents of the env-file, none of them included
          LinkSets,     \* where the links of the host lead
          Kept,         \* values in the workspace's denied_read_paths
          Deep,         \* those of them past the bytes that are read of a file
          MaxPrints     \* bound on what an agent prints in one attempt

VARIABLES platform,     \* platform.system()
          security, links, envFile,
          up,           \* a process that got past its launch checks
          environ,      \* os.environ
          defined,      \* env_file._DEFINED_NAMES
          child,        \* the child that runs and its environment
          readable,     \* what the denied files of the workspace still hold
          printed, written

envVars == <<platform, security, links, envFile, up, environ, defined, child,
             readable, printed, written>>

Names == [segs : Seq(STRING), upper : BOOLEAN]
Values == [of : {"shell", "file", "denied", "assigned", "pinned"}, name : Names,
           long : BOOLEAN, path : Seq(STRING)]

\* Every value of an environment knows its name; only an assigned one is a path.
Brought(f, of) ==
  \A n \in DOMAIN f : n \in Names /\ f[n] \in {v \in Values : v.of = of /\ v.name = n /\ v.path = <<>>}

ASSUME EnvAssumption ==
  /\ \A s \in Securities :
       /\ s.strict \in BOOLEAN /\ s.background \in BOOLEAN
       /\ s.allowed \subseteq [name : Names, star : BOOLEAN]
       /\ \A n \in DOMAIN s.extra : n \in Names /\ s.extra[n] \in {v \in Values : v.of = "assigned"}
  /\ \A f \in Shells : Brought(f, "shell")
  /\ \A f \in EnvFiles : Brought(f, "file")
  /\ \A l \in LinkSets : \A p \in DOMAIN l : l[p] \in Seq(STRING) \ {<<>>}
  /\ \A v \in Kept : v \in Values /\ v.of = "denied"
  /\ Deep \subseteq Kept
  /\ MaxPrints \in Nat

Named(segs) == [segs |-> segs, upper |-> TRUE]
PATH == Named(<<"path">>)
SystemRoot == Named(<<"systemroot">>)
Background == Named(<<"claude", "background">>)
Value(of, n, long) == [of |-> of, name |-> n, long |-> long, path |-> <<>>]
Pinned(names) == [n \in names |-> Value("pinned", n, FALSE)]

\* A dict updated with another: the update wins.
Over(update, env) ==
  [n \in DOMAIN update \cup DOMAIN env |-> IF n \in DOMAIN update THEN update[n] ELSE env[n]]

-----------------------------------------------------------------------------
(* Names *)

_SENSITIVE_SEGMENTS ==
  {"token", "secret", "password", "passwd", "pwd", "passphrase", "authorization", "credential",
   "credentials", "key", "apikey", "accesskey", "privatekey", "secretkey"}
is_sensitive_key(n) == \E s \in _SENSITIVE_SEGMENTS : Contains(n.segs, s)

\* The words that make a line look like an assignment at all: `pwd`, `passphrase`
\* and a `key` of another kind are not among them.
_SENSITIVE_WORD ==
  {<<s>> : s \in _SENSITIVE_SEGMENTS \ {"pwd", "passphrase", "key"}}
    \cup {<<"api", "key">>, <<"access", "key">>, <<"private", "key">>}
_ASSIGNMENT(n) ==
  \E w \in _SENSITIVE_WORD, i \in DOMAIN n.segs : IsPrefix(w, SubSeq(n.segs, i, Len(n.segs)))
_HARVEST_EXEMPT_NAMES == {Named(<<"pwd">>), Named(<<"oldpwd">>)}

_name_identity(n) == IF platform = "windows" THEN Named(n.segs) ELSE n
Identities(names) == {_name_identity(n) : n \in names}

\* os.environ of Windows holds every name in its upper case.
InEnviron(f) ==
  [n \in Identities(DOMAIN f) |-> f[CHOOSE m \in DOMAIN f : _name_identity(m) = n]]

\* An entry of allowed_environment is a name, or a prefix of names.
env_pattern_prefix(e) == e.star /\ e.name.segs # <<>>
Spelled(allowed) == {e.name : e \in {x \in allowed : ~x.star}}

env_name_is_covered(allowed, n) ==
  n \in Spelled(allowed)
    \/ \E e \in allowed : /\ env_pattern_prefix(e) /\ IsPrefix(e.name.segs, n.segs)
                          /\ e.name.upper = n.upper

-----------------------------------------------------------------------------
(* What the loader and the launch of a task refuse *)

Overlap(p, q) == IsPrefix(p, q) \/ IsPrefix(q, p)
internal_protected_paths == {<<"clone", "git">>, <<"clone", "worc">>, <<"clone", "tasks">>}
host_protected_paths == internal_protected_paths \cup {<<"home", "envfile">>}
_canonical(p) == IF p \in DOMAIN links THEN links[p] ELSE p
Collides(v, protected) == v.path # <<>> /\ \E p \in protected : Overlap(v.path, p)

_validate_allowed_environment(allowed) ==
  /\ \A e \in allowed : e.star => e.name.segs # <<>> /\ ~is_sensitive_key(e.name)
  /\ env_name_is_covered(allowed, PATH)

_validate_extra_environment(extra) ==
  \A n \in DOMAIN extra :
    /\ n.segs # PATH.segs /\ ~is_sensitive_key(n)
    /\ \A m \in DOMAIN extra : m.segs = n.segs => m = n

_validate_assigned_paths(extra) ==
  \A n \in DOMAIN extra : ~Collides(extra[n], internal_protected_paths)

_validate_security(s) ==
  /\ _validate_allowed_environment(s.allowed)
  /\ _validate_extra_environment(s.extra) /\ _validate_assigned_paths(s.extra)

\* Windows folds the spelling of the entries here and nowhere else.
launch_critical_env_issue(s) ==
  /\ platform = "windows"
  /\ ~env_name_is_covered({[e EXCEPT !.name.upper = TRUE] : e \in s.allowed}, SystemRoot)

require_launch_environment(s) ==
  /\ ~launch_critical_env_issue(s)
  /\ \A n \in DOMAIN s.extra :
       ~Collides([s.extra[n] EXCEPT !.path = _canonical(@)], host_protected_paths)

-----------------------------------------------------------------------------
(* The environment of a child *)

expand_allowed_environment(allowed, source) ==
  {n \in DOMAIN source : \E e \in allowed :
     IF env_pattern_prefix(e)
     THEN /\ IsPrefix(e.name.segs, n.segs) /\ (platform = "windows" \/ e.name.upper = n.upper)
          /\ ~is_sensitive_key(n)
     ELSE ~e.star /\ _name_identity(e.name) = _name_identity(n)}

_allowlisted_names(s, source, withhold_env_file) ==
  {n \in expand_allowed_environment(s.allowed, source) :
     withhold_env_file /\ _name_identity(n) \in Identities(defined)
       => _name_identity(n) \in Identities(Spelled(s.allowed))}

\* An assigned name keeps the spelling it was forwarded under.
_assemble(s, source, forwarded) ==
  [n \in forwarded \cup {a \in DOMAIN s.extra : _name_identity(a) \notin Identities(forwarded)} |->
     IF _name_identity(n) \in Identities(DOMAIN s.extra)
     THEN s.extra[CHOOSE a \in DOMAIN s.extra : _name_identity(a) = _name_identity(n)]
     ELSE source[n]]

build_child_env(s) ==
  _assemble(s, environ,
            IF s.strict THEN _allowlisted_names(s, environ, TRUE)
            ELSE {n \in DOMAIN environ : _name_identity(n) \notin Identities(defined)})

build_orchestrator_env(s) == _assemble(s, environ, _allowlisted_names(s, environ, FALSE))

\* git and gh: what of their own names may come in, what never does, what is set.
_GIT_ENV_NAMESPACE_PREFIXES == {<<"git">>, <<"gh">>, <<"github">>}
_GIT_ENV_NAMESPACE_ALLOWED ==
  {<<"git", "config", "global">>, <<"gh", "token">>, <<"github", "token">>}
_GIT_ENV_SCRUB == {Named(<<"git", "dir">>), Named(<<"gh", "repo">>), Named(<<"ssh", "askpass">>)}
_GIT_HARDENING_ENV == Pinned({Named(<<"git", "editor">>), Named(<<"lc", "all">>)})

InNamespace(n) == /\ \E p \in _GIT_ENV_NAMESPACE_PREFIXES : IsPrefix(p, n.segs)
                  /\ n.segs \notin _GIT_ENV_NAMESPACE_ALLOWED

build_git_env(s) ==
  LET env == build_orchestrator_env(s)
  IN  Over(_GIT_HARDENING_ENV,
           Restrict(env, {n \in DOMAIN env \ _GIT_ENV_SCRUB : ~InNamespace(n)}))

_augment_child_env(s, program, env) ==
  CASE program = "claude" /\ s.background -> Restrict(env, DOMAIN env \ {Background})
    [] program = "claude" /\ ~s.background -> Over(Pinned({Background}), env)
    [] program = "codex" /\ platform = "windows" -> Over(Pinned({PATH}), env)
    [] OTHER -> env

-----------------------------------------------------------------------------
(* What is scrubbed from the output of an attempt *)

secret_env_values(s) ==
  {environ[n] : n \in {m \in DOMAIN environ :
     /\ s.strict => m \notin Spelled(s.allowed)
     /\ m \notin _HARVEST_EXEMPT_NAMES /\ environ[m].long /\ is_sensitive_key(m)}}

\* Of a long file only the head is read.
read_denied_secrets == {v \in readable \ Deep : v.long}
_extra_secrets(s) == secret_env_values(s) \cup read_denied_secrets

\* A value is printed bare, or as the assignment of its name.
_redact_assignment(l) == l.assignment /\ _ASSIGNMENT(l.value.name) /\ is_sensitive_key(l.value.name)
redact_text(lines, secrets) == {l \in lines : l.value \notin secrets /\ ~_redact_assignment(l)}

-----------------------------------------------------------------------------
(* Steps *)

Agents == {"claude", "codex"}
NoChild == [program |-> "none", env |-> <<>>]

EnvInit ==
  /\ platform \in {"posix", "windows"}
  /\ security \in {s \in Securities : _validate_security(s)}
  /\ links \in LinkSets /\ envFile \in EnvFiles
  /\ up = FALSE /\ environ \in {InEnviron(f) : f \in Shells} /\ defined = {}
  /\ child = NoChild /\ readable = Kept /\ printed = {} /\ written = {}

\* Mutant: a name that was already set is not remembered.
load_env_file_NewlySet(f) ==
  /\ environ' = Over(environ, InEnviron(f))
  /\ defined' = {n \in DOMAIN f : _name_identity(n) \notin DOMAIN environ}

\* main() of any verb: the file fills the gaps of the environment, and the
\* names it defines are remembered, the ones that were already set included.
load_env_file(f) ==
  /\ environ' = Over(environ, InEnviron(f))
  /\ defined' = DOMAIN f

Boot ==
  /\ ~up /\ require_launch_environment(security)
  /\ up' = TRUE /\ load_env_file(envFile)
  /\ UNCHANGED <<platform, security, links, envFile, child, readable, printed, written>>

\* A process hands its environment to the worc process it starts, as a console
\* does to the daemon.
Inherit ==
  /\ up /\ child = NoChild
  /\ up' = FALSE /\ defined' = {} /\ written' = {}
  /\ UNCHANGED <<platform, security, links, envFile, environ, child, readable, printed>>

\* An agent, or a check of the quality gate on its behalf.  The output of a
\* check goes to a log of its own, which the harvest does not touch.
StartAgent(program) ==
  /\ up /\ child = NoChild
  /\ child' = [program |-> program,
               env |-> _augment_child_env(security, program, build_child_env(security))]
  /\ printed' = {} /\ written' = {}
  /\ UNCHANGED <<platform, security, links, envFile, up, environ, defined, readable>>

StartGit ==
  /\ up /\ child = NoChild /\ written' = {}
  /\ child' = [program |-> "git", env |-> build_git_env(security)]
  /\ UNCHANGED <<platform, security, links, envFile, up, environ, defined, readable, printed>>

\* The agent repeats a variable it was given, or what it read in a denied file.
Reveal ==
  /\ child.program \in Agents /\ Cardinality(printed) < MaxPrints
  /\ \/ \E n \in DOMAIN child.env, a \in BOOLEAN :
          printed' = printed \cup {[value |-> child.env[n], assignment |-> a]}
     \/ \E v \in readable : printed' = printed \cup {[value |-> v, assignment |-> FALSE]}
  /\ UNCHANGED <<platform, security, links, envFile, up, environ, defined, child, readable, written>>

\* The agent's work removes a denied file: what it held is no longer harvested.
RemoveDenied ==
  /\ child.program \in Agents /\ readable # {} /\ readable' = {}
  /\ UNCHANGED <<platform, security, links, envFile, up, environ, defined, child, printed, written>>

\* The child ended: a provider's streams are scrubbed by what is known now.
RecordStreams ==
  /\ child # NoChild /\ child' = NoChild /\ printed' = {}
  /\ written' = redact_text(printed, _extra_secrets(security))
  /\ UNCHANGED <<platform, security, links, envFile, up, environ, defined, readable>>

EnvNext ==
  \/ Boot \/ Inherit \/ StartGit \/ Reveal \/ RemoveDenied \/ RecordStreams
  \/ \E program \in Agents \cup {"check"} : StartAgent(program)

EnvSpec == EnvInit /\ [][EnvNext]_envVars

-----------------------------------------------------------------------------
(* Properties *)

EnvTypeOK ==
  /\ platform \in {"posix", "windows"} /\ up \in BOOLEAN /\ defined \subseteq DOMAIN envFile
  /\ child.program \in Agents \cup {"none", "check", "git"} /\ readable \subseteq Kept

OnBehalf == child.program \in Agents \cup {"check"}
Granted(n) == security.strict /\ _name_identity(n) \in Identities(Spelled(security.allowed))

\* What the env-file holds reaches a child of the agent's side only where strict
\* isolation names the variable outright, whichever process loaded it first and
\* however Windows spells it; nor does a prefix under strict isolation carry a
\* secret-named variable along (build_child_env, load_env_file).
Withheld ==
  OnBehalf =>
    \A n \in DOMAIN child.env :
      child.env[n].of = "file" \/ (security.strict /\ is_sensitive_key(n)) => Granted(n)

\* A secret-named value that ends in a provider's record was granted by name, is too
\* short to be told from ordinary text, or is a working directory; it may then stand
\* there as an assignment too, but only of a name without a sensitive word; and what
\* the harvest reads of a denied file that is still there when the attempt ends is in
\* no record (_extra_secrets, redact_text).
SecretsScrubbed ==
  \A l \in written :
    /\ l.value.of \in {"shell", "file"} /\ is_sensitive_key(l.value.name)
         => /\ l.assignment => ~_ASSIGNMENT(l.value.name)
            /\ \/ ~l.value.long \/ Granted(l.value.name)
               \/ _name_identity(l.value.name) \in _HARVEST_EXEMPT_NAMES
    /\ l.value \in readable \ Deep => ~l.value.long

\* The operator's assignment is the one value its variable has in a child, under
\* either isolation, and Windows is never left two spellings to choose from; the
\* switch of background_tasks is the adapter's to set (_assemble, _augment_child_env).
AssignedStands ==
  LET Switch(n) == child.program = "claude" /\ _name_identity(n) = Background IN
  OnBehalf =>
    /\ \A a \in DOMAIN security.extra :
         Switch(a) \/ \E n \in DOMAIN child.env : /\ _name_identity(n) = _name_identity(a)
                                                  /\ child.env[n] = security.extra[a]
    /\ \A m, n \in DOMAIN child.env : _name_identity(m) = _name_identity(n) => m = n \/ Switch(n)

\* No name that moves a repository, a transport or a publication reaches git or gh,
\* whether the shell, the env-file or the configuration brought it.  Outside the
\* namespaces a name is taken out, and pinned, in its documented spelling, so one
\* that Windows reads the same can only have been assigned (build_git_env).
GitClosed ==
  child.program = "git" =>
    \A n \in DOMAIN child.env :
      /\ InNamespace(n) => child.env[n].of = "pinned"
      /\ _name_identity(n) \in _GIT_ENV_SCRUB \cup DOMAIN _GIT_HARDENING_ENV =>
           \/ n \in DOMAIN _GIT_HARDENING_ENV /\ child.env[n].of = "pinned"
           \/ n \in DOMAIN security.extra /\ n # _name_identity(n)

\* What the two gates over allowed_environment promise: a child that starts finds its
\* programs, and Windows can start it, unless the env-file itself defines that name.
Launchable ==
  child # NoChild =>
    \A n \in {PATH} \cup IF platform = "windows" THEN {SystemRoot} ELSE {} :
      n \in DOMAIN environ /\ n \notin Identities(defined) => n \in DOMAIN child.env

\* No child is given an assigned path onto the orchestrator's own files, however the
\* links of the host lead there (validate_config, require_launch_environment).
AssignedApart ==
  child # NoChild =>
    \A n \in DOMAIN child.env : \A p \in host_protected_paths :
      child.env[n].path # <<>> => ~Overlap(_canonical(child.env[n].path), p)

\* A child has of the environment what the policy grants it, and of the secrets the
\* orchestrator knew what is written down of its output holds only those that the rules
\* of SecretsScrubbed let through, across processes and platforms.
EnvSafe ==
  /\ EnvTypeOK /\ Withheld /\ SecretsScrubbed /\ AssignedStands
  /\ GitClosed /\ Launchable /\ AssignedApart
=============================================================================
