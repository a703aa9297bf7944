------------------------------ MODULE MCNodeRuns ------------------------------
(* What a node runs: an agent under the launch policy, or the operator's       *)
(* programs of a gate; and the environment a child of either is given. The     *)
(* three share no state, and a behaviour has one of them.                      *)
EXTENDS LaunchPolicy, GateNodes, ChildEnv

VARIABLE running

(* Requests, configurations and hosts that differ in what one of the two adapters, or the canary, looks at. *)
Both(x, y) == [claude |-> x, codex |-> y]
Policy(strict, off, profile, extra, glob, allowed) ==
  [strict |-> strict, disable_read_isolation |-> off, profile |-> profile, extra |-> extra,
   unbounded_glob |-> glob, allowed |-> allowed]
ww == "workspace-write"
ro == "read-only"
Plain == Both("none", "none")

MCConfigs ==
  {Policy(s, o, Both(ww, ww), Plain, FALSE, ProviderIds) : s \in BOOLEAN, o \in BOOLEAN}
    \cup {Policy(s, TRUE, Both(ww, ww), Plain, FALSE, {"codex"}) : s \in BOOLEAN}
    \cup {Policy(TRUE, TRUE, Both(ww, ro), Plain, FALSE, {"codex"}),
          Policy(TRUE, FALSE, Both(ro, ww), Plain, TRUE, ProviderIds),
          Policy(TRUE, FALSE, Both(ww, ww), Both("acceptEdits", "none"), FALSE, ProviderIds),
          Policy(TRUE, FALSE, Both(ww, ww), Both("auto", "forbidden"), FALSE, ProviderIds)}

Request(profile, net, proof, skills, extra, packet) ==
  [profile |-> profile, network |-> net, git_evidence |-> proof, skills |-> skills,
   extra |-> extra, packet |-> packet]
MCNodes ==
  {Request(p, net, FALSE, FALSE, "none", k) : p \in Profiles, net \in BOOLEAN, k \in BOOLEAN}
    \cup {Request(ro, FALSE, TRUE, FALSE, "none", TRUE), Request(ww, FALSE, FALSE, TRUE, "auto", TRUE),
          Request(ww, FALSE, FALSE, FALSE, "reserved", TRUE)}

Sound == [kind |-> "selective", holds |-> {"read", "tree", "guard"}]
Box(k) == [kind |-> k, holds |-> {}]
Host(system, deps, box, helper, path) ==
  [system |-> system, deps |-> deps, box |-> box, helper |-> helper, path |-> path, cli |-> "good"]
MCMachines ==
  {Host("linux", d, Sound, FALSE, p) : d \in BOOLEAN, p \in 0..2}
    \cup {Host("linux", TRUE, [kind |-> "selective", holds |-> s], FALSE, 1) :
            s \in {{"read", "tree"}, {"read", "guard"}, {"tree", "guard"}}}
    \cup {Host("linux", TRUE, Box(k), FALSE, 1) : k \in {"dead", "marker", "rejects", "noexec"}}
    \cup {Host("windows", FALSE, Box("marker"), FALSE, 1), Host("windows", FALSE, Sound, TRUE, 1)}
    \cup {[Host("mac", FALSE, Sound, FALSE, 1) EXCEPT !.cli = k] : k \in Clis}

MCRoutes == {<<"claude">>, <<"codex">>, <<"claude", "codex">>, <<"codex", "claude">>}

-----------------------------------------------------------------------------
(* A set of checks for each area, one of them free to be absent, and every shape of answer a tool gives. *)
MCCheckSets == <<[areas |-> {"src"}, skip |-> FALSE, checks |-> 1],
                 [areas |-> {"docs"}, skip |-> TRUE, checks |-> 1]>>

Answer(start, exit, stdout, stderr, outcome, findings, data) ==
  [launch |-> start, exit |-> exit, stdout |-> stdout, stderr |-> stderr, outcome |-> outcome,
   findings |-> findings, data |-> data]

MCToolResults ==
  {Answer("timeout", 1, "empty", FALSE, "absent", FALSE, FALSE),
   Answer("ok", 1, "empty", TRUE, "absent", FALSE, FALSE),
   Answer("ok", 1, "empty", FALSE, "absent", FALSE, FALSE),
   Answer("ok", 0, "empty", FALSE, "absent", FALSE, FALSE),
   Answer("ok", 1, "text", TRUE, "absent", FALSE, FALSE),
   Answer("ok", 0, "json bad", FALSE, "invalid", FALSE, FALSE),
   Answer("ok", 0, "json data", FALSE, "fail", FALSE, TRUE),
   Answer("ok", 1, "json found", FALSE, "fail", TRUE, FALSE),
   Answer("ok", 1, "json route", FALSE, "route", FALSE, TRUE)}

Entry(l, sn) == [mapping |-> TRUE, path |-> TRUE, inside |-> TRUE, file |-> TRUE,
                readable |-> TRUE, line |-> l, snippet |-> sn]

MCManifests ==
  {[status |-> st, sources |-> {}] : st \in {"missing", "malformed", "ok"}}
  \cup {[status |-> "ok", sources |-> {Entry(l, sn)}] :
          l \in {"none", "in", "out"}, sn \in {"none", "nowhere", "there", "elsewhere"}}

-----------------------------------------------------------------------------
(* Names that differ in what one rule of the environment looks at, among them  *)
(* configurations the loader refuses.                                          *)
Alt(segs) == [segs |-> segs, upper |-> FALSE]
BotToken == Named(<<"bot", "token">>)
BotChat == Named(<<"bot", "chat">>)
NugetPackages == Named(<<"nuget", "packages">>)
NugetKey == Named(<<"nuget", "api", "key">>)
GitDir == Named(<<"git", "dir">>)
GitCount == Named(<<"git", "config", "count">>)
GhToken == Named(<<"gh", "token">>)
Askpass == Named(<<"ssh", "askpass">>)
Pwd == Named(<<"pwd">>)
SigningKey == Named(<<"signing", "key">>)
Exact(n) == [name |-> n, star |-> FALSE]
Star(n) == [name |-> n, star |-> TRUE]
Filled(names, of) == [n \in names |-> Value(of, n, n \notin {GhToken, SigningKey})]
Assigned(n, path) == n :> [Value("assigned", n, TRUE) EXCEPT !.path = path]

Security(strict, background, allowed, extra) ==
  [strict |-> strict, background |-> background, extra |-> extra,
   allowed |-> {Exact(PATH), Exact(SystemRoot)} \cup allowed]
Cache == Assigned(NugetPackages, <<"clone", "cache">>)
Telegram == {Exact(BotToken), Exact(GhToken), Star(Named(<<"git">>))}
MCSecurities ==
  {Security(s, s, a, e) : s \in BOOLEAN, e \in {<<>>, Cache},
     a \in {Telegram, {Star(Named(<<"bot">>)), Exact(Pwd)}, {Star(Named(<<>>))}, {Star(Named(<<"token">>))},
           {Star(Named(<<"nuget">>)), Exact(Alt(<<"nuget", "api", "key">>)), Exact(Askpass)}}}
  \cup {[Security(s, FALSE, {}, Cache) EXCEPT !.allowed = a] : s \in BOOLEAN,
          a \in {{Star(PATH), Exact(GhToken)}, {Exact(PATH), Star(SystemRoot)}, {Exact(Alt(PATH.segs))}}}
  \cup {Security(s, FALSE, Telegram, e) : s \in BOOLEAN,
          e \in {Assigned(GitDir, <<"clone", "link">>), Assigned(Alt(NugetPackages.segs), <<>>),
                Assigned(BotChat, <<"home">>), Assigned(Named(<<"lc", "all">>), <<>>) @@ Assigned(Askpass, <<>>),
                Cache @@ Assigned(Alt(NugetPackages.segs), <<>>), Assigned(NugetPackages, <<"clone">>),
                Assigned(Alt(PATH.segs), <<>>), Assigned(BotToken, <<>>), Assigned(Background, <<>>),
                Assigned(Alt(Background.segs), <<>>), Assigned(Alt(Askpass.segs), <<>>)}}
  \cup {Security(TRUE, TRUE, {Exact(Background)}, Assigned(Alt(Background.segs), <<>>))}
MCShells ==
  {Filled({PATH, SystemRoot, Background} \cup s, "shell") :
     s \in {{NugetPackages, NugetKey, GhToken, Pwd, SigningKey}, {GitDir, GitCount, Askpass, BotChat, Alt(<<"bot", "token">>)}}}
MCEnvFiles == {Filled(s, "file") : s \in {{}, {BotToken, BotChat}, {Alt(<<"bot", "token">>), NugetKey, PATH}}}
MCDeep == {Value("denied", Named(<<"tail">>), TRUE)}
MCLinkSets == {<<>>, <<"clone", "link">> :> <<"clone", "git", "objects">>}
MCKept == {Value("denied", Named(<<"note">>), b) : b \in BOOLEAN} \cup MCDeep

-----------------------------------------------------------------------------
AgentRest == LaunchInit /\ cfg = (CHOOSE c \in Configs : TRUE) /\ machine = (CHOOSE m \in Machines : TRUE)
GateRest == GateInit /\ setup = [gate |-> "tool", unit |-> FALSE, auto_merge |-> FALSE]

EnvRest ==
  /\ platform = "posix" /\ security = (CHOOSE s \in Securities : _validate_security(s))
  /\ links = <<>> /\ envFile = <<>> /\ up = FALSE /\ environ = <<>> /\ defined = {}
  /\ child = NoChild /\ readable = {} /\ printed = {} /\ written = {}

RunsInit ==
  \/ running = "agent" /\ LaunchInit /\ GateRest /\ EnvRest
  \/ running = "gate" /\ GateInit /\ AgentRest /\ EnvRest
  \/ running = "env" /\ EnvInit /\ AgentRest /\ GateRest

RunsNext ==
  \/ running = "agent" /\ LaunchNext /\ UNCHANGED <<running, gateVars, envVars>>
  \/ running = "gate" /\ GateNext /\ UNCHANGED <<running, launchVars, envVars>>
  \/ running = "env" /\ EnvNext /\ UNCHANGED <<running, launchVars, gateVars>>

RunsSpec == RunsInit /\ [][RunsNext]_<<running, launchVars, gateVars, envVars>>
=============================================================================
