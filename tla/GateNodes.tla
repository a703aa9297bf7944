------------------------------ MODULE GateNodes ------------------------------
(***************************************************************************)
(* A gate of a flow that no agent decides: a checks node (command profile, *)
(* citation or dependency scan) or a tool node, with its fix loop, between *)
(* the agent that writes and the reviewer that reads. What they run are    *)
(* the operator's programs: they may fail, be absent or rewrite the tree.  *)
(*                                                                         *)
(* The tree is what a run of a node did to it: `touched` holds "tracked"   *)
(* for a change git status or git diff HEAD shows and "fresh" for new      *)
(* content of a file that was untracked already, which neither shows.      *)
(***************************************************************************)
EXTENDS Naturals, Sequences, SequencesExt

CONSTANTS
  CheckSets,      \* checks.command_sets, in order: [areas, skip, checks]
  Areas,          \* parts of the repository a change may lie in
  ToolResults,    \* what the operator's tool may do
  Rewrites,       \* the kinds of change a check may make to the tree
  Manifests,      \* what a citation manifest may be: [status, sources]
  FixBudget,      \* rounds of the fix loop of the checks
  ToolBudget,     \* rounds declared for the tool's loop, 0 where none is
  MaxToolRounds,  \* bound: rounds of an undeclared loop
  MaxCuts, MaxReruns  \* bounds: crashes and continues, fresh reruns

VARIABLES
  setup,     \* the flow's gate, whether this is a subtask's unit, auto-merge
  spot,      \* the node the run is at
  during,    \* "at" its start, "running" its checks, "ran" them all
  state,     \* "running", "manual", "done", "merged"
  changed,   \* areas changed since the base branch
  todo, runs,      \* the checks left to run, then to record; the results of all
  touched,         \* how the tree differs from what it was before them
  logs,      \* the check logs of the task's directory
  rows,      \* check_runs: its newest failed row, and whether one was skipped
  evidence,  \* NodeInputs.checks_path
  same,      \* ToolNodeRunner._identical_failures
  rounds,    \* fix rounds charged
  told,      \* history: what the tool returned since the process began
  dirty,     \* history: what checks of this process changed since an agent last edited
  ran,       \* history: number of runs of the checks node, what the last was
  cuts, restored, attempt

gateVars == <<setup, spot, during, state, changed, todo, runs, touched, logs, rows, evidence,
              same, rounds, told, dirty, ran, cuts, restored, attempt>>

NoEvidence == [of |-> "none", run |-> 0, result |-> "none"]
NoStreak == [of |-> "none", count |-> 0]
NoRun == [run |-> 0, how |-> "none"]
REPEAT_LIMIT == 2

ASSUME GateAssumption ==
  /\ \A i \in DOMAIN CheckSets : CheckSets[i].areas \subseteq Areas /\ CheckSets[i].checks \in Nat \ {0}
  /\ Rewrites \subseteq {"tracked", "fresh"}
  /\ FixBudget \in Nat /\ ToolBudget \in Nat /\ MaxToolRounds \in Nat

NoRow == [result |-> "none", log |-> 0, run |-> 0, attempt |-> 0]

-----------------------------------------------------------------------------
(* The command profile. *)

\* The sets that cover a changed area; a set without areas covers any change.
select_check_sets(paths) ==
  IF paths = {} THEN <<>>
  ELSE SelectSeq(CheckSets, LAMBDA s : s.areas = {} \/ s.areas \cap paths # {})

\* The checks of the chosen sets, each with its set's leave to be absent.
Plan(sets) == FlattenSeq([i \in DOMAIN sets |->
                [j \in 1..sets[i].checks |-> [skip |-> sets[i].skip]]])

\* What one check may come to: its own verdict, a timeout being a failure, or no
\* toolchain.
CheckResult(check) == {"pass", "fail", "launch"}
                      \cup (IF check.skip THEN {"skipped"} ELSE {})

Results(rs) == {rs[i].result : i \in DOMAIN rs}

any_launch_failed(rs) == "launch" \in Results(rs)
any_quality_failed(rs) == "fail" \in Results(rs)
nothing_ran(rs) == rs # <<>> /\ Results(rs) = {"skipped"}

\* The gate of a whole run: incomplete before failed before passed.
_aggregate(rs) ==
  IF any_launch_failed(rs) \/ nothing_ran(rs) THEN "incomplete"
  ELSE IF any_quality_failed(rs) THEN "fail" ELSE "pass"

\* The first check of the run that ran and did badly.
first_failure_log(rs) == SelectInSeq(rs, LAMBDA r : r.result = "fail")

\* Whether git status or git diff HEAD differ from what they were.
_mutated_working_tree == "tracked" \in touched

-----------------------------------------------------------------------------
(* The other checkers. *)

\* One entry of a manifest against the file it names.
_classify(e) ==
  IF ~e.mapping \/ ~e.path THEN "uncheckable"
  ELSE IF ~e.inside \/ ~e.file THEN "broken"
  ELSE IF ~e.readable THEN "uncheckable"
  ELSE IF e.line = "out" THEN "broken"
  ELSE IF e.snippet = "none" THEN "uncheckable"
  ELSE IF e.snippet = "nowhere" THEN "broken"
  ELSE IF e.line = "none" \/ e.snippet = "there" THEN "verified" ELSE "weak"

\* A manifest that is not there, or is no list, holds nothing broken.
validate_citations(m) ==
  m.status # "ok" \/ \A e \in m.sources : _classify(e) # "broken"


-----------------------------------------------------------------------------
GateInit ==
  /\ setup \in [gate : {"command", "citation", "dependency_scan", "tool"}, unit : BOOLEAN,
               auto_merge : BOOLEAN]
  /\ setup.unit => ~setup.auto_merge /\ setup.gate # "tool"
  /\ spot = "implementing" /\ during = "at" /\ state = "running" /\ changed = {}
  /\ todo = <<>> /\ runs = <<>> /\ touched = {}
  /\ logs = <<>> /\ rows = [failed |-> NoRow, skipped |-> FALSE] /\ evidence = NoEvidence
  /\ same = NoStreak /\ rounds = [checks |-> 0, tool |-> 0] /\ told = <<>>
  /\ dirty = {} /\ ran = NoRun
  /\ cuts = 0 /\ restored = FALSE /\ attempt = 1

At(s) == state = "running" /\ spot = s /\ during = "at"

\* A node_runs row is opened before anything runs.
Opened == ran.run + 1

\* Mutant: one round too many.
Charge_OneMore(loop, budget, to) ==
  \/ /\ rounds[loop] <= budget
     /\ rounds' = [rounds EXCEPT ![loop] = @ + 1] /\ spot' = to /\ UNCHANGED state
  \/ /\ rounds[loop] > budget
     /\ state' = "manual" /\ UNCHANGED <<rounds, spot>>

\* The fix edge out of a gate: one more round if its budget has one, else a stop.
Charge(loop, budget, to) ==
  \/ /\ rounds[loop] < budget
     /\ rounds' = [rounds EXCEPT ![loop] = @ + 1] /\ spot' = to /\ UNCHANGED state
  \/ /\ rounds[loop] >= budget
     /\ state' = "manual" /\ UNCHANGED <<rounds, spot>>

Pass(to) == spot' = to /\ UNCHANGED <<rounds, state>>
Manual == state' = "manual" /\ UNCHANGED <<rounds, spot>>

\* No set covers the change: the gate has nothing to run and passes.
NothingToCheck ==
  /\ At("checks") /\ setup.gate = "command"
  /\ select_check_sets(changed) = <<>>
  /\ ran' = [run |-> Opened, how |-> "vacuous"]
  /\ restored' = FALSE
  /\ Pass("review")
  /\ UNCHANGED <<setup, during, changed, todo, runs, touched, logs, rows, evidence, same, told,
                 dirty, cuts, attempt>>

\* The tree is captured and the sets are chosen.
BeginChecks ==
  /\ At("checks") /\ setup.gate = "command"
  /\ select_check_sets(changed) # <<>>
  /\ todo' = Plan(select_check_sets(changed)) /\ runs' = <<>> /\ touched' = {}
  /\ during' = "running" /\ ran' = [run |-> Opened, how |-> "open"]
  /\ UNCHANGED <<setup, spot, state, changed, logs, rows, evidence, same, rounds, told, dirty,
                 cuts, restored, attempt>>

\* Mutant: the tree is captured again before every check.
RunCheck_Recaptures ==
  /\ during = "running"
  /\ \E r \in CheckResult(Head(todo)), d \in {{}} \cup {{x} : x \in Rewrites} :
       /\ r \in {"launch", "skipped"} => d = {}
       /\ logs' = Append(logs, [run |-> ran.run, result |-> r])
       /\ runs' = Append(runs, [result |-> r, log |-> Len(logs) + 1])
       /\ touched' = d /\ dirty' = dirty \cup d
  /\ IF Len(todo) = 1 THEN during' = "ran" /\ todo' = runs'
     ELSE UNCHANGED during /\ todo' = Tail(todo)
  /\ UNCHANGED <<setup, spot, state, changed, rows, evidence, same, rounds, told, ran, cuts,
                 restored, attempt>>

\* The next check runs to its end, its log in the next free file.
RunCheck ==
  /\ during = "running"
  /\ \E r \in CheckResult(Head(todo)), d \in {{}} \cup {{x} : x \in Rewrites} :
       /\ r \in {"launch", "skipped"} => d = {}
       /\ logs' = Append(logs, [run |-> ran.run, result |-> r])
       /\ runs' = Append(runs, [result |-> r, log |-> Len(logs) + 1])
       /\ touched' = touched \cup d /\ dirty' = dirty \cup d
  /\ IF Len(todo) = 1 THEN during' = "ran" /\ todo' = runs'
     ELSE UNCHANGED during /\ todo' = Tail(todo)
  /\ UNCHANGED <<setup, spot, state, changed, rows, evidence, same, rounds, told, ran, cuts,
                 restored, attempt>>

\* A check_runs row: its own log file, or the report of a checker (log 0).
CheckRunRow(r, log, run) == [result |-> r, log |-> log, run |-> run, attempt |-> attempt]

\* The rows after one more: neither passed nor skipped is failed.
record_check_run(row) ==
  [failed |-> IF row.result \in {"pass", "skipped"} THEN rows.failed ELSE row,
   skipped |-> rows.skipped \/ row.result = "skipped"]

\* Mutant: only the checks that ran are recorded.
Record_NoSkipped ==
  /\ during = "ran" /\ todo # <<>>
  /\ rows' = IF Head(todo).result = "skipped" THEN rows
             ELSE record_check_run(CheckRunRow(Head(todo).result, Head(todo).log, ran.run))
  /\ todo' = Tail(todo)
  /\ UNCHANGED <<setup, spot, during, state, changed, runs, touched, logs, evidence, same,
                 rounds, told, dirty, ran, cuts, restored, attempt>>

\* The rows follow, once every check has run, each in a transaction of its own.
Record ==
  /\ during = "ran" /\ todo # <<>>
  /\ rows' = record_check_run(CheckRunRow(Head(todo).result, Head(todo).log, ran.run))
  /\ todo' = Tail(todo)
  /\ UNCHANGED <<setup, spot, during, state, changed, runs, touched, logs, evidence, same,
                 rounds, told, dirty, ran, cuts, restored, attempt>>

Log(n) == [of |-> "log", run |-> logs[n].run, result |-> logs[n].result]
Report(run) == [of |-> "report", run |-> run, result |-> "none"]

\* Mutant: the log of the last check is handed on.
_publish_first_failure_log_Last == evidence' = Log(Last(runs).log)

_publish_first_failure_log == evidence' = Log(runs[first_failure_log(runs)].log)

\* Mutant: a pass publishes nothing, so the last failure stays what it was.
_publish_command_report_Not == UNCHANGED evidence

_publish_command_report == evidence' = Report(ran.run)

\* What the run of the checks comes to, and the edge the engine takes for it.
ConcludeChecks ==
  /\ during = "ran" /\ todo = <<>>
  /\ during' = "at" /\ runs' = <<>> /\ touched' = {}
  /\ ran' = [ran EXCEPT !.how = IF "skipped" \in Results(runs) THEN "partial" ELSE "checked"]
  /\ restored' = FALSE
  /\ \/ _aggregate(runs) = "incomplete" /\ Manual /\ UNCHANGED evidence
     \/ /\ _aggregate(runs) = "fail"
        /\ _publish_first_failure_log
        /\ Charge("checks", FixBudget, "fixing")
     \/ /\ _aggregate(runs) = "pass" /\ _mutated_working_tree
        /\ Manual /\ UNCHANGED evidence
     \/ /\ _aggregate(runs) = "pass" /\ ~_mutated_working_tree
        /\ _publish_command_report
        /\ Pass("review")
  /\ UNCHANGED <<setup, changed, todo, logs, rows, same, told, dirty, cuts, attempt>>

\* The citations are compared with the tree, and the report published either way.
CheckCitations ==
  /\ At("checks") /\ setup.gate = "citation"
  /\ ran' = [run |-> Opened, how |-> "checked"] /\ evidence' = Report(Opened)
  /\ restored' = FALSE
  /\ \E m \in Manifests :
       LET good == validate_citations(m) IN
       /\ rows' = record_check_run(CheckRunRow(IF good THEN "pass" ELSE "broken", 0, Opened))
       /\ IF good THEN Pass("review") ELSE Charge("checks", FixBudget, "fixing")
  /\ UNCHANGED <<setup, during, changed, todo, runs, touched, logs, same, told, dirty, cuts,
                 attempt>>

\* The scanners leave evidence and always pass; no node is told where it is.
ScanDependencies ==
  /\ At("checks") /\ setup.gate = "dependency_scan"
  /\ ran' = [run |-> Opened, how |-> "scanned"]
  /\ restored' = FALSE
  /\ \E r \in {"pass", "no_scan"} : rows' = record_check_run(CheckRunRow(r, 0, Opened))
  /\ Pass("review")
  /\ UNCHANGED <<setup, during, changed, todo, runs, touched, logs, evidence, same, told, dirty,
                 cuts, attempt>>

\* An agent edits, and a fixer may take every edit back; the tree is its own again.
Edit ==
  /\ At("implementing") \/ At("fixing") \/ At("toolfix")
  /\ changed' \in SUBSET Areas /\ dirty' = {}
  /\ spot' = IF setup.gate = "tool" THEN "tool" ELSE "checks"
  /\ UNCHANGED <<setup, during, state, todo, runs, touched, logs, rows, evidence, same, rounds,
                 told, ran, cuts, restored, attempt>>

\* A reviewer reads the evidence and lets the run go on.
Review ==
  /\ At("review")
  /\ spot' = "end"
  /\ UNCHANGED <<setup, during, state, changed, todo, runs, touched, logs, rows, evidence, same,
                 rounds, told, dirty, ran, cuts, restored, attempt>>

-----------------------------------------------------------------------------
(* The tool node. *)

\* Exit code and standard output read as an outcome, "invalid" where they cannot be.
parse_tool_output(r) ==
  IF r.outcome # "absent" THEN r.outcome ELSE IF r.exit = 0 THEN "pass" ELSE "fail"

Crashed(r) == r.exit # 0 /\ r.stdout = "empty" /\ r.stderr

Blind(r) == parse_tool_output(r) = "fail" /\ ~r.findings

\* What the failure is told apart by: the exit code and the output.
fingerprint(r) == <<r.exit, r.stdout>>

\* Mutant: a result in between does not end the streak.
NextStreak_Kept(r) ==
  IF ~Blind(r) THEN same
  ELSE [of |-> fingerprint(r),
        count |-> IF same.count > 0 /\ same.of = fingerprint(r) THEN same.count + 1 ELSE 1]

NextStreak(r) ==
  IF ~Blind(r) THEN NoStreak
  ELSE [of |-> fingerprint(r),
        count |-> IF same.count > 0 /\ same.of = fingerprint(r) THEN same.count + 1 ELSE 1]

\* How many of the same may come before the loop is stopped.
repeat_limit(r) ==
  IF r.data /\ ToolBudget > REPEAT_LIMIT THEN ToolBudget ELSE REPEAT_LIMIT

_repeated_unfixable_failure(r) == Blind(r) /\ NextStreak(r).count >= repeat_limit(r)

\* The operator's program, run to its end or not.
RunTool ==
  /\ At("tool")
  /\ \E r \in ToolResults :
       \/ /\ \/ r.launch # "ok" \/ Crashed(r)
             \/ parse_tool_output(r) = "invalid"
          /\ Manual /\ UNCHANGED <<same, told>>
       \/ /\ r.launch = "ok" /\ ~Crashed(r) /\ parse_tool_output(r) # "invalid"
          /\ same' = NextStreak(r) /\ told' = Append(told, r)
          /\ \/ _repeated_unfixable_failure(r) /\ Manual
             \/ /\ ~_repeated_unfixable_failure(r) /\ parse_tool_output(r) = "fail"
                /\ Charge("tool", IF ToolBudget > 0 THEN ToolBudget ELSE MaxToolRounds, "toolfix")
             \/ parse_tool_output(r) \in {"pass", "route"} /\ Pass("review")
  /\ UNCHANGED <<setup, during, changed, todo, runs, touched, logs, rows, evidence, dirty, ran,
                 cuts, restored, attempt>>

-----------------------------------------------------------------------------
(* The end of the run, and what brings it back. *)

task_had_skipped_checks == rows.skipped

\* Everything is published; the merge is held back where a check was skipped.
FinishRun ==
  /\ At("end")
  /\ state' = IF setup.auto_merge /\ ~task_had_skipped_checks THEN "merged" ELSE "done"
  /\ UNCHANGED <<setup, spot, during, changed, todo, runs, touched, logs, rows, evidence, same,
                 rounds, told, dirty, ran, cuts, restored, attempt>>

latest_failed_check_log == rows.failed

Exists(r) == IF r.log > 0 THEN r.log \in DOMAIN logs ELSE r.attempt = attempt

\* The task's own newest failure; a unit's rows carry its order and are not found.
_restore_engine_inputs ==
  IF setup.unit \/ latest_failed_check_log = NoRow \/ ~Exists(latest_failed_check_log) THEN NoEvidence
  ELSE IF latest_failed_check_log.log > 0 THEN Log(latest_failed_check_log.log)
  ELSE Report(latest_failed_check_log.run)

\* The process is gone, or the operator continues a stopped task: a new process
\* builds the runners anew and takes up the node it was at; a unit starts over.
TakeUp ==
  /\ state \in {"running", "manual"} /\ cuts < MaxCuts
  /\ state' = "running" /\ cuts' = cuts + 1 /\ restored' = TRUE
  /\ spot' = IF setup.unit /\ spot \in {"checks", "fixing", "review"} THEN "implementing"
             ELSE spot
  /\ dirty' = {}
  /\ during' = "at" /\ todo' = <<>> /\ runs' = <<>> /\ touched' = {}
  /\ evidence' = _restore_engine_inputs
  /\ same' = NoStreak /\ told' = <<>>
  /\ UNCHANGED <<setup, changed, logs, rows, rounds, ran, attempt>>

\* A fresh rerun: the task's directory is archived, its check_runs rows stay.
Rerun ==
  /\ state = "manual" /\ attempt <= MaxReruns
  /\ attempt' = attempt + 1 /\ state' = "running"
  /\ spot' = "implementing" /\ changed' = {}
  /\ logs' = <<>> /\ evidence' = NoEvidence
  /\ rounds' = [checks |-> 0, tool |-> 0] /\ same' = NoStreak /\ told' = <<>>
  /\ dirty' = {} /\ restored' = FALSE
  /\ UNCHANGED <<setup, during, todo, runs, touched, rows, ran, cuts>>

GateNext ==
  \/ NothingToCheck \/ BeginChecks \/ RunCheck \/ Record \/ ConcludeChecks
  \/ CheckCitations \/ ScanDependencies \/ Edit \/ Review
  \/ RunTool \/ FinishRun \/ TakeUp \/ Rerun

GateSpec == GateInit /\ [][GateNext]_gateVars

-----------------------------------------------------------------------------
(* Properties. *)

\* Every variable of the gates keeps its type, the fix rounds within their
\* budgets and the logs in numbered files among it.
GateTypeOK ==
  /\ spot \in {"implementing", "checks", "fixing", "review", "tool", "toolfix", "end"}
  /\ during \in {"at", "running", "ran"} /\ state \in {"running", "manual", "done", "merged"}
  /\ changed \subseteq Areas /\ touched \subseteq {"tracked", "fresh"}
  /\ dirty \subseteq {"tracked", "fresh"}
  /\ \A i \in DOMAIN runs : runs[i].log \in DOMAIN logs
  /\ rows.failed.attempt <= attempt /\ rows.failed.run <= ran.run
  /\ evidence.of \in {"none", "log", "report"} /\ evidence.run <= ran.run
  /\ same.count <= Len(told)
  /\ rounds.checks <= FixBudget
  /\ rounds.tool <= IF ToolBudget > 0 THEN ToolBudget ELSE MaxToolRounds

\* What the checks wrote to tracked files or created never goes on under a pass
\* while the process lives that ran them: it stops the run or an agent takes it
\* over. A new process compares with the tree as it finds it, so what was written
\* before it is not told apart (checks.py _run_command_profile, _mutated_working_tree).
GreenIsClean ==
  [][spot = "checks" /\ spot' = "review" => "tracked" \notin dirty]_gateVars

\* The fixer reads a failure of the very run that sent it, of a check that ran,
\* through crashes, continues and fresh reruns (checks.py
\* _publish_first_failure_log, orchestrator.py _restore_engine_inputs).
FixerReadsThisFailure ==
  spot = "fixing" =>
    /\ evidence.run = ran.run
    /\ setup.gate = "command" => evidence.of = "log" /\ evidence.result = "fail"
    /\ \A i \in DOMAIN logs : logs[i].run = ran.run => logs[i].result # "launch"

\* Who comes after a pass reads the report of that pass, except after a run that
\* had nothing to publish or in a process that took up the node from the record
\* (checks.py _publish_command_report, _publish_citation_report).
EvidenceCurrent ==
  spot = "review" /\ setup.gate # "tool" =>
    restored \/ ran.how \in {"vacuous", "scanned"} \/ evidence = Report(ran.run)

\* Nothing is merged by itself after a run of the gate that skipped a check,
\* whatever failed, was continued or was run again in between (orchestrator.py
\* _finish_engine_run, state_store.py task_had_skipped_checks).
SkippedNotMerged == state = "merged" => ran.how # "partial"

SameFailure(ts, n) ==
  /\ Len(ts) >= n
  /\ \A i \in (Len(ts) - n + 1)..Len(ts) :
       Blind(ts[i]) /\ fingerprint(ts[i]) = fingerprint(Last(ts))

\* A tool's loop is stopped short of its budget exactly when the same failure
\* nobody can act on came as often in a row as the contract says: no round is
\* given away to it, and none withheld for another failure (tool.py
\* _repeated_unfixable_failure).
StallsExactly ==
  [][Len(told') > Len(told) =>
       LET n == repeat_limit(Last(told')) IN
       /\ spot' = "toolfix" => ~SameFailure(told', n)
       /\ state' = "manual" /\ rounds.tool < ToolBudget => SameFailure(told', n)]_gateVars

\* A gate passes what its programs left as it was, sends a failure on with its own
\* evidence, stops a loop when it should, and none of it is lost by a crash, a
\* continue or a fresh rerun.
GateSafe ==
  /\ [](GateTypeOK /\ FixerReadsThisFailure /\ EvidenceCurrent /\ SkippedNotMerged)
  /\ GreenIsClean /\ StallsExactly
=============================================================================
