------------------------------ MODULE CloseOut ------------------------------
(***************************************************************************)
(* The supervisor beside a run of Subtasks and the close-out after it: the   *)
(* observation of a step, the finalize turn, summary.json and summary.md, the *)
(* deterministic report that stands in for a missing synthesis, the           *)
(* follow-ups file, publication, and the terminal that explains itself        *)
(* (core/supervisor.py, core/summary_report.py, _engine_finalize,            *)
(* _finalize_task_artifacts and _explain_terminal of core/orchestrator.py);   *)
(* with the operator's `rerun`, fresh or --continue. The process may die       *)
(* between any two writes.                                                  *)
(***************************************************************************)
EXTENDS Subtasks

CONSTANTS
  Debts,             \* follow-ups the supervisor itself may report
  MaxReruns

VARIABLES
  clean_summary,     \* what the finalize turn returned: "none" or "synthesis"
  follow_ups,        \* p.follow_ups
  degraded,
  summary_json,      \* "absent", "empty", "full"
  summary_md,        \* [by, degraded, items], or NoBody
  file,              \* the task's sections of follow-ups.md
  body,              \* the body the publish node committed
  final,             \* why the report is being written: "done" or "manual"
  reruns

turnVars == <<clean_summary, follow_ups, degraded, final>>
summaryVars == <<summary_json, summary_md, file, body>>
closeVars == <<turnVars, summaryVars, reruns>>
allVars == <<subVars, closeVars>>

NoBody == [by |-> "none", degraded |-> FALSE, items |-> {}]

ASSUME CloseOutAssumption ==
  Debts \cap Findings = {} /\ MaxReruns \in Nat

ForgetTurn ==
  clean_summary' = "none" /\ follow_ups' = {} /\ degraded' = FALSE /\ final' = "done"

CloseInit ==
  /\ SubInit
  /\ clean_summary = "none" /\ follow_ups = {} /\ degraded = FALSE /\ final = "done"
  /\ summary_json = "absent" /\ summary_md = NoBody /\ file = <<>> /\ body = NoBody
  /\ reruns = 0

Fanning == SubStep /\ UNCHANGED closeVars

\* Only the program counter moves in Subtasks.
Stay == UNCHANGED <<splitVars, gitVars, memVars, ckpt, evals, unit, fix, crashes, reruns>>

-----------------------------------------------------------------------------
(* The supervisor.                                                          *)

\* Mutant: only what an evaluator accepts is shown.
_observes_step_Accepts(fell_back) == Verdict = "accept" /\ fell_back

_observes_step(fell_back) == should_observe(evals[Len(evals)], fell_back)

\* The row of an observation is recorded even when its turn failed, and routes nothing.
observe == evals' = [evals EXCEPT ![Len(evals)].seen = TRUE]

\* A step the cadence selects is shown to the supervisor.
_engine_post_node(fell_back) ==
  /\ phase = "observe" /\ To("route")
  /\ IF _observes_step(fell_back) THEN observe ELSE UNCHANGED evals
  /\ UNCHANGED <<splitVars, gitVars, memVars, ckpt, unit, fix, crashes, closeVars>>

\* What the finalize turn comes back with: nothing (no provider, no structured output),
\* or an answer, whose prose may be missing or below the floor.
_run_result == {"failed", "collapsed", "usable"}

\* An answer reports its debts whatever became of its prose.
_finalize_turn(answer, debts) ==
  /\ answer = "failed" => debts = {}
  /\ clean_summary' = IF answer = "usable" THEN "synthesis" ELSE "none"
  /\ follow_ups' = merge_follow_ups(debts, evaluator_finding_follow_ups(evals))

finalize ==
  /\ phase = "finalize" /\ To("json")
  /\ \E answer \in _run_result, debts \in SUBSET Debts : _finalize_turn(answer, debts)
  /\ UNCHANGED <<degraded, final, summaryVars>> /\ Stay

\* Mutant: a turn without a synthesis writes its empty summary all the same.
_write_summary_json_Clobbers ==
  /\ phase = "json" /\ To("md")
  /\ summary_json' = IF clean_summary = "synthesis" THEN "full" ELSE "empty"
  /\ UNCHANGED <<turnVars, summary_md, file, body>> /\ Stay

_write_summary_json ==
  /\ phase = "json" /\ To("md")
  /\ summary_json' = IF clean_summary = "synthesis" THEN "full"
                     ELSE IF summary_json = "full" THEN "full" ELSE "empty"
  /\ UNCHANGED <<turnVars, summary_md, file, body>> /\ Stay

\* Mutant: a summary on disk or not, the run is not degraded.
_engine_finalize_NeverDegraded ==
  /\ phase = "md" /\ To("report") /\ final' = "done"
  /\ summary_md' = IF clean_summary = "synthesis"
                   THEN [by |-> "synthesis", degraded |-> FALSE, items |-> follow_ups]
                   ELSE summary_md
  /\ degraded' = FALSE
  /\ UNCHANGED <<clean_summary, follow_ups, summary_json, file, body>> /\ Stay

\* A synthesis becomes summary.md; the run is degraded if there is none to publish.
_engine_finalize ==
  /\ phase = "md" /\ To("report") /\ final' = "done"
  /\ summary_md' = IF clean_summary = "synthesis"
                   THEN [by |-> "synthesis", degraded |-> FALSE, items |-> follow_ups]
                   ELSE summary_md
  /\ degraded' = (summary_md' = NoBody)
  /\ UNCHANGED <<clean_summary, follow_ups, summary_json, file, body>> /\ Stay

-----------------------------------------------------------------------------
(* The artifacts of a finished task, on the way to a pull request or to a   *)
(* terminal.                                                                *)

\* A summary that exists stands. Without one the report is written: json, then md.
ReportJson ==
  /\ phase = "report" /\ summary_md = NoBody /\ To("report_md")
  /\ follow_ups' = merge_follow_ups(follow_ups, evaluator_finding_follow_ups(evals))
  /\ summary_json' = "empty"
  /\ UNCHANGED <<clean_summary, degraded, final, summary_md, file, body>> /\ Stay

write_summary_report ==
  /\ phase = "report_md" /\ To("file")
  /\ summary_md' = [by |-> "report", degraded |-> degraded, items |-> follow_ups]
  /\ UNCHANGED <<turnVars, summary_json, file, body>> /\ Stay

SummaryStands ==
  /\ phase = "report" /\ summary_md # NoBody /\ To("file")
  /\ UNCHANGED <<turnVars, summaryVars>> /\ Stay

AfterFile == IF final = "done" THEN "publish" ELSE "stopped"

\* Mutant: a task has one section, that of its first finish.
_append_follow_ups_file_Once ==
  /\ phase = "file" /\ To(AfterFile)
  /\ file' = IF follow_ups = {} \/ file # <<>> THEN file ELSE Append(file, follow_ups)
  /\ UNCHANGED <<turnVars, summary_json, summary_md, body>> /\ Stay

\* Every finish appends a section; nothing rewrites an earlier one.
_append_follow_ups_file ==
  /\ phase = "file" /\ To(AfterFile)
  /\ file' = IF follow_ups = {} THEN file ELSE Append(file, follow_ups)
  /\ UNCHANGED <<turnVars, summary_json, summary_md, body>> /\ Stay

\* The body is committed with the rest of the tree and the pull request opened.
PublishDone ==
  /\ phase = "publish" /\ To("published") /\ body' = summary_md
  /\ UNCHANGED <<turnVars, summary_json, summary_md, file>> /\ Stay

\* Publication failed: the summary that exists explains the terminal.
PublishFailed ==
  /\ phase = "publish" /\ To("stopped")
  /\ UNCHANGED <<turnVars, summaryVars>> /\ Stay

\* A park on a spent budget is explained by the report if no summary exists.
_explain_terminal ==
  /\ phase = "stuck" /\ final' = "manual" /\ degraded' = FALSE
  /\ To(IF summary_md = NoBody THEN "report" ELSE "stopped")
  /\ UNCHANGED <<clean_summary, follow_ups, summaryVars>> /\ Stay

-----------------------------------------------------------------------------
Die ==
  /\ Working /\ crashes < MaxCrashes
  /\ crashes' = crashes + 1 /\ To("down") /\ LoseMemory /\ ForgetTurn
  /\ UNCHANGED <<task, rows, index, op, taskFile, commits, tree, ckpt, evals, summaryVars,
                 reruns>>

\* The operator discards what a stopped task left uncommitted.
ClearTree ==
  /\ phase = "stopped" /\ tree # {} /\ tree' = {}
  /\ UNCHANGED <<splitVars, commits, sha, memVars, ckpt, evals, phase, unit, fix, crashes,
                 closeVars>>

\* A terminal task may be rerun.
cmd_rerun == phase = "stopped" /\ reruns < MaxReruns /\ reruns' = reruns + 1

\* Continuing needs a recorded node; a fresh start, which would destroy them, no
\* uncommitted changes.
plan_rerun(continue) == IF continue THEN ckpt.node # "none" ELSE tree = {}

\* A spent loop ahead is continued only with a reset of its budget.
_resolve_reset_fix_budget(reset) ==
  ckpt.node # "publish" /\ ckpt.fix >= MaxFix => reset

\* The reset reaches the loop's counter and, through a row, the evaluator's own count.
_apply_continue_controls(reset) ==
  IF reset THEN ckpt' = [ckpt EXCEPT !.fix = 0] /\ evals' = Append(evals, ResetRow)
  ELSE UNCHANGED <<ckpt, evals>>

\* rerun --continue.
RerunContinue(reset) ==
  /\ cmd_rerun /\ plan_rerun(TRUE) /\ _resolve_reset_fix_budget(reset)
  /\ _apply_continue_controls(reset)
  /\ To("down") /\ LoseMemory /\ ForgetTurn
  /\ UNCHANGED <<task, rows, index, op, taskFile, commits, tree, summaryVars, crashes>>

\* Mutant: the rows of a split outlive a fresh rerun.
reset_task_for_rerun_KeepsRows ==
  /\ task' = [accepted |-> FALSE, count |-> 0, active |-> 0, completed |-> 0]
  /\ op' = [o \in Orders |-> 0] /\ UNCHANGED rows
  /\ ckpt' = [node |-> "none", fix |-> 0]
  /\ evals' = [i \in DOMAIN evals |-> [evals[i] EXCEPT !.live = FALSE]]

\* The tables of a fresh rerun: the evaluations table is immutable, its rows stay when
\* their node runs are deleted.
reset_task_for_rerun ==
  /\ task' = [accepted |-> FALSE, count |-> 0, active |-> 0, completed |-> 0]
  /\ rows' = [o \in Orders |-> NoRow] /\ op' = [o \in Orders |-> 0]
  /\ ckpt' = [node |-> "none", fix |-> 0]
  /\ evals' = [i \in DOMAIN evals |-> [evals[i] EXCEPT !.live = FALSE]]

\* A fresh rerun archives the task's artifacts too and starts from the base. Only the
\* follow-ups file and the evaluations are left.
RerunFresh ==
  /\ cmd_rerun /\ plan_rerun(FALSE)
  /\ reset_task_for_rerun /\ ForgetTurn
  /\ index' = [o \in Orders |-> NoRow] /\ commits' = <<{}>> /\ UNCHANGED tree /\ sha' = 0
  /\ unit' = Whole /\ plan' = Single /\ fix' = 0 /\ committed' = {} /\ handed' = {}
  /\ operator' = (authored # NoPlan) /\ todo' = authored
  /\ To(IF authored # NoPlan THEN "persist" ELSE "begin")
  /\ summary_json' = "absent" /\ summary_md' = NoBody /\ body' = NoBody
  /\ UNCHANGED <<taskFile, file, crashes>>

CloseNext ==
  \/ Fanning
  \/ (\E f \in BOOLEAN : _engine_post_node(f))
  \/ finalize \/ _write_summary_json \/ _engine_finalize \/ ReportJson \/ write_summary_report
  \/ SummaryStands \/ _append_follow_ups_file \/ PublishDone \/ PublishFailed
  \/ _explain_terminal
  \/ Die \/ ClearTree \/ (\E r \in BOOLEAN : RerunContinue(r)) \/ RerunFresh

CloseSpec == CloseInit /\ [][CloseNext]_allVars
-----------------------------------------------------------------------------
(* Properties.                                                              *)

Units == {Whole} \cup Orders
Table == [Orders -> [plan : DOMAIN Plans \cup {NoPlan}, sha : Nat]]
Items == Findings \cup Debts
Bodies == [by : {"none", "synthesis", "report"}, degraded : BOOLEAN, items : SUBSET Items]
Work == [unit : Units, run : 0..MaxCrashes]
EvaluationRows ==
  [unit : Units \cup {NoUnit}, verdict : {"accept", "rework", "reset"},
   findings : {<<>>} \cup UNION {Reports[u] : u \in Units}, seen : BOOLEAN, live : BOOLEAN]

TableTypes ==
  /\ task \in [accepted : BOOLEAN, count : Units, active : Units, completed : Units]
  /\ rows \in Table /\ index \in Table /\ op \in [Orders -> Nat]
  /\ ckpt \in [node : {"none", "planning", "implement", "review", "publish"}, fix : 0..MaxFix]
  /\ evals \in Seq(EvaluationRows)
  /\ authored \in Authored \cup {NoPlan} /\ disabled \in BOOLEAN

BranchTypes == commits \in Seq(SUBSET Work) /\ tree \subseteq Work /\ sha \in Nat

RunTypes ==
  /\ unit \in Units /\ plan \in [accepted : BOOLEAN, units : SUBSET Orders]
  /\ operator \in BOOLEAN /\ todo \in DOMAIN Plans \cup {NoPlan}
  /\ fix \in 0..MaxFix /\ committed \subseteq Orders /\ handed \subseteq Orders
  /\ crashes \in 0..MaxCrashes /\ reruns \in 0..MaxReruns

TurnTypes ==
  /\ clean_summary \in {"none", "synthesis"} /\ follow_ups \subseteq Items
  /\ degraded \in BOOLEAN /\ final \in {"done", "manual"}
  /\ summary_json \in {"absent", "empty", "full"} /\ summary_md \in Bodies /\ body \in Bodies
  /\ file \in Seq(SUBSET Items)

\* Every variable stays in its range.
CloseTypeOK == TableTypes /\ BranchTypes /\ RunTypes /\ TurnTypes

InRegion == phase \in {"enter", "implement", "review", "observe", "route", "commit", "op",
                    "index", "row"}

\* A unit works on a branch where every lower unit of its plan is committed, none of
\* its own is, and it was told of each of them.
PredecessorsLanded ==
  InRegion /\ unit # Whole =>
    /\ unit \notin CommittedRows
    /\ \A v \in plan.units : v < unit => v \in CommittedRows
    /\ handed = {v \in plan.units : v < unit}

\* A commit made earlier on the branch, by process runs before the work's own.
Late(w, s) ==
  op[w.unit] \in 1..(s - 1) /\ \A x \in commits[op[w.unit]] : x.run < w.run

\* A committed unit's commit holds its own work. Work of another unit is in it only if
\* it is that unit's commit too (this one changed nothing), or that unit has an earlier
\* commit and a process started after it ran the unit again: a crash had hidden it.
WorkInOwnCommit ==
  \A u \in CommittedRows : \A w \in commits[rows[u].sha] :
    w.unit = u \/ op[w.unit] = rows[u].sha \/ Late(w, rows[u].sha)

\* Only what its last review accepted is committed as a unit.
CommittedAccepted ==
  \A u \in CommittedRows : \E i \in FinalRows(evals) :
    evals[i].unit = u /\ evals[i].verdict = "accept"

\* The index names the sha of every committed row, and so lists every such unit; the
\* sha is on the branch.
IndexAgrees ==
  \A u \in CommittedRows : index[u].sha = rows[u].sha /\ rows[u].sha <= Len(commits)

Reworks(us) ==
  Cardinality({i \in DOMAIN evals : evals[i].unit \in us /\ InForce(evals, i)})

\* A unit is parked for its own rework rounds. Only a process started after a crash may
\* charge it those of the units before it.
BudgetOwn ==
  phase = "stuck" =>
    \/ Reworks({unit}) > MaxFix
    \/ crashes > 0 /\ Reworks(0..unit) > MaxFix

\* A split the operator wrote is the one that runs, unless the run was resumed while
\* still in its planning phase.
OperatorSplitStands ==
  authored # NoPlan /\ InRegion =>
    \/ plan.units = 1..Len(Plans[authored]) /\ \A o \in plan.units : rows[o].plan = authored
    \/ crashes > 0

\* What is published is every unit of the accepted split, unless a crash left the split
\* without a single row.
PublishedWhole ==
  phase = "published" /\ task.accepted =>
    \/ CommittedRows = 1..task.count
    \/ crashes > 0 /\ disabled /\ \A o \in Orders : rows[o] = NoRow

\* A committed unit keeps its commit for as long as the task is not started afresh.
CommittedStands ==
  [][\A u \in CommittedRows : rows'[u] = rows[u] \/ reruns' > reruns]_allVars

SelectsRework ==
  \/ resolve_mode = "all"
  \/ resolve_mode = "selected" /\ Included
  \/ resolve_mode = "events" /\ "rework" \in Triggers

\* Under a cadence that selects rework, each step that sent its unit back was shown to
\* the supervisor, but for one step a crash.
DeviationsSeen ==
  SelectsRework =>
    Cardinality({i \in DOMAIN evals :
                   /\ evals[i].verdict = "rework" \/ rework_exhausted(evals[i])
                   /\ ~evals[i].seen /\ ~(i = Len(evals) /\ phase = "observe")}) <= crashes

\* The finalize turn reads the first finding of every final verdict, and of superseded
\* ones no more than the packet's budget.
FinalFindingsInPacket ==
  phase = "finalize" =>
    LET run == PacketRows(evals)
        s == steps(evals)
        spent[i \in 0..Len(s)] == IF i = 0 THEN 0 ELSE spent[i - 1] + s[i].used
    IN  /\ \A i \in DOMAIN run :
             (\A j \in DOMAIN run : run[j].unit = run[i].unit => j <= i) /\ s[i].total > 0
               => s[i].kept > 0
        /\ spent[Len(s)] <= PacketBudget

Open == evaluator_finding_follow_ups(evals)

Stale == reruns + crashes > 0 /\ body.by = "report" /\ ~body.degraded

\* The published body lists every finding left open and says so when no provider wrote
\* it, unless it is the report an earlier terminal of the task left behind: one that was
\* recorded and continued, or one a crash kept from being recorded.
PublishedTrue ==
  phase = "published" =>
    Stale \/ (Open \subseteq body.items /\ (body.by = "report" => body.degraded))

\* It lists nothing that was settled: each finding was left open by the last review of
\* a unit in this attempt, or by an earlier attempt's of a unit this one never reviewed.
ItemsOpen ==
  phase = "published" /\ ~Stale =>
    \A f \in body.items \ Debts : \E i \in FinalRows(evals) :
      /\ f \in Elements(evals[i].findings)
      /\ f \notin Gating \/ evals[i].verdict = "accept"

\* The follow-ups file got all of them at this finish, in one section.
FollowUpsFiled ==
  phase = "published" /\ Open # {} => file # <<>> /\ Open \subseteq file[Len(file)]

\* A synthesis on record is never replaced by an empty one, except where the process
\* died before its summary.md was written, or the task is started afresh.
SummaryKept ==
  [][summary_json = "full" /\ summary_json' # "full" =>
       reruns' > reruns \/ (crashes > 0 /\ summary_md = NoBody)]_allVars

\* Each unit of a split is run after those before it, reviewed, committed by itself and
\* kept, within its own budget, and the split is the one that was accepted.
SplitSafe ==
  /\ [](CloseTypeOK /\ PredecessorsLanded /\ WorkInOwnCommit /\ CommittedAccepted /\ IndexAgrees
        /\ BudgetOwn /\ OperatorSplitStands /\ PublishedWhole)
  /\ CommittedStands

\* What the supervisor is shown, and what the summary, the follow-ups and the published
\* body say, is what the reviews found.
CloseSafe ==
  /\ [](DeviationsSeen /\ FinalFindingsInPacket /\ PublishedTrue /\ ItemsOpen /\ FollowUpsFiled)
  /\ SummaryKept
=============================================================================
