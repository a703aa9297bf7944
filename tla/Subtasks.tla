------------------------------ MODULE Subtasks ------------------------------
(***************************************************************************)
(* A task split into subtasks: planning and the decision on its proposal,   *)
(* the writes that persist it, the fan-out that runs the units one after the *)
(* other, each reviewed and committed by itself, and what a process started  *)
(* after a crash makes of the rows, the index, the publish operations and the *)
(* checkpoint it finds (_run_phases, _fan_out_subtasks, _commit_subtask,     *)
(* _persist_decomposition and _rebuild_decomposition of core/orchestrator.py *)
(* with core/decomposition.py).                                            *)
(*                                                                         *)
(* A unit's region is one agent and one evaluator in one fix loop. A commit  *)
(* is the set of changes in it, a change names its unit and the process run   *)
(* that made it, a sha is a position in `commits` (1 is the base).           *)
(***************************************************************************)
EXTENDS RunRecord

CONSTANTS
  Plans,             \* [names -> sequences of units]: what planning may propose
  Authored,          \* names of plans an operator may write into the task file
  Reports,           \* per unit, the sequences of findings a review of it may return
  MaxFix,            \* the fix loop's consecutive budget
  MaxCrashes

VARIABLES
  task,              \* tasks row: accepted, count, active, completed
  rows, index,       \* subtasks rows and index.json: [plan, sha] per order
  op,                \* sha of the completed subtask_commit operation, per order
  commits, tree,     \* the branch, and the uncommitted changes
  ckpt,              \* [node, fix] of the saved checkpoint
  evals,             \* evaluations rows, in order
  authored,          \* the plan in the task file, or NoPlan
  disabled,          \* the task switches its planning node off
  phase, unit,       \* where the process is, and the unit it works on
  plan,              \* p.decomposition: [accepted, units]
  operator,          \* p.operator_decomposition is set
  todo,              \* the plan being persisted
  fix,               \* run_state's counter of the loop
  committed, handed, \* orders this fan-out has behind it; orders of the last handoff
  sha,               \* what _commit returned
  crashes

taskFile == <<authored, disabled>>
splitVars == <<task, rows, index, op, todo, taskFile>>
gitVars == <<commits, tree, sha>>
memVars == <<plan, operator, committed, handed>>
subVars == <<splitVars, gitVars, memVars, ckpt, evals, phase, unit, fix, crashes>>

NoPlan == "none"
NoRow == [plan |-> NoPlan, sha |-> 0]
Orders == 1..MaxSubtasks
Single == [accepted |-> FALSE, units |-> {}]

ASSUME SubtasksAssumption ==
  /\ NoPlan \notin DOMAIN Plans /\ Authored \subseteq DOMAIN Plans
  /\ \A p \in Authored : Accepted(Plans[p])
  /\ \A u \in 0..MaxSubtasks : \A r \in Reports[u] : r \in Seq(Findings)
  /\ MaxFix \in Nat /\ MaxCrashes \in Nat

SubInit ==
  /\ task = [accepted |-> FALSE, count |-> 0, active |-> 0, completed |-> 0]
  /\ rows = [o \in Orders |-> NoRow] /\ index = [o \in Orders |-> NoRow]
  /\ op = [o \in Orders |-> 0] /\ commits = <<{}>> /\ tree = {} /\ sha = 0
  /\ ckpt = [node |-> "none", fix |-> 0] /\ evals = <<>>
  /\ unit = Whole /\ plan = Single /\ fix = 0 /\ committed = {} /\ handed = {}
  /\ authored \in Authored \cup {NoPlan} /\ disabled \in BOOLEAN /\ crashes = 0
  /\ operator = (authored # NoPlan) /\ todo = authored
  /\ phase = IF authored # NoPlan THEN "persist" ELSE "begin"

To(p) == phase' = p

save_checkpoint(n, f) == ckpt' = [node |-> n, fix |-> f]

-----------------------------------------------------------------------------
(* Planning and the persisted decision.                                     *)

\* The pre phase is entered, and its entry saved.
Begin ==
  /\ phase = "begin" /\ To("planning") /\ save_checkpoint("planning", fix)
  /\ UNCHANGED <<splitVars, gitVars, memVars, evals, unit, fix, crashes>>

\* Mutant: the proposal is read even where the task file brings a split.
Planning_Reads(p) ==
  /\ phase = "planning"
  /\ IF disabled THEN To("leave") /\ UNCHANGED todo
     ELSE todo' = p /\ To("persist")
  /\ UNCHANGED <<task, rows, index, op, taskFile, gitVars, memVars, ckpt, evals, unit,
                 fix, crashes>>

\* The planning node proposed p. Its hook decides and persists before the engine's
\* next checkpoint; an operator's split stands as it is, and so does what the run
\* started from when the node is switched off.
Planning(p) ==
  /\ phase = "planning"
  /\ IF operator \/ disabled THEN To("leave") /\ UNCHANGED todo
     ELSE todo' = p /\ To("persist")
  /\ UNCHANGED <<task, rows, index, op, taskFile, gitVars, memVars, ckpt, evals, unit,
                 fix, crashes>>

AcceptedTodo == decide_decomposition(TRUE, Plans[todo])

\* The decision in memory and in the tasks row.
PersistTask ==
  /\ phase = "persist"
  /\ plan' = IF AcceptedTodo THEN [accepted |-> TRUE, units |-> 1..Len(Plans[todo])]
             ELSE Single
  /\ task' = IF AcceptedTodo
             THEN [task EXCEPT !.accepted = TRUE, !.count = Len(Plans[todo]), !.active = 1]
             ELSE [task EXCEPT !.accepted = FALSE, !.count = 0, !.active = 0]
  /\ To(IF AcceptedTodo THEN "persist_index" ELSE "leave")
  /\ UNCHANGED <<rows, index, op, todo, taskFile, gitVars, operator, committed, handed,
                 ckpt, evals, unit, fix, crashes>>

write_subtask_artifacts ==
  /\ phase = "persist_index"
  /\ index' = [o \in Orders |-> IF o <= Len(Plans[todo]) THEN [plan |-> todo, sha |-> 0]
                                ELSE NoRow]
  /\ To("persist_rows")
  /\ UNCHANGED <<task, rows, op, todo, taskFile, gitVars, memVars, ckpt, evals, unit, fix,
                 crashes>>

\* A committed row is kept, and so is the row of a unit this plan does not have.
insert_subtasks ==
  /\ phase = "persist_rows"
  /\ rows' = [o \in Orders |-> IF o <= Len(Plans[todo]) /\ rows[o].sha = 0
                               THEN [plan |-> todo, sha |-> 0] ELSE rows[o]]
  /\ To(IF ckpt.node = "none" THEN "begin" ELSE "leave")
  /\ UNCHANGED <<task, index, op, todo, taskFile, gitVars, memVars, ckpt, evals, unit,
                 fix, crashes>>

\* The pre phase ends with the checkpoint of the edge that leaves it.
LeavePre ==
  /\ phase = "leave" /\ save_checkpoint("implement", fix)
  /\ To(IF plan.accepted THEN "fan_out" ELSE "whole")
  /\ UNCHANGED <<splitVars, gitVars, memVars, evals, unit, fix, crashes>>

-----------------------------------------------------------------------------
(* The fan-out.                                                             *)

CommittedRows == {o \in Orders : rows[o].sha # 0}

\* Mutant: the committed rows are not looked up.
FanOut_Forgets ==
  /\ phase = "fan_out" /\ committed' = {} /\ To("next")
  /\ UNCHANGED <<splitVars, gitVars, plan, operator, handed, ckpt, evals, unit, fix, crashes>>

FanOut ==
  /\ phase = "fan_out" /\ committed' = CommittedRows /\ To("next")
  /\ UNCHANGED <<splitVars, gitVars, plan, operator, handed, ckpt, evals, unit, fix, crashes>>

Left == plan.units \ committed
Least(s) == CHOOSE o \in s : \A v \in s : o <= v

\* The landed units a unit is told of: those of the plan below it.
Landed(u) == {o \in CommittedRows \cap plan.units : o < u}

\* The next unit's specification and what its predecessors left; a crash before
\* EnterUnit repeats this step.
NextUnit ==
  /\ phase = "next" /\ Left # {}
  /\ unit' = Least(Left) /\ handed' = Landed(unit') /\ To("enter")
  /\ UNCHANGED <<splitVars, gitVars, plan, operator, committed, ckpt, evals, fix, crashes>>

\* A unit's region is entered at its entry, whatever the checkpoint said.
EnterUnit ==
  /\ \/ phase = "enter" /\ UNCHANGED unit
     \/ phase = "whole" /\ unit' = Whole
  /\ save_checkpoint("implement", fix) /\ To("implement")
  /\ UNCHANGED <<splitVars, gitVars, memVars, evals, fix, crashes>>

\* The unit's agent changes the tree, or finds nothing to change.
Implement(changes) ==
  /\ phase = "implement"
  /\ tree' = IF changes THEN tree \cup {[unit |-> unit, run |-> crashes]} ELSE tree
  /\ save_checkpoint("review", fix) /\ To("review")
  /\ UNCHANGED <<splitVars, commits, sha, memVars, evals, unit, fix, crashes>>

\* The evaluator's row is recorded before any checkpoint counts it.
Review(fs) ==
  /\ phase = "review"
  /\ evals' = Append(evals, EvaluationRow(unit, verdict(evals, unit, fs, fix >= MaxFix), fs))
  /\ To("observe")
  /\ UNCHANGED <<splitVars, gitVars, memVars, ckpt, unit, fix, crashes>>

Verdict == evals[Len(evals)].verdict

\* Mutant: a rework the loop's budget refuses is taken all the same.
Rework_Unbudgeted ==
  /\ phase = "route" /\ Verdict = "rework"
  /\ fix' = fix + 1 /\ save_checkpoint("implement", fix') /\ To("implement")
  /\ UNCHANGED <<splitVars, gitVars, memVars, evals, unit, crashes>>

Rework ==
  /\ phase = "route" /\ Verdict = "rework" /\ fix < MaxFix
  /\ fix' = fix + 1 /\ save_checkpoint("implement", fix') /\ To("implement")
  /\ UNCHANGED <<splitVars, gitVars, memVars, evals, unit, crashes>>

\* Mutant: a refused rework passes for an accept.
Stuck_Passes ==
  /\ phase = "route" /\ Verdict = "rework" /\ fix >= MaxFix /\ unit # Whole
  /\ To("commit")
  /\ UNCHANGED <<splitVars, gitVars, memVars, ckpt, evals, unit, fix, crashes>>

\* A rework past the loop's budget parks the task.
Stuck ==
  /\ phase = "route" /\ Verdict = "rework" /\ fix >= MaxFix /\ To("stuck")
  /\ UNCHANGED <<splitVars, gitVars, memVars, ckpt, evals, unit, fix, crashes>>

IsLastUnit == unit = CHOOSE o \in plan.units : \A v \in plan.units : v <= o

\* A run that is not split goes on to its close-out; a unit is committed first, and
\* its region's entry saved unless it is the last.
Accept ==
  /\ phase = "route" /\ Verdict = "accept"
  /\ IF unit = Whole THEN To("finalize") /\ save_checkpoint("publish", fix)
     ELSE /\ To("commit")
          /\ IF IsLastUnit THEN UNCHANGED ckpt ELSE save_checkpoint("implement", fix)
  /\ UNCHANGED <<splitVars, gitVars, memVars, evals, unit, fix, crashes>>

-----------------------------------------------------------------------------
(* The commit of a unit, write by write.                                    *)

Tip == Len(commits)

Tracked(s) == s = 1 \/ \E o \in Orders : op[o] = s

CommitAgain ==
  /\ phase = "commit" /\ op[unit] # 0
  /\ sha' = op[unit] /\ To("index") /\ UNCHANGED <<op, commits, tree>>

\* Nothing to commit: a HEAD no operation knows is adopted, a known one is reused.
CommitNothing ==
  /\ phase = "commit" /\ op[unit] = 0 /\ tree = {}
  /\ op' = IF Tracked(Tip) THEN op ELSE [op EXCEPT ![unit] = Tip]
  /\ sha' = Tip /\ To("index") /\ UNCHANGED <<commits, tree>>

CommitTree ==
  /\ phase = "commit" /\ op[unit] = 0 /\ tree # {}
  /\ commits' = Append(commits, tree) /\ tree' = {} /\ To("op") /\ UNCHANGED <<op, sha>>

RecordOp ==
  /\ phase = "op" /\ op' = [op EXCEPT ![unit] = Tip] /\ sha' = Tip /\ To("index")
  /\ UNCHANGED <<commits, tree>>

_commit ==
  /\ CommitAgain \/ CommitNothing \/ CommitTree \/ RecordOp
  /\ UNCHANGED <<task, rows, index, todo, taskFile, memVars, ckpt, evals, unit, fix, crashes>>

\* Mutant: an order the index does not list is passed over.
update_subtask_index_Skips ==
  /\ phase = "index" /\ To("row")
  /\ index' = IF index[unit] # NoRow THEN [index EXCEPT ![unit].sha = sha] ELSE index
  /\ UNCHANGED <<task, rows, op, todo, taskFile, gitVars, memVars, ckpt, evals, unit, fix,
                 crashes>>

\* The index must list the unit: if it does not, the KeyError ends the run.
update_subtask_index ==
  /\ phase = "index"
  /\ IF index[unit] # NoRow THEN index' = [index EXCEPT ![unit].sha = sha] /\ To("row")
     ELSE UNCHANGED index /\ To("raised")
  /\ UNCHANGED <<task, rows, op, todo, taskFile, gitVars, memVars, ckpt, evals, unit, fix,
                 crashes>>

set_subtask_commit ==
  /\ phase = "row" /\ rows' = [rows EXCEPT ![unit].sha = sha] /\ To("count")
  /\ UNCHANGED <<task, index, op, todo, taskFile, gitVars, memVars, ckpt, evals, unit, fix,
                 crashes>>

\* Mutant: the loop's budget is not renewed for the next unit.
NextBudget_Kept == fix

NextBudget == IF IsLastUnit THEN fix ELSE 0

\* The unit is counted, and the next one starts on a fresh budget that only the next
\* checkpoint makes durable.
CountUnit ==
  /\ phase = "count"
  /\ task' = [task EXCEPT !.completed = unit,
                          !.active = IF IsLastUnit THEN @ ELSE unit + 1]
  /\ fix' = NextBudget /\ committed' = committed \cup {unit} /\ To("next")
  /\ UNCHANGED <<rows, index, op, todo, taskFile, gitVars, plan, operator, handed, ckpt,
                 evals, unit, crashes>>

\* Every unit is committed: the rest of the flow runs for the task as a whole.
AllUnits ==
  /\ phase = "next" /\ Left = {}
  /\ unit' = Whole /\ save_checkpoint("publish", fix) /\ To("finalize")
  /\ UNCHANGED <<splitVars, gitVars, memVars, evals, fix, crashes>>

-----------------------------------------------------------------------------
(* A crash and the start that follows it.                                   *)

LoseMemory ==
  /\ plan' = Single /\ operator' = FALSE /\ committed' = {} /\ handed' = {}
  /\ fix' = 0 /\ unit' = Whole /\ sha' = 0 /\ todo' = NoPlan

_rebuild_decomposition ==
  IF task.accepted THEN [accepted |-> TRUE, units |-> {o \in Orders : rows[o] # NoRow}]
  ELSE Single

\* Where a start with the saved checkpoint begins: with none the whole run starts
\* over, in the pre phase planning repeats, a split re-enters its fan-out.
ResumeAt ==
  IF ckpt.node = "none" THEN "begin"
  ELSE IF ckpt.node = "planning" THEN "planning"
  ELSE IF task.accepted THEN "fan_out"
  ELSE IF ckpt.node = "publish" THEN "finalize"
  ELSE ckpt.node

Resume ==
  /\ phase = "down"
  /\ plan' = _rebuild_decomposition /\ fix' = ckpt.fix /\ To(ResumeAt)
  /\ UNCHANGED <<splitVars, gitVars, operator, committed, handed, ckpt, evals, unit, crashes>>

Working == phase \notin {"down", "stuck", "raised", "stopped", "published"}

SubStep ==
  \/ Begin \/ (\E p \in DOMAIN Plans : Planning(p))
  \/ PersistTask \/ write_subtask_artifacts \/ insert_subtasks \/ LeavePre
  \/ FanOut \/ NextUnit \/ EnterUnit \/ (\E c \in BOOLEAN : Implement(c))
  \/ (\E fs \in Reports[unit] : Review(fs)) \/ Rework \/ Stuck \/ Accept
  \/ _commit \/ update_subtask_index \/ set_subtask_commit \/ CountUnit \/ AllUnits
  \/ Resume
=============================================================================
