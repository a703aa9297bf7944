--------------------------- MODULE TaskLifecycle ---------------------------
(***************************************************************************)
(* The life of tasks under one executor: the watch loop (cli.py), the gate *)
(* and the registration, the drive to the engine, the terminal epilogue    *)
(* and the restart recovery (core/orchestrator.py, core/recovery.py), over *)
(* the tasks table (state_store.py), the task files in their lifecycle     *)
(* folders and the completed-tasks ledger (ledger.py).                     *)
(*                                                                         *)
(* Each durable write is a step of its own, so that a crash may fall       *)
(* between any two of them. pc names the write the executor is about to    *)
(* make. The flow engine is one step here, FlowEngine models its inside.   *)
(* One executor at a time: the marker files of process_control.py are      *)
(* taken for granted.                                                      *)
(***************************************************************************)
EXTENDS Integers

CONSTANTS
  Tasks,          \* task ids, numbered in the order the pending folder is scanned
  NoTask,
  MaxInterrupts,  \* bound: crashes and stops of the executor explored
  MaxParks,       \* bound: provider outages and operator cancels explored
  MaxCommands,    \* bound: rerun, rerun --continue and finalize calls explored
  MaxSubmits      \* bound: files dropped into, or edited in, the pending folder

ASSUME LifecycleAssumption ==
  /\ Tasks \subseteq Nat
  /\ NoTask \notin Tasks
  /\ {MaxInterrupts, MaxParks, MaxCommands, MaxSubmits} \subseteq Nat

-----------------------------------------------------------------------------
(* Statuses. "absent": no row. "pending" is declared in the code and never   *)
(* assigned.                                                                 *)

TERMINAL == {"done", "failed", "manual"}
ACTIVE == {"validated", "preparing", "running"}
Statuses == {"absent", "new"} \cup ACTIVE \cup TERMINAL

BaseTransitions == {<<"new", "validated">>, <<"validated", "preparing">>,
                    <<"preparing", "running">>, <<"running", "done">>}
can_transition(from, to) ==
  \/ <<from, to>> \in BaseTransitions
  \/ from \in {"new"} \cup ACTIVE /\ to \in {"failed", "manual"}

RERUN_ELIGIBLE == {"failed", "manual", "running"}

VARIABLES
  \* durable
  row,      \* per task, its row of the tasks table
  pend,     \* per task, a file in pending/ that bears its id: "none", the bytes
            \* the row was registered with ("own"), or any other bytes ("other")
  filed,    \* per task: its own file stands in done/ or failed/
  ledger,   \* per task, its ledger records: ends of runs, gate refusals, finalizations
  \* in the executor process
  pc, cur,
  src,      \* p.status, the pipeline's own copy of the status
  goal,     \* the terminal status _go_terminal is bringing about
  via,      \* how the pipeline came to run: "watch", "rerun" or "resume"
  todo,     \* RecoveryPlan.manual_task_ids still to be stopped
  \* bounds and history
  interrupts, parks, commands, submits,
  ends,     \* per task: how often its row was moved into a terminal status
  finished  \* per task: the flow of the current attempt reached its end

durable == <<row, pend, filed, ledger>>
process == <<pc, cur, src, goal, via, todo>>
bounds == <<interrupts, parks, commands, submits>>
history == <<ends, finished>>
vars == <<durable, process, bounds, history>>

Rows == [status : Statuses,
         branch : BOOLEAN,                    \* branch IS NOT NULL
         node : BOOLEAN,                      \* current_node IS NOT NULL
         cleanup : {"null", "no", "yes"},     \* cleanup_completed
         blocked : {"no", "since", "until"},  \* blocked_since, blocked_until
         artifact : BOOLEAN,                  \* the normalized task file is readable
         torn : BOOLEAN]  \* a subtask commit is recorded that subtasks_completed lacks

Entries == [run : Nat, reject : Nat, manual : Nat]

PCs == {"down", "idle", "scan", "gate", "validate", "drive", "prepare", "ready", "seed",
        "engine", "fail", "handler", "cleanup", "explain", "clear", "transition", "move",
        "append", "mstatus", "mrecord", "crecord", "fstatus", "frecord", "invalid"}

DurableOK ==
  /\ row \in [Tasks -> Rows]
  /\ pend \in [Tasks -> {"none", "own", "other"}]
  /\ filed \in [Tasks -> BOOLEAN]
  /\ ledger \in [Tasks -> Entries]

ProcessOK ==
  /\ pc \in PCs
  /\ cur \in Tasks \cup {NoTask}
  /\ pc \notin {"down", "idle", "scan", "mstatus", "invalid"} => cur \in Tasks
  /\ src \in Statuses
  /\ goal \in TERMINAL \cup {"none"}
  /\ pc \in {"fail", "handler", "cleanup", "explain", "clear", "transition", "move",
             "append", "fstatus", "frecord"} => goal \in TERMINAL
  /\ via \in {"none", "watch", "rerun", "resume"}
  /\ todo \in SUBSET Tasks

BoundsOK ==
  /\ interrupts \in 0..MaxInterrupts /\ parks \in 0..MaxParks
  /\ commands \in 0..MaxCommands /\ submits \in 0..MaxSubmits

HistoryOK == ends \in [Tasks -> Nat] /\ finished \in [Tasks -> BOOLEAN]

TypeOK == DurableOK /\ ProcessOK /\ BoundsOK /\ HistoryOK

NoRow == [status |-> "absent", branch |-> FALSE, node |-> FALSE, cleanup |-> "null",
          blocked |-> "no", artifact |-> FALSE, torn |-> FALSE]

Init ==
  /\ row = [t \in Tasks |-> NoRow]
  /\ pend = [t \in Tasks |-> "own"] /\ filed = [t \in Tasks |-> FALSE]
  /\ ledger = [t \in Tasks |-> [run |-> 0, reject |-> 0, manual |-> 0]]
  /\ pc = "down" /\ cur = NoTask /\ src = "absent" /\ goal = "none" /\ via = "none" /\ todo = {}
  /\ interrupts = 0 /\ parks = 0 /\ commands = 0 /\ submits = 0
  /\ ends = [t \in Tasks |-> 0] /\ finished = [t \in Tasks |-> FALSE]

-----------------------------------------------------------------------------
(* Queries on the durable state. *)

\* Mutant of find_active_tasks: only a running task holds the slot.
find_active_tasks_RunningOnly == {t \in Tasks : row[t].status = "running"}

find_active_tasks == {t \in Tasks : row[t].status \in ACTIVE}
find_incomplete_cleanup ==
  {t \in Tasks : row[t].status \in TERMINAL /\ row[t].branch /\ row[t].cleanup # "yes"}
has_task_id(t) == ledger[t].run + ledger[t].reject + ledger[t].manual > 0

\* The plan's MANUAL verdict: more than one active task, or the one active task's
\* recorded subtask commits outnumber its completed count.
manual_task_ids ==
  IF \E t, u \in find_active_tasks : t # u THEN find_active_tasks
  ELSE {t \in find_active_tasks : row[t].torn}

\* The file a row names is still in the pending folder.
InPending(t) == pend[t] # "none" /\ ~filed[t]

-----------------------------------------------------------------------------
(* Shapes of steps. *)

Goto(p) == pc' = p /\ UNCHANGED <<cur, src, goal, via, todo>>
Set(t, r) == row' = [row EXCEPT ![t] = r]
Exits == /\ cur' = NoTask /\ src' = "absent" /\ goal' = "none" /\ via' = "none" /\ todo' = {}

\* set_status, as the history sees it.
SetStatus(t, r) ==
  /\ Set(t, r)
  /\ ends' = [ends EXCEPT ![t] = IF r.status \in TERMINAL THEN @ + 1 ELSE @]
  /\ UNCHANGED finished

\* Ledger.append of a record of one kind.
Run(l) == [l EXCEPT !.run = @ + 1]
Reject(l) == [l EXCEPT !.reject = @ + 1]
Manual(l) == [l EXCEPT !.manual = @ + 1]

\* Mutant of AppendIfNew: the recovery appends without asking the ledger.
AppendIfNew_Always(t) == ledger' = [ledger EXCEPT ![t] = Run(@)]

\* A recovery path's record: only for an id the ledger does not know.
AppendIfNew(t) == ledger' = [ledger EXCEPT ![t] = IF has_task_id(t) THEN @ ELSE Run(@)]

\* _relocate_task_file: into done/ or failed/; a manual stop leaves the file where
\* it is, and so does an OSError.
Relocate(t, final) ==
  \/ /\ final # "manual" /\ InPending(t)
     /\ pend' = [pend EXCEPT ![t] = "none"] /\ filed' = [filed EXCEPT ![t] = TRUE]
  \/ UNCHANGED <<pend, filed>>

\* The exception handlers of run_task and _resume_task: a failure is published by
\* _fail only on the way from run_task, and from inside its handler.
Raise ==
  \E g \in {"failed", "manual"} :
    /\ goal' = g
    /\ pc' = IF g = "failed" /\ via # "resume" THEN "handler" ELSE "cleanup"
    /\ UNCHANGED <<cur, src, via, todo>>

-----------------------------------------------------------------------------
(* The process comes and goes. *)

Start ==
  /\ pc = "down" /\ pc' = "idle" /\ Exits
  /\ UNCHANGED <<durable, bounds, history>>

\* The stop request is seen between two ticks.
Stop ==
  /\ pc = "idle" /\ interrupts < MaxInterrupts
  /\ pc' = "down" /\ Exits /\ interrupts' = interrupts + 1
  /\ UNCHANGED <<durable, parks, commands, submits, history>>

\* A crash loses the process. In a decomposed task's engine it may fall between
\* the write of a subtask's commit and that of the completed count.
Crash ==
  /\ pc \notin {"down", "idle"} /\ interrupts < MaxInterrupts
  /\ \/ UNCHANGED row
     \/ pc = "engine" /\ Set(cur, [row[cur] EXCEPT !.torn = TRUE])
  /\ pc' = "down" /\ Exits /\ interrupts' = interrupts + 1
  /\ UNCHANGED <<pend, filed, ledger, parks, commands, submits, history>>

-----------------------------------------------------------------------------
(* resume(): what a tick does before it looks at the pending folder. *)

ResumeManual ==
  /\ pc = "idle" /\ manual_task_ids # {}
  /\ pc' = "mstatus" /\ todo' = manual_task_ids
  /\ UNCHANGED <<durable, cur, src, goal, via, bounds, history>>

\* Mutant of Stopped: the reason is noted, the status left as it is.
Stopped_NoteOnly(r) == r

\* The row of a task the recovery stops.
Stopped(r) == [r EXCEPT !.status = "manual"]

ManualStatus ==
  /\ pc = "mstatus"
  /\ \E t \in todo :
       /\ SetStatus(t, Stopped(row[t]))
       /\ cur' = t /\ todo' = todo \ {t}
  /\ pc' = "mrecord"
  /\ UNCHANGED <<pend, filed, ledger, src, goal, via, bounds>>

ManualRecord ==
  /\ pc = "mrecord"
  /\ AppendIfNew(cur)
  /\ Goto(IF todo = {} THEN "idle" ELSE "mstatus")
  /\ UNCHANGED <<row, pend, filed, bounds, history>>

\* _resume_task begins: the pipeline is rebuilt from the row.
Resuming(t) == pc = "idle" /\ manual_task_ids = {} /\ t \in find_active_tasks
Rebuilt(t, p, status, g) ==
  /\ pc' = p /\ cur' = t /\ src' = status /\ goal' = g /\ via' = "resume" /\ UNCHANGED todo

\* The normalized artifact cannot be read back: stop for the operator.
ResumeCorrupt(t) ==
  /\ Resuming(t) /\ ~row[t].artifact
  /\ Rebuilt(t, "cleanup", row[t].status, "manual")
  /\ UNCHANGED <<durable, bounds, history>>

\* max_blocked_s may have passed since blocked_since: give the task up.
ResumeCeiling(t) ==
  /\ Resuming(t) /\ row[t].artifact /\ row[t].blocked # "no"
  /\ Rebuilt(t, "fail", row[t].status, "failed")
  /\ UNCHANGED <<durable, bounds, history>>

\* Mutant of Redriven: the status is not set back before the drive.
Redriven_NoReset(r) == r

\* The row a restart from the top begins with.
Redriven(r) == [r EXCEPT !.status = "validated"]

\* No checkpoint: restart from the top. A window that is still closed leaves the
\* tick without a step.
ResumeFromTop(t) ==
  /\ Resuming(t) /\ row[t].artifact /\ row[t].blocked # "until" /\ ~row[t].node
  /\ Set(t, Redriven(row[t]))
  /\ Rebuilt(t, "drive", Redriven(row[t]).status, "none")
  /\ UNCHANGED <<pend, filed, ledger, bounds, history>>

\* A checkpoint: re-attach the branch and go on from it, or fail to.
ResumeFromNode(t) ==
  /\ Resuming(t) /\ row[t].artifact /\ row[t].blocked # "until" /\ row[t].node
  /\ \/ /\ Set(t, [row[t] EXCEPT !.branch = TRUE])
        /\ Rebuilt(t, "engine", row[t].status, "none")
     \/ /\ \E g \in {"failed", "manual"} : Rebuilt(t, "cleanup", row[t].status, g)
        /\ UNCHANGED row
  /\ UNCHANGED <<pend, filed, ledger, bounds, history>>

\* A terminal task whose cleanup did not complete: try again.
ResumeCleanup(t, safe) ==
  /\ pc = "idle" /\ find_active_tasks = {} /\ t \in find_incomplete_cleanup
  /\ Set(t, [row[t] EXCEPT !.cleanup = IF safe THEN "yes" ELSE "no"])
  /\ pc' = "crecord" /\ cur' = t
  /\ UNCHANGED <<pend, filed, ledger, src, goal, via, todo, bounds, history>>

\* Mutant of AfterCleanup: a cleanup that is still blocked ends the tick.
AfterCleanup_Freezes(t) ==
  IF row[t].cleanup = "yes" /\ row[t].status # "manual" THEN "scan" ELSE "idle"

\* A completed cleanup reports the task, and a manual task ends the tick; a blocked
\* one reports nothing and the pending folder is scanned.
AfterCleanup(t) ==
  IF row[t].cleanup = "yes" /\ row[t].status = "manual" THEN "idle" ELSE "scan"

CleanupRecord ==
  /\ pc = "crecord"
  /\ AppendIfNew(cur) /\ Goto(AfterCleanup(cur))
  /\ UNCHANGED <<row, pend, filed, bounds, history>>

NothingToResume ==
  /\ pc = "idle" /\ find_active_tasks = {} /\ find_incomplete_cleanup = {}
  /\ Goto("scan") /\ UNCHANGED <<durable, bounds, history>>

-----------------------------------------------------------------------------
(* The scan of the pending folder and the gate. *)

\* Files a scan offers to run_task: not those a terminal row already accounts for.
settled_own_file(t) == row[t].status \in TERMINAL /\ pend[t] = "own"
Offered == {t \in Tasks : pend[t] # "none" /\ ~settled_own_file(t)}

Claim ==
  /\ pc = "scan" /\ find_active_tasks = {}
  /\ \E t \in Offered :
       /\ \A u \in Offered : t <= u
       /\ pc' = "gate" /\ cur' = t /\ src' = "absent" /\ goal' = "none" /\ via' = "watch"
  /\ UNCHANGED <<durable, todo, bounds, history>>

EndScan ==
  /\ pc = "scan" /\ (find_active_tasks # {} \/ Offered = {})
  /\ Goto("idle") /\ UNCHANGED <<durable, bounds, history>>

\* A row or a real ledger record reserves the id, but not against its own rerun.
duplicate_task_id(t) ==
  /\ via # "rerun"
  /\ row[t].status # "absent" \/ ledger[t].run + ledger[t].manual > 0

\* The file run_task was given: a rerun reads the file its row names.
Source(t) == IF via = "rerun" /\ filed[t] THEN "filed" ELSE pend[t]

\* Mutant of classify_settled: a settled task is not looked for.
classify_settled_Never(t) == "not_settled"

classify_settled(t) ==
  IF row[t].status \notin TERMINAL THEN "not_settled"
  ELSE IF Source(t) \in {"own", "filed"} THEN "own" ELSE "foreign"

\* _quarantine: the file leaves the lifecycle folders.
Quarantine(t) ==
  IF Source(t) = "filed"
    THEN filed' = [filed EXCEPT ![t] = FALSE] /\ UNCHANGED pend
    ELSE pend' = [pend EXCEPT ![t] = "none"] /\ UNCHANGED filed

\* A task that needs the operator ends the tick, and so does any when auto mode is off.
AfterTask(final) == IF final = "manual" THEN {"idle"} ELSE {"idle", "scan"}

\* The gate or the content refuses the file.
GateReject ==
  /\ pc = "gate"
  /\ CASE classify_settled(cur) = "not_settled" ->
            Quarantine(cur) /\ ledger' = [ledger EXCEPT ![cur] = Reject(@)]
       [] classify_settled(cur) = "foreign" -> Quarantine(cur) /\ UNCHANGED ledger
       [] OTHER -> UNCHANGED <<pend, filed, ledger>>
  /\ \E p \in AfterTask("failed") : Goto(p)
  /\ UNCHANGED <<row, bounds, history>>

\* insert_task: a new row, or the old one with its status and digest replaced.
Register ==
  /\ pc = "gate" /\ ~duplicate_task_id(cur) /\ find_active_tasks \subseteq {cur}
  /\ Set(cur, [row[cur] EXCEPT !.status = "new"])
  /\ pend' = [pend EXCEPT ![cur] = IF Source(cur) = "other" THEN "own" ELSE @]
  /\ Goto("validate")
  /\ UNCHANGED <<filed, ledger, bounds, history>>

\* The normalized artifact is written and the gate's verdict recorded.
Validate ==
  /\ pc = "validate"
  /\ Set(cur, [row[cur] EXCEPT !.status = "validated", !.artifact = TRUE])
  /\ pc' = "drive" /\ src' = "validated" /\ UNCHANGED <<cur, goal, via, todo>>
  /\ UNCHANGED <<pend, filed, ledger, bounds, history>>

-----------------------------------------------------------------------------
(* _transition: asserted against the pipeline's own status. *)

Transition(to, next) ==
  /\ IF can_transition(src, to)
       THEN SetStatus(cur, [row[cur] EXCEPT !.status = to]) /\ src' = to /\ pc' = next
       ELSE pc' = "invalid" /\ UNCHANGED <<row, src, history>>
  /\ UNCHANGED <<pend, filed, ledger, cur, goal, via, todo, bounds>>

\* _drive_via_engine: the flow, the isolation and the checks are resolved first.
DriveRefused ==
  /\ pc \in {"drive", "prepare"} /\ Raise
  /\ UNCHANGED <<durable, bounds, history>>

Drive == pc = "drive" /\ Transition("preparing", "prepare")

PrepareBranch ==
  /\ pc = "prepare"
  /\ Set(cur, [row[cur] EXCEPT !.branch = TRUE])
  /\ Goto("ready") /\ UNCHANGED <<pend, filed, ledger, bounds, history>>

Ready == pc = "ready" /\ Transition("running", "seed")

\* _engine_run: exchange, control bundle and agent inputs are frozen, or refused.
SeedRefused ==
  /\ pc = "seed"
  /\ pc' = "cleanup" /\ goal' = "manual" /\ UNCHANGED <<cur, src, via, todo>>
  /\ UNCHANGED <<durable, bounds, history>>

\* The checkpoint is written at the entry node before it runs.
Seed ==
  /\ pc = "seed"
  /\ Set(cur, [row[cur] EXCEPT !.node = TRUE])
  /\ Goto("engine") /\ UNCHANGED <<pend, filed, ledger, bounds, history>>

-----------------------------------------------------------------------------
(* What the engine may come back with. *)

\* The publish node files the task before it commits.
EngineFinalize ==
  /\ pc = "engine" /\ InPending(cur) /\ Relocate(cur, "done")
  /\ Goto("engine")
  /\ UNCHANGED <<row, ledger, bounds, history>>

EngineDone ==
  /\ pc = "engine"
  /\ pc' = "cleanup" /\ goal' = "done" /\ UNCHANGED <<cur, src, via, todo>>
  /\ finished' = [finished EXCEPT ![cur] = TRUE]
  /\ UNCHANGED <<durable, bounds, ends>>

\* A stuck loop or a manual stop; an exception that escapes the engine.
EngineStops ==
  /\ pc = "engine" /\ Raise
  /\ UNCHANGED <<durable, bounds, history>>

\* No provider is left, and waiting will not help: _fail, as failed or manual.
EngineExhausted ==
  /\ pc = "engine"
  /\ pc' = "fail" /\ goal' \in {"failed", "manual"} /\ UNCHANGED <<cur, src, via, todo>>
  /\ UNCHANGED <<durable, bounds, history>>

\* A provider outage or an operator cancel: the task keeps its status and its slot.
EnginePark ==
  /\ pc = "engine" /\ parks < MaxParks
  /\ \E b \in {"since", "until"} : Set(cur, [row[cur] EXCEPT !.blocked = b])
  /\ Goto("idle") /\ parks' = parks + 1
  /\ UNCHANGED <<pend, filed, ledger, interrupts, commands, submits, history>>

\* The provider's window reopens.
WindowOpens ==
  \E t \in Tasks :
    /\ row[t].blocked = "until"
    /\ Set(t, [row[t] EXCEPT !.blocked = "since"])
    /\ UNCHANGED <<pend, filed, ledger, process, bounds, history>>

-----------------------------------------------------------------------------
(* The terminal epilogue: _fail, then _go_terminal write by write. *)

\* The attempt is filed, committed and pushed as far as git goes along.
Fail ==
  /\ pc \in {"fail", "handler"}
  /\ IF row[cur].branch THEN Relocate(cur, goal) ELSE UNCHANGED <<pend, filed>>
  /\ Goto("cleanup") /\ UNCHANGED <<row, ledger, bounds, history>>

\* _fail logs a git error but not a ManualActionRequired of the commit filters or of
\* the push. Raised inside the pipeline it makes the end a manual one; raised from
\* run_task's own handler nothing catches it, and the process goes down.
FailRaises ==
  /\ pc \in {"fail", "handler"} /\ row[cur].branch
  /\ Relocate(cur, goal)
  /\ IF pc = "fail"
       THEN pc' = "cleanup" /\ goal' = "manual" /\ UNCHANGED <<cur, src, via, todo>>
       ELSE pc' = "down" /\ Exits
  /\ UNCHANGED <<row, ledger, bounds, history>>

\* Mutant of final_status: a finished task is done whatever the cleanup says.
final_status_Unchecked(g, safe) == g

\* Mutant of final_status: the demotion leaves the status unset.
final_status_Unset(g, safe) == IF g = "done" /\ ~safe THEN "none" ELSE g

\* A finished task whose tree cannot be cleaned is not done.
final_status(g, safe) == IF g = "done" /\ ~safe THEN "manual" ELSE g

Cleanup(safe) ==
  /\ pc = "cleanup"
  /\ Set(cur, [row[cur] EXCEPT !.cleanup = IF safe THEN "yes" ELSE "no", !.blocked = "no"])
  /\ goal' = final_status(goal, safe)
  /\ pc' = IF final_status(goal, safe) = "done" THEN "clear" ELSE "explain"
  /\ UNCHANGED <<pend, filed, ledger, cur, src, via, todo, bounds, history>>

\* _explain_terminal: the failure report and the summary, which files the task.
Explain ==
  /\ pc = "explain"
  /\ Relocate(cur, goal)
  /\ Goto("transition") /\ UNCHANGED <<row, ledger, bounds, history>>

\* A done task drops its checkpoint.
ClearCheckpoint ==
  /\ pc = "clear"
  /\ Set(cur, [row[cur] EXCEPT !.node = FALSE])
  /\ Goto("transition") /\ UNCHANGED <<pend, filed, ledger, bounds, history>>

Settle == pc = "transition" /\ Transition(goal, "move")

MoveTaskFile ==
  /\ pc = "move"
  /\ IF goal = "failed" THEN Relocate(cur, goal) ELSE UNCHANGED <<pend, filed>>
  /\ Goto("append") /\ UNCHANGED <<row, ledger, bounds, history>>

AppendLedger ==
  /\ pc = "append"
  /\ ledger' = [ledger EXCEPT ![cur] = Run(@)]
  /\ \E p \in AfterTask(goal) : Goto(p)
  /\ UNCHANGED <<row, pend, filed, bounds, history>>

-----------------------------------------------------------------------------
(* Operator commands; the executor is down. *)

\* plan_rerun's refusals.
RerunAllowed(t) ==
  /\ pc = "down" /\ commands < MaxCommands
  /\ row[t].status \in RERUN_ELIGIBLE
  /\ find_active_tasks \subseteq {t}
  /\ filed[t] \/ pend[t] # "none"

\* A fresh rerun: artifacts archived, branch and row reset, then run_task. (A
\* restart in place does the same to this state and requires that no node is set.)
Rerun(t) ==
  /\ RerunAllowed(t)
  /\ Set(t, [NoRow EXCEPT !.status = row[t].status, !.blocked = row[t].blocked])
  /\ pc' = "gate" /\ cur' = t /\ src' = "absent" /\ goal' = "none" /\ via' = "rerun" /\ todo' = {}
  /\ commands' = commands + 1
  /\ finished' = [finished EXCEPT ![t] = FALSE]
  /\ UNCHANGED <<pend, filed, ledger, interrupts, parks, submits, ends>>

\* rerun --continue: the row is revived at its checkpoint and resume() runs.
Continue(t) ==
  /\ RerunAllowed(t) /\ row[t].node
  /\ Set(t, [row[t] EXCEPT !.status = "running", !.cleanup = "null",
                           !.blocked = IF @ = "until" THEN "since" ELSE @])
  /\ pc' = "idle" /\ Exits
  /\ commands' = commands + 1
  /\ UNCHANGED <<pend, filed, ledger, interrupts, parks, submits, history>>

\* A task is finalized by hand once: not if a manual record exists.
plan_finalize(t) == row[t].status # "absent" /\ ledger[t].manual = 0

\* The command runs while no executor does, and goes by the plan's refusals.
cmd_finalize(t) ==
  /\ pc = "down" /\ commands < MaxCommands /\ plan_finalize(t)
  /\ commands' = commands + 1

\* finalize: a tree that cannot be cleaned is noted in the row and ends the command.
Finalize(t) ==
  /\ cmd_finalize(t)
  /\ \/ /\ Set(t, [row[t] EXCEPT !.cleanup = "no"])
        /\ pc' = "down" /\ UNCHANGED <<cur, goal>>
     \/ /\ Set(t, [row[t] EXCEPT !.cleanup = "yes"])
        /\ pc' = "fstatus" /\ cur' = t /\ goal' \in TERMINAL
  /\ UNCHANGED <<pend, filed, ledger, src, via, todo, interrupts, parks, submits, history>>

\* The status is the operator's word: no transition is asserted.
FinalizeStatus ==
  /\ pc = "fstatus"
  /\ SetStatus(cur, [row[cur] EXCEPT !.status = goal])
  /\ Goto("frecord") /\ UNCHANGED <<pend, filed, ledger, bounds>>

FinalizeRecord ==
  /\ pc = "frecord"
  /\ Relocate(cur, goal)
  /\ ledger' = [ledger EXCEPT ![cur] = Manual(@)]
  /\ pc' = "down" /\ Exits
  /\ UNCHANGED <<row, bounds, history>>

\* Someone puts a file into the pending folder, or edits the one that is there.
Submit ==
  \E t \in Tasks :
    /\ submits < MaxSubmits
    /\ pend' = [pend EXCEPT ![t] = IF row[t].status = "absent" THEN "own" ELSE "other"]
    /\ submits' = submits + 1
    /\ UNCHANGED <<row, filed, ledger, process, interrupts, parks, commands, history>>

-----------------------------------------------------------------------------
Resume ==
  \/ ResumeManual \/ ManualStatus \/ ManualRecord
  \/ \E t \in Tasks :
       \/ ResumeCorrupt(t) \/ ResumeCeiling(t) \/ ResumeFromTop(t) \/ ResumeFromNode(t)
       \/ \E safe \in BOOLEAN : ResumeCleanup(t, safe)
  \/ CleanupRecord \/ NothingToResume

Admit == Claim \/ EndScan \/ GateReject \/ Register \/ Validate

RunTask ==
  \/ DriveRefused \/ Drive \/ PrepareBranch \/ Ready \/ SeedRefused \/ Seed
  \/ EngineFinalize \/ EngineDone \/ EngineStops \/ EngineExhausted \/ EnginePark

GoTerminal ==
  \/ Fail \/ FailRaises \/ \E safe \in BOOLEAN : Cleanup(safe)
  \/ Explain \/ ClearCheckpoint \/ Settle \/ MoveTaskFile \/ AppendLedger

Step == Resume \/ Admit \/ RunTask \/ GoTerminal \/ FinalizeStatus \/ FinalizeRecord

Operator == \/ \E t \in Tasks : Rerun(t) \/ Continue(t) \/ Finalize(t)
            \/ Submit

Next == Start \/ Stop \/ Crash \/ Step \/ WindowOpens \/ Operator

Spec == Init /\ [][Next]_vars

\* A step once begun is finished, a stopped executor is started again, and a
\* provider's window reopens.
FairSpec == Spec /\ WF_vars(Start) /\ WF_vars(Step) /\ WF_vars(WindowOpens)
-----------------------------------------------------------------------------
(* Properties. *)

\* The single processing slot: whatever crashed or was re-run, no two rows are in
\* an active status (acquire_slot, find_active_tasks).
AtMostOneActive ==
  \A t, u \in Tasks : row[t].status \in ACTIVE /\ row[u].status \in ACTIVE => t = u

\* assert_transition never fires: each path into _transition, through a restart, a
\* rerun or a resume, brings a pipeline whose status allows the move.
NoInvalidTransition == pc # "invalid"

\* No end of a run is recorded twice, although the epilogue, the cleanup recovery,
\* the manual recovery and finalize each append (_append_ledger, has_task_id).
NoDoubleRecord == \A t \in Tasks : ledger[t].run + ledger[t].manual <= ends[t]

\* While no command of the operator works on it, a settled task keeps its status,
\* gets no refusal record, and its own file is not quarantined by a later scan
\* (settled_own_file, the duplicate-id gate, _reject).
SettledStays ==
  [][\A t \in Tasks :
       row[t].status \in TERMINAL /\ pc # "down" /\ ~(cur = t /\ via = "rerun")
                                 /\ ~(cur = t /\ pc \in {"fstatus", "frecord"})
         => /\ row'[t].status = row[t].status
            /\ ledger'[t].reject = ledger[t].reject
            /\ pend[t] = "own" /\ pend'[t] = "none" => filed'[t]]_vars

\* A task becomes done only with its working tree back in order, by the epilogue
\* or by finalize (_go_terminal turns an unsafe done into a manual stop).
DoneNeedsCleanTree ==
  [][\A t \in Tasks :
       row'[t].status = "done" /\ row[t].status # "done" => row[t].cleanup = "yes"]_vars

\* An active task ends: a restart, a park or a lost checkpoint never leaves it
\* holding the slot for good (resume, _park, _go_terminal). Only a crash between the
\* insertion of a row and its validation strands a task: recovery does not see "new".
ActiveSettles ==
  \A t \in Tasks : (row[t].status \in ACTIVE)
                     ~> (row[t].status \in TERMINAL \/ (row[t].status = "new" /\ interrupts > 0))

\* A file that waits in the pending folder is taken up or refused, even when an
\* earlier task's cleanup stays blocked for ever (_resume_cleanup, watch_once).
QueueDrains ==
  \A t \in Tasks : (row[t].status = "absent" /\ pend[t] = "own")
                     ~> (row[t].status # "absent" \/ pend[t] # "own")

\* What the documentation says and the code does not keep.

\* ledger.py: one record per terminal transition. Looked at when the recovery of a
\* tick has nothing left to do (_go_terminal, _resume_cleanup).
EveryEndRecorded ==
  \A t \in Tasks : pc = "scan" /\ row[t].status \in TERMINAL
                     => ledger[t].run + ledger[t].manual > 0

\* A restart goes back to the top only for a task whose engine had not started; in
\* particular never for one whose flow has finished (_resume_via_engine).
FinishedNotRedriven == \A t \in Tasks : pc = "drive" /\ cur = t => ~finished[t]

\* A task the gate has accepted is not refused by a later restart (_register_task,
\* recovery): a row that is not terminal gets no refusal record.
AcceptedNotRefused ==
  [][\A t \in Tasks :
       row[t].status # "absent" /\ via # "rerun" => ledger'[t].reject = ledger[t].reject]_vars

\* _fail: a failed task reaches a terminal state even if git is unhappy; leaving the
\* handler of run_task for a process that is down takes a crash.
FailureReachesEnd == [][pc = "handler" /\ pc' = "down" => interrupts' > interrupts]_vars
=============================================================================
