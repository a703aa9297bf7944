----------------------------- MODULE FlowEngine -----------------------------
(***************************************************************************)
(* The flow execution engine: one task's traversal of a validated flow     *)
(* graph (core/flow/engine.py), the fix budgets that bound it              *)
(* (core/loop_control.py, core/flow/run_state.py), the durable checkpoint  *)
(* (core/flow/recorder.py) and what survives a crash, a graceful stop, a   *)
(* park and an operator's `rerun --continue` (core/orchestrator.py).       *)
(*                                                                         *)
(* Two kinds of state are kept apart, because a crash tells them apart:    *)
(* what lives in the process (current_node, counters, the stall streaks,   *)
(* the outcome just produced) and what lives in state.db and on disk (the  *)
(* checkpoint ckpt, the recorded evaluator verdicts, the task's diff).     *)
(* A step is one half of an iteration of FlowEngine.run(): execute a node  *)
(* (which may record a verdict), then take an edge (which checkpoints).    *)
(***************************************************************************)
EXTENDS FlowGraph

CONSTANTS
  Advisory,          \* evaluators declared `blocking: false`
  MaxReworkPerStage, \* an advisory evaluator's max_rework_per_stage
  FactSkipped,       \* nodes whose `when` fact differs from what they ask for
  Region,            \* nodes this traversal may enter (Nodes: no region)
  MaxFixCycles,      \* agents.max_fix_cycles
  MaxTotalFix,       \* agents.max_total_fix_iterations
  Diffs,             \* abstract contents of current.diff
  Findings,          \* abstract findings lists of an evaluator
  NoFindings,        \* the empty one
  Gating,            \* the ones holding a finding at or above the gate severity
  MaxInterrupts,     \* bound: crashes, stops and parks explored
  MaxContinues       \* bound: operator `rerun --continue` calls explored

ASSUME EngineAssumption ==
  /\ Advisory \subseteq {n \in Nodes : Kind[n] = "evaluator"}
  /\ Region \subseteq Nodes
  /\ {MaxFixCycles, MaxTotalFix, MaxReworkPerStage, MaxInterrupts, MaxContinues} \subseteq Nat
  /\ NoFindings \in Findings
  /\ Gating \subseteq Findings \ {NoFindings}

\* Stand-ins for None; no node and no diff has this name.
NoDiff == "none"
NoNode == "none"

ASSUME NamesAssumption == NoNode \notin Nodes /\ NoDiff \notin Diffs

-----------------------------------------------------------------------------
(* Budgets. loop_counters is one dictionary with four families of keys: a    *)
(* loop's consecutive count under its bare name, its cumulative total, an    *)
(* inline-budget edge's count, and the global count under a reserved name.   *)

GlobalName == "global_fix_iterations"
GLOBAL_FIX_KEY == <<GlobalName>>
loop_key(l) == <<l>>
total_key(l) == <<"total_fix:", l>>
edge_key(e) == <<Edges[e].from, Edges[e].to, Edges[e].outcome>>

PreservedKeys == {GLOBAL_FIX_KEY} \cup {total_key(l) : l \in Loops}
Keys == PreservedKeys \cup {loop_key(l) : l \in Loops} \cup {edge_key(e) : e \in EdgeIds}

\* The reserved name is free when no loop of the flow is called by it.
ReservedNameFree == GlobalName \notin Loops

MinOf(a, b) == IF a <= b THEN a ELSE b

\* budgets.get(name, _LARGE) clamped by the configured cap.
Clamped(name, cap) == IF name \in DOMAIN budgets THEN MinOf(budgets[name], cap) ELSE cap

loop_cap(l) == Clamped(l, MaxFixCycles)
global_cap == Clamped(GlobalName, MaxTotalFix)

bump(c, k) == [c EXCEPT ![k] = @ + 1]

\* Mutant of reset_consecutive_fix_budget: the grant wipes the whole dictionary.
reset_consecutive_fix_budget_Wipes(c) == [k \in Keys |-> 0]

reset_consecutive_fix_budget(c) == [k \in Keys |-> IF k \in PreservedKeys THEN c[k] ELSE 0]

\* Mutant of rework_refusal: a loop or an inline budget gives one round too many.
rework_refusal_OneMore(c, e) ==
  IF Edges[e].loop # NoLoop /\ c[loop_key(Edges[e].loop)] > loop_cap(Edges[e].loop)
    THEN "max_fix_cycles"
  ELSE IF Edges[e].loop = NoLoop /\ Edges[e].budget # NoBudget
          /\ c[edge_key(e)] > Edges[e].budget
    THEN "budget"
  ELSE IF c[GLOBAL_FIX_KEY] >= global_cap
    THEN "max_total_fix_iterations"
  ELSE "none"

\* Which limit refuses one more pass of a rework/fail edge, "none" if none does.
rework_refusal(c, e) ==
  IF Edges[e].loop # NoLoop /\ c[loop_key(Edges[e].loop)] >= loop_cap(Edges[e].loop)
    THEN "max_fix_cycles"
  ELSE IF Edges[e].loop = NoLoop /\ Edges[e].budget # NoBudget
          /\ c[edge_key(e)] >= Edges[e].budget
    THEN "budget"
  ELSE IF c[GLOBAL_FIX_KEY] >= global_cap
    THEN "max_total_fix_iterations"
  ELSE "none"

\* Mutant of charge_rework: only named loops are accounted for.
charge_rework_LoopsOnly(c, e) ==
  LET l == Edges[e].loop
  IN  IF l # NoLoop THEN bump(bump(bump(c, GLOBAL_FIX_KEY), loop_key(l)), total_key(l)) ELSE c

\* The counters after an edge that was not refused: the global count, and the
\* loop's two counts or the inline edge's own.
charge_rework(c, e) ==
  LET g == bump(c, GLOBAL_FIX_KEY)
      l == Edges[e].loop
  IN  IF l # NoLoop THEN bump(bump(g, loop_key(l)), total_key(l))
      ELSE IF Edges[e].budget # NoBudget THEN bump(g, edge_key(e))
      ELSE g

\* Keys of the loops and inline budgets anchored at a node.
AnchoredLoops(n) == {Edges[e].loop : e \in {f \in Adjacency(n) : IsRework(f)}} \ {NoLoop}
AnchoredKeys(n) ==
  {loop_key(l) : l \in AnchoredLoops(n)} \cup
  {edge_key(e) : e \in {f \in Adjacency(n) :
      IsRework(f) /\ Edges[f].loop = NoLoop /\ Edges[f].budget # NoBudget}}

reset_loops_at(c, n) == [k \in Keys |-> IF k \in AnchoredKeys(n) THEN 0 ELSE c[k]]

\* The loops a resume from a node could meet already spent, and the backstop.
exhausted_fix_loops(c, start) ==
  {Edges[e].loop : e \in {f \in EdgeIds :
      /\ Edges[f].from \in reachable_nodes[start]
      /\ IsRework(f) /\ Edges[f].loop # NoLoop
      /\ c[loop_key(Edges[f].loop)] >= loop_cap(Edges[f].loop)}}
global_backstop_exhausted(c) == c[GLOBAL_FIX_KEY] >= global_cap

-----------------------------------------------------------------------------
VARIABLES
  \* in the process
  pc,            \* "top" | "ran" of run()'s loop; "stopped"; or how the run ended
  current_node,
  counters,
  outcome,       \* what the node just executed returned
  stall_fp,      \* [Loops -> Diffs \cup {NoDiff}]
  stall_streak,  \* [Loops -> Nat]
  stuck_at,      \* the node the run was parked at, NoNode if it was not
  \* durable
  ckpt,          \* [node, counters]: tasks.current_node, tasks.flow_run_counters
  diff,          \* <task-dir>/current.diff
  last_findings, \* per evaluator: findings of its latest recorded verdict
  repeats,       \* per evaluator: how many latest verdicts carry just those
  rework_count,  \* per evaluator: rework verdicts since the latest budget grant
  \* bounds and history
  interrupts, continues,
  reworks,       \* fix rounds this task was ever durably sent on (counted past the cap once)
  idle           \* per loop: rounds since start/reset without a change of diff

process == <<pc, current_node, counters, outcome, stall_fp, stall_streak, stuck_at>>
verdicts == <<last_findings, repeats, rework_count>>
vars == <<process, ckpt, diff, verdicts, interrupts, continues, reworks, idle>>

STALL_NO_CHANGE_LIMIT == 2
REPEATED_FINDINGS_LIMIT == 3
Window == 20

Outcomes == {"none", "done", "accept", "rework", "pass", "fail", "route:approve", "route:deny"}
Ended == {"done", "manual", "error"}

EmptyCounters == [k \in Keys |-> 0]
NoStall == /\ stall_fp' = [l \in Loops |-> NoDiff]
           /\ stall_streak' = [l \in Loops |-> 0]

TypeOK ==
  /\ pc \in {"top", "ran", "stopped"} \cup Ended
  /\ current_node \in Nodes \cup {NoNode}
  /\ pc \in {"top", "ran"} => current_node \in Nodes
  /\ counters \in [Keys -> Nat]
  /\ outcome \in Outcomes
  /\ stall_fp \in [Loops -> Diffs \cup {NoDiff}]
  /\ stall_streak \in [Loops -> 0..STALL_NO_CHANGE_LIMIT]
  /\ stuck_at \in Nodes \cup {NoNode}
  /\ ckpt \in [node : Nodes, counters : [Keys -> Nat]]
  /\ diff \in Diffs
  /\ last_findings \in [Nodes -> Findings]
  /\ repeats \in [Nodes -> 0..Window]
  /\ rework_count \in [Nodes -> Nat]
  /\ interrupts \in 0..MaxInterrupts
  /\ continues \in 0..MaxContinues
  /\ reworks \in Nat
  /\ idle \in [Loops -> Nat]

\* phase(entry): the checkpoint is seeded at the entry node before it runs.
Init ==
  /\ pc = "stopped" /\ current_node = NoNode /\ counters = EmptyCounters /\ outcome = "none"
  /\ stall_fp = [l \in Loops |-> NoDiff] /\ stall_streak = [l \in Loops |-> 0]
  /\ stuck_at = NoNode
  /\ ckpt = [node |-> entry_node_id, counters |-> EmptyCounters]
  /\ diff \in Diffs
  /\ last_findings = [n \in Nodes |-> NoFindings]
  /\ repeats = [n \in Nodes |-> 0] /\ rework_count = [n \in Nodes |-> 0]
  /\ interrupts = 0 /\ continues = 0 /\ reworks = 0 /\ idle = [l \in Loops |-> 0]

-----------------------------------------------------------------------------
(* Entering and leaving the process. *)

\* A (re)start hydrates the run state from the checkpoint; the stall streaks are
\* in-memory only and start empty.
Resume ==
  /\ pc = "stopped"
  /\ pc' = "top"
  /\ current_node' = ckpt.node /\ counters' = ckpt.counters
  /\ NoStall /\ idle' = [l \in Loops |-> 0]
  /\ UNCHANGED <<outcome, stuck_at, ckpt, diff, verdicts, interrupts, continues, reworks>>

LoseMemory ==
  /\ pc' = "stopped" /\ current_node' = NoNode /\ counters' = EmptyCounters
  /\ outcome' = "none" /\ NoStall /\ idle' = [l \in Loops |-> 0]
  /\ UNCHANGED stuck_at

\* A graceful stop, seen between two nodes: checkpoint, then FlowCancelled.
Cancel ==
  /\ pc = "top" /\ interrupts < MaxInterrupts
  /\ interrupts' = interrupts + 1
  /\ ckpt' = [node |-> current_node, counters |-> counters]
  /\ LoseMemory
  /\ UNCHANGED <<diff, verdicts, continues, reworks>>

\* A crash at any point, or a node that raises because no provider could run it
\* (the task is parked): nothing is checkpointed.
Interrupt ==
  /\ pc \in {"top", "ran"} /\ interrupts < MaxInterrupts
  /\ interrupts' = interrupts + 1
  /\ LoseMemory
  /\ UNCHANGED <<ckpt, diff, verdicts, continues, reworks>>

\* `rerun --continue` of a parked task, with the CLI's refusals: a spent loop
\* ahead needs --reset-fix-budget, and a grant is pointless under a spent backstop.
Continue(reset, from) ==
  LET start == IF from = NoNode THEN ckpt.node ELSE from
  IN  /\ pc = "manual" /\ continues < MaxContinues
      /\ exhausted_fix_loops(ckpt.counters, start) # {} => reset
      /\ reset => ~global_backstop_exhausted(ckpt.counters)
      /\ continues' = continues + 1
      /\ ckpt' = [node |-> start,
                  counters |-> IF reset THEN reset_consecutive_fix_budget(ckpt.counters)
                               ELSE ckpt.counters]
      /\ rework_count' = IF reset THEN [n \in Nodes |-> 0] ELSE rework_count
      /\ stuck_at' = NoNode
      /\ pc' = "stopped" /\ current_node' = NoNode /\ counters' = EmptyCounters
      /\ outcome' = "none" /\ NoStall /\ idle' = [l \in Loops |-> 0]
      /\ UNCHANGED <<diff, last_findings, repeats, interrupts, reworks>>

-----------------------------------------------------------------------------
(* _execute_node: skip the node, or let its runner produce an outcome. *)

should_skip(n) == n \in Disabled \cup FactSkipped

Ran(o) == /\ pc' = "ran" /\ outcome' = o
          /\ UNCHANGED <<current_node, counters, stall_fp, stall_streak, stuck_at, ckpt,
                         interrupts, continues, reworks>>

SkipNode ==
  /\ pc = "top" /\ should_skip(current_node)
  /\ Ran(skip_outcome(current_node))
  /\ UNCHANGED <<diff, verdicts, idle>>

\* An agent edits the tree (or not) and refreshes current.diff.
RunAgent(d) ==
  /\ pc = "top" /\ ~should_skip(current_node) /\ Kind[current_node] = "agent"
  /\ Ran("done")
  /\ diff' = d
  /\ idle' = IF d = diff THEN idle ELSE [l \in Loops |-> 0]
  /\ UNCHANGED verdicts

OutcomesOf(kind) ==
  CASE kind \in {"checks", "tool"} -> {"pass", "fail"}
    [] kind = "approval"           -> {"route:approve", "route:deny"}
    [] OTHER                       -> {"done"}

RunDeterministic(o) ==
  /\ pc = "top" /\ ~should_skip(current_node)
  /\ Kind[current_node] \notin {"agent", "evaluator"}
  /\ o \in OutcomesOf(Kind[current_node])
  /\ Ran(o)
  /\ UNCHANGED <<diff, verdicts, idle>>

\* Some rework edge of the node is already refused, so another round cannot start.
node_rework_refusal(c, n) ==
  \E e \in Adjacency(n) : Edges[e].outcome = "rework" /\ rework_refusal(c, e) # "none"

\* Mutant of verdict: an advisory evaluator looks at its own budget only.
verdict_OwnBudgetOnly(n, f) ==
  IF f \notin Gating THEN "accept"
  ELSE IF n \notin Advisory \/ rework_count[n] < MaxReworkPerStage THEN "rework"
  ELSE "accept"

\* A blocking evaluator with gating findings always asks for rework; an advisory one
\* only while its own budget and the engine's limits leave a round to give.
verdict(n, f) ==
  IF f \notin Gating THEN "accept"
  ELSE IF n \notin Advisory THEN "rework"
  ELSE IF rework_count[n] < MaxReworkPerStage /\ ~node_rework_refusal(counters, n)
    THEN "rework"
  ELSE "accept"

RunEvaluator(f) ==
  LET n == current_node
  IN  /\ pc = "top" /\ ~should_skip(n) /\ Kind[n] = "evaluator"
      /\ Ran(verdict(n, f))
      /\ last_findings' = [last_findings EXCEPT ![n] = f]
      /\ repeats' = [repeats EXCEPT ![n] =
                       IF f = last_findings[n] THEN MinOf(@ + 1, Window) ELSE 1]
      /\ rework_count' = [rework_count EXCEPT ![n] =
                            IF verdict(n, f) = "rework" THEN @ + 1 ELSE @]
      /\ UNCHANGED <<diff, idle>>

\* How many of a node's latest verdicts repeat the same non-empty findings.
consecutive_identical_findings(n) == IF last_findings[n] = NoFindings THEN 0 ELSE repeats[n]

-----------------------------------------------------------------------------
(* Taking an edge: stall guards, then budgets, then the checkpoint. *)

\* The stall guards apply to a named loop left from anything but an advisory evaluator.
StallChecked(n, e) == Edges[e].loop # NoLoop /\ n \notin Advisory

\* Mutant of NextStreak: the streak is not advanced.
NextStreak_Stuck(l) == IF stall_fp[l] = diff THEN stall_streak[l] ELSE 0

NextStreak(l) == IF stall_fp[l] = diff THEN stall_streak[l] + 1 ELSE 0

Stalled(n, e) ==
  /\ StallChecked(n, e)
  /\ \/ NextStreak(Edges[e].loop) >= STALL_NO_CHANGE_LIMIT
     \/ consecutive_identical_findings(n) >= REPEATED_FINDINGS_LIMIT

\* Mutant of UpdateStall: a changed diff does not restart the streak.
UpdateStall_NoRestart(n, e) ==
  LET l == Edges[e].loop
  IN  IF StallChecked(n, e)
      THEN /\ stall_streak' = [stall_streak EXCEPT ![l] = @ + 1]
           /\ stall_fp' = [stall_fp EXCEPT ![l] = diff]
      ELSE UNCHANGED <<stall_fp, stall_streak>>

UpdateStall(n, e) ==
  LET l == Edges[e].loop
  IN  IF StallChecked(n, e)
      THEN /\ stall_streak' = [stall_streak EXCEPT ![l] = NextStreak(l)]
           /\ stall_fp' = [stall_fp EXCEPT ![l] = diff]
      ELSE UNCHANGED <<stall_fp, stall_streak>>

save_checkpoint == ckpt' = [node |-> current_node', counters |-> counters']

\* Moving along an edge ends the traversal when it leaves the region.
MoveTo(m) == /\ current_node' = m
             /\ pc' = IF m \in Region THEN "top" ELSE "done"

\* A node without outgoing edges ends the run.
Finish ==
  /\ pc = "ran" /\ Adjacency(current_node) = {}
  /\ pc' = "done" /\ UNCHANGED <<current_node, counters>>
  /\ save_checkpoint
  /\ UNCHANGED <<outcome, stall_fp, stall_streak, stuck_at, diff, verdicts, interrupts,
                 continues, reworks, idle>>

\* EngineInternalError: the outcome has no edge.
Mismatch ==
  /\ pc = "ran" /\ Adjacency(current_node) # {} /\ Matching(current_node, outcome) = {}
  /\ pc' = "error"
  /\ UNCHANGED <<current_node, counters, outcome, stall_fp, stall_streak, stuck_at, ckpt, diff,
                 verdicts, interrupts, continues, reworks, idle>>

\* A forward edge resolves every loop anchored at the node it leaves.
TakeForward ==
  LET n == current_node
      e == select_edge(n, outcome)
  IN  /\ pc = "ran" /\ Matching(n, outcome) # {} /\ ~IsRework(e)
      /\ counters' = reset_loops_at(counters, n)
      /\ stall_fp' = [l \in Loops |-> IF l \in AnchoredLoops(n) THEN NoDiff ELSE stall_fp[l]]
      /\ stall_streak' = [l \in Loops |-> IF l \in AnchoredLoops(n) THEN 0 ELSE stall_streak[l]]
      /\ idle' = [l \in Loops |-> IF l \in AnchoredLoops(n) THEN 0 ELSE idle[l]]
      /\ MoveTo(Edges[e].to) /\ save_checkpoint /\ outcome' = "none"
      /\ UNCHANGED <<stuck_at, diff, verdicts, interrupts, continues, reworks>>

TakeRework ==
  LET n == current_node
      e == select_edge(n, outcome)
  IN  /\ pc = "ran" /\ Matching(n, outcome) # {} /\ IsRework(e)
      /\ ~Stalled(n, e) /\ rework_refusal(counters, e) = "none"
      /\ UpdateStall(n, e)
      /\ counters' = charge_rework(counters, e)
      /\ reworks' = MinOf(reworks + 1, global_cap + 1)
      /\ idle' = IF StallChecked(n, e) THEN [idle EXCEPT ![Edges[e].loop] = @ + 1] ELSE idle
      /\ MoveTo(Edges[e].to) /\ save_checkpoint /\ outcome' = "none"
      /\ UNCHANGED <<stuck_at, diff, verdicts, interrupts, continues>>

\* A stalled loop or a spent budget parks the task: nothing is charged.
Park ==
  LET n == current_node
      e == select_edge(n, outcome)
  IN  /\ pc = "ran" /\ Matching(n, outcome) # {} /\ IsRework(e)
      /\ Stalled(n, e) \/ rework_refusal(counters, e) # "none"
      /\ UpdateStall(n, e)
      /\ pc' = "manual" /\ stuck_at' = n /\ UNCHANGED <<current_node, counters>>
      /\ save_checkpoint
      /\ UNCHANGED <<outcome, diff, verdicts, interrupts, continues, reworks, idle>>

-----------------------------------------------------------------------------
TakeEdge == Finish \/ Mismatch \/ TakeForward \/ TakeRework \/ Park

ExecuteNode ==
  \/ SkipNode
  \/ \E d \in Diffs : RunAgent(d)
  \/ \E o \in Outcomes : RunDeterministic(o)
  \/ \E f \in Findings : RunEvaluator(f)

Next ==
  \/ Resume \/ Cancel \/ Interrupt
  \/ \E reset \in BOOLEAN, from \in Nodes \cup {NoNode} : Continue(reset, from)
  \/ ExecuteNode \/ TakeEdge

Spec == Init /\ [][Next]_vars

\* The process makes progress while it runs, a stopped task is resumed by the watch
\* loop, and every node runner returns (providers run under a timeout).
FairSpec == Spec /\ WF_vars(Resume) /\ WF_vars(ExecuteNode) /\ WF_vars(TakeEdge)
-----------------------------------------------------------------------------
(* Properties. *)

InlineEdges == {e \in EdgeIds : Edges[e].loop = NoLoop /\ Edges[e].budget # NoBudget}

WithinBudgets(c) ==
  /\ \A l \in Loops : c[loop_key(l)] <= loop_cap(l)
  /\ \A e \in InlineEdges :
       \E f \in InlineEdges : edge_key(f) = edge_key(e) /\ c[edge_key(e)] <= Edges[f].budget

\* No loop, inline budget or backstop is ever overspent, in the process or in the
\* checkpoint, whatever the order of crashes, stops, parks and --continue grants
\* (engine.py, _charge_rework: "a budget of N is N fix rounds").
BudgetsRespected == WithinBudgets(counters) /\ WithinBudgets(ckpt.counters)

\* The backstop counts every fix round the task was ever durably sent on, and caps
\* them: no crash forgets a round, no grant and no converged loop gives one back
\* (orchestrator.py, _apply_continue_controls: "the max_total_fix_iterations backstop
\* is never weakened, even across repeated grants").
BackstopCountsEveryRound ==
  /\ reworks = ckpt.counters[GLOBAL_FIX_KEY]
  /\ reworks <= global_cap

\* A non-blocking evaluator never parks the task: it "accepts instead of parking ...
\* the one promise that node kind makes" (engine.py, run).
AdvisoryNeverParks == stuck_at \notin Advisory

\* In one process life a named loop is never sent on more than STALL_NO_CHANGE_LIMIT
\* rounds while the task's diff stays as it is (engine.py, _check_no_file_change).
NoIdleRounds == \A l \in Loops : idle[l] <= STALL_NO_CHANGE_LIMIT

\* Each outcome that a node may have without a human in it has an edge. The validator
\* asks this of the nodes a task disables (validate_disabled_nodes) and of no others,
\* so it is up to the author of a flow.
AutomaticOutcomes(n) ==
  IF n \in FactSkipped THEN {skip_outcome(n)}
  ELSE IF Kind[n] = "evaluator" THEN {"accept", "rework"}
  ELSE OutcomesOf(Kind[n]) \ RouteOutcomes
EdgesComplete ==
  \A n \in Nodes \ (Terminals \cup Disabled) : \A o \in AutomaticOutcomes(n) : Matching(n, o) # {}

\* In a flow whose edges are complete the run ends in EngineInternalError ("Outcome is a
\* subset of declared edges", engine.py) only on a human's answer: the outcome of every
\* other node, skipped ones included, has an edge to take.
UndeclaredOnlyByHuman == pc = "error" => outcome \in RouteOutcomes

\* The engine's bounded termination: the run reaches a terminal node or is parked.
Terminates == <>[](pc \in Ended)

\* Every traversal ends, and in an error only where a human's answer has no edge.
EndsAsDeclared == Terminates /\ []UndeclaredOnlyByHuman
=============================================================================
