----------------------------- MODULE RunRecord ------------------------------
(***************************************************************************)
(* What the orchestrator derives from a task's recorded verdicts: the       *)
(* verdict itself (core/flow/nodes/evaluator.py), which steps the supervisor *)
(* is shown (core/observe_cadence.py), the follow-ups no one fixed           *)
(* (core/follow_ups.py) and the bounded findings of the supervisor's packet  *)
(* (core/supervisor_packet.py); and the gate on a proposed split            *)
(* (core/decomposition.py). A finding is a model value; `Gating` holds those *)
(* at or above the node's gate severity, `Size` their length in the packet.  *)
(***************************************************************************)
EXTENDS Naturals, Sequences, FiniteSets

CONSTANTS
  Findings, Gating, Size,
  Blocking,          \* the evaluator gates without a budget of its own
  MaxReworkPerStage,
  GlobalMode, FlowMode,            \* supervisor.observe.mode, and the flow's own
  Triggers, Included,              \* supervisor.observe.triggers; include_nodes lists it
  FinalBudget, SupersededBudget, PacketBudget,
  MaxSubtasks

Whole == 0                         \* the subtask_order of a run that is not split
NoFlowMode == "unset"
NoteBudget == 1                    \* a superseded finding is cut to this length

Modes == {"none", "events", "selected", "all"}

ASSUME RunRecordAssumption ==
  /\ Gating \subseteq Findings /\ Size \in [Findings -> Nat \ {0}]
  /\ Blocking \in BOOLEAN /\ MaxReworkPerStage \in Nat
  /\ GlobalMode \in Modes /\ FlowMode \in Modes \cup {NoFlowMode}
  /\ Triggers \subseteq {"rework", "failure", "fallback"} /\ Included \in BOOLEAN
  /\ {FinalBudget, SupersededBudget, PacketBudget} \subseteq Nat
  /\ MaxSubtasks \in Nat

Elements(s) == {s[i] : i \in DOMAIN s}

-----------------------------------------------------------------------------
(* A proposed split: a sequence of units [order, deps].                     *)

Accepted(specs) ==
  /\ Len(specs) \in 2..MaxSubtasks
  /\ {specs[i].order : i \in DOMAIN specs} = 1..Len(specs)
  /\ \A i \in DOMAIN specs : specs[i].deps \subseteq 1..(specs[i].order - 1)

decide_decomposition(gate_on, specs) == gate_on /\ Accepted(specs)

-----------------------------------------------------------------------------
(* Verdicts. A row names the unit it judged and the findings it recorded; it *)
(* is live while its node run exists, that is until a fresh rerun.          *)

EvaluationRow(u, v, fs) == [unit |-> u, verdict |-> v, findings |-> fs, seen |-> FALSE,
                            live |-> TRUE]

\* The row an operator's budget reset leaves; it judges no unit.
NoUnit == MaxSubtasks + 1
ResetRow == EvaluationRow(NoUnit, "reset", <<>>)

RowsOf(evals, u) == {i \in DOMAIN evals : evals[i].unit = u}

InForce(evals, i) ==
  /\ evals[i].verdict = "rework" /\ evals[i].live
  /\ \A j \in RowsOf(evals, NoUnit) : j < i

count_rework_verdicts(evals, u) == Cardinality({i \in RowsOf(evals, u) : InForce(evals, i)})

Gates(fs) == \E f \in Elements(fs) : f \in Gating

\* A finding at the gate sends the unit back; a non-blocking gate only until its
\* own budget or the engine's refusal stops it.
verdict(evals, u, fs, refused) ==
  IF /\ Gates(fs)
     /\ Blocking \/ (count_rework_verdicts(evals, u) < MaxReworkPerStage /\ ~refused)
  THEN "rework" ELSE "accept"

rework_exhausted(row) == row.verdict = "accept" /\ Gates(row.findings)

-----------------------------------------------------------------------------
(* Which steps the supervisor is shown.                                     *)

resolve_mode == IF FlowMode = NoFlowMode THEN GlobalMode ELSE FlowMode

triggers_for(row, fell_back) ==
  (IF row.verdict = "rework" \/ rework_exhausted(row) THEN {"rework"} ELSE {})
    \cup (IF fell_back THEN {"fallback"} ELSE {})

should_observe(row, fell_back) ==
  \/ resolve_mode = "all"
  \/ resolve_mode = "selected" /\ Included
  \/ resolve_mode = "events" /\ triggers_for(row, fell_back) \cap Triggers # {}

-----------------------------------------------------------------------------
(* Follow-ups.                                                              *)

IsLast(evals, i) == \A j \in RowsOf(evals, evals[i].unit) : j <= i

FinalRows(evals) == {i \in DOMAIN evals \ RowsOf(evals, NoUnit) : IsLast(evals, i)}

\* Mutant: the findings of every verdict, superseded ones too.
evaluator_finding_follow_ups_Every(evals) ==
  UNION {{f \in Elements(evals[i].findings) :
            f \notin Gating \/ evals[i].verdict = "accept"} : i \in DOMAIN evals}

\* What the last verdict of each unit left open: all it recorded, except the
\* gating findings of a verdict that did not accept.
evaluator_finding_follow_ups(evals) ==
  UNION {{f \in Elements(evals[i].findings) :
            f \notin Gating \/ evals[i].verdict = "accept"} : i \in FinalRows(evals)}

\* Equal findings are one entry.
merge_follow_ups(primary, extra) == primary \cup extra

-----------------------------------------------------------------------------
(* The packet's findings, cut to budgets.                                   *)

PacketSize(f, final) == IF final THEN Size[f] ELSE IF Size[f] < NoteBudget THEN Size[f]
                                                   ELSE NoteBudget

Used(fs, final, k) ==
  LET sum[j \in 0..k] == IF j = 0 THEN 0 ELSE sum[j - 1] + PacketSize(fs[j], final)
  IN  sum[k]

\* How many leading findings fit; a final verdict keeps its first one whatever its size.
Kept(fs, final, budget) ==
  CHOOSE k \in 0..Len(fs) :
    /\ \A j \in 1..k : Used(fs, final, j) <= budget \/ (final /\ j = 1)
    /\ k < Len(fs) => ~(Used(fs, final, k + 1) <= budget \/ (final /\ k = 0))

\* Mutant: every verdict is cut to the superseded budget.
findings_entry_AllCut(fs, final, left) ==
  LET k == Kept(fs, FALSE, left) IN
  [kept |-> k, total |-> Len(fs), used |-> Used(fs, FALSE, k)]

findings_entry(fs, final, left) ==
  LET k == Kept(fs, final, IF final THEN FinalBudget ELSE left) IN
  [kept |-> k, total |-> Len(fs), used |-> IF final THEN 0 ELSE Used(fs, final, k)]

\* The steps of the run as it is: those of node runs that still exist.
PacketRows(evals) ==
  LET kept[i \in 0..Len(evals)] ==
        IF i = 0 THEN <<>>
        ELSE IF evals[i].live /\ evals[i].verdict # "reset"
             THEN Append(kept[i - 1], evals[i]) ELSE kept[i - 1]
  IN  kept[Len(evals)]

\* Each step's findings in order; a superseded one draws on what the packet has left.
steps(evals) ==
  LET run == PacketRows(evals)
      walk[i \in 0..Len(run)] ==
        IF i = 0 THEN [entries |-> <<>>, left |-> PacketBudget]
        ELSE LET before == walk[i - 1]
                 left == IF before.left < SupersededBudget THEN before.left
                         ELSE SupersededBudget
                 e == findings_entry(run[i].findings, i \in FinalRows(run), left)
             IN  [entries |-> Append(before.entries, e), left |-> before.left - e.used]
  IN  walk[Len(run)].entries
=============================================================================
