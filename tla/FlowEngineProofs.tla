-------------------------- MODULE FlowEngineProofs --------------------------
(***************************************************************************)
(* Theorems about the flow engine for every flow graph the validator       *)
(* accepts, every budget and every configuration: type correctness, the    *)
(* fix budgets, the global backstop, the promise of advisory evaluators    *)
(* and the no-change stall guard.                                          *)
(***************************************************************************)
EXTENDS FlowEngine, TLAPS, WellFoundedInduction

-----------------------------------------------------------------------------
(* Facts about the graph. *)

\* The edges of a flow are records of the declared type.
LEMMA EdgeTyped == ASSUME NEW e \in EdgeIds
                   PROVE  /\ Edges[e] \in EdgeType
                          /\ e \in Nat
                          /\ Edges[e].from \in Nodes /\ Edges[e].to \in Nodes
                          /\ Edges[e].loop # NoLoop => Edges[e].loop \in Loops
                          /\ Edges[e].budget \in Nat \cup {NoBudget}
<1>1. Edges \in Seq(EdgeType)
  BY FlowTyped
<1>2. Edges[e] \in EdgeType /\ e \in Nat
  BY <1>1 DEF EdgeIds
<1>3. Edges[e].from \in Nodes /\ Edges[e].to \in Nodes
  BY FlowValidated DEF check_graph, EdgesResolve
<1>4. Edges[e].loop # NoLoop => Edges[e].loop \in Loops
  BY DEF Loops
<1>5. Edges[e].budget \in Nat \cup {NoBudget}
  BY <1>2 DEF EdgeType
<1>. QED BY <1>2, <1>3, <1>4, <1>5

\* The entry node of a validated flow is one of its nodes.
LEMMA EntryInNodes == entry_node_id \in Nodes
<1>1. PICK n \in Nodes : Entries = {n}
  BY FlowValidated DEF check_graph, OneEntry
<1>2. \A x \in Entries : x \in Nodes
  BY <1>1
<1>3. entry_node_id \in Entries
  BY <1>1 DEF entry_node_id
<1>. QED BY <1>2, <1>3

\* When some edge matches an outcome, select_edge returns a matching edge of the node.
LEMMA SelectMatches == ASSUME NEW n, NEW o, Matching(n, o) # {}
                       PROVE  /\ select_edge(n, o) \in Matching(n, o)
                              /\ select_edge(n, o) \in Adjacency(n)
                              /\ select_edge(n, o) \in EdgeIds
<1> DEFINE M == Matching(n, o)
<1>1. M \subseteq Adjacency(n) /\ M \subseteq EdgeIds
  BY DEF Matching, Adjacency, adjacency
<1>2. M \subseteq Nat
  BY <1>1, EdgeTyped
<1>3. PICK x \in M : \A y \in M : ~(<<y, x>> \in OpToRel(<, Nat))
  <2> HIDE DEF M
  <2>. QED BY <1>2, WFMin, NatLessThanWellFounded DEF M
<1>4. \A y \in M : x <= y
  <2>. TAKE y \in M
  <2>1. x \in Nat /\ y \in Nat
    BY <1>2
  <2>2. ~(y < x)
    <3>1. <<y, x>> \in Nat \X Nat
      BY <2>1
    <3>. QED BY <1>3, <3>1 DEF OpToRel
  <2>. QED BY <2>1, <2>2
<1>5. select_edge(n, o) \in M
  <2>1. \E e \in M : \A f \in M : e <= f
    BY <1>4
  <2>. QED BY <2>1 DEF select_edge
<1>. QED BY <1>1, <1>5

-----------------------------------------------------------------------------
(* Facts about the counters dictionary. *)

\* Every key the engine reads or writes is a key of the dictionary.
LEMMA KeysPresent == /\ GLOBAL_FIX_KEY \in Keys
                     /\ \A l \in Loops : loop_key(l) \in Keys /\ total_key(l) \in Keys
                     /\ \A e \in EdgeIds : edge_key(e) \in Keys
BY DEF Keys, PreservedKeys

\* The four families of keys do not meet when the reserved name is free.
LEMMA KeysDistinct ==
  /\ \A l, m : loop_key(l) # total_key(m)
  /\ \A l : \A e \in EdgeIds : loop_key(l) # edge_key(e) /\ total_key(l) # edge_key(e)
  /\ \A l : GLOBAL_FIX_KEY # total_key(l)
  /\ \A e \in EdgeIds : GLOBAL_FIX_KEY # edge_key(e)
  /\ \A l, m : loop_key(l) = loop_key(m) => l = m
  /\ ReservedNameFree => \A l \in Loops : loop_key(l) # GLOBAL_FIX_KEY
BY DEF loop_key, total_key, edge_key, GLOBAL_FIX_KEY, ReservedNameFree

\* The effective caps are natural numbers.
LEMMA CapsNat == global_cap \in Nat /\ \A l \in Loops : loop_cap(l) \in Nat
BY FlowTyped, EngineAssumption DEF global_cap, loop_cap, Clamped, MinOf

\* Bumping a key adds one there and nothing elsewhere.
LEMMA BumpTyped == ASSUME NEW c \in [Keys -> Nat], NEW k \in Keys
                   PROVE  /\ bump(c, k) \in [Keys -> Nat]
                          /\ \A j \in Keys : bump(c, k)[j] = IF j = k THEN c[j] + 1 ELSE c[j]
BY DEF bump

\* What a charged edge does to the dictionary: the global count always grows by one,
\* the edge's loop or inline count grows by one, no other consecutive count moves.
LEMMA ChargeEffect ==
  ASSUME NEW c \in [Keys -> Nat], NEW e \in EdgeIds
  PROVE  /\ charge_rework(c, e) \in [Keys -> Nat]
         /\ ReservedNameFree =>
              /\ charge_rework(c, e)[GLOBAL_FIX_KEY] = c[GLOBAL_FIX_KEY] + 1
              /\ \A l \in Loops : charge_rework(c, e)[loop_key(l)] =
                   IF l = Edges[e].loop THEN c[loop_key(l)] + 1 ELSE c[loop_key(l)]
              /\ \A f \in EdgeIds : charge_rework(c, e)[edge_key(f)] =
                   IF e \in InlineEdges /\ edge_key(f) = edge_key(e)
                   THEN c[edge_key(f)] + 1 ELSE c[edge_key(f)]
<1> DEFINE l == Edges[e].loop
           g == bump(c, GLOBAL_FIX_KEY)
           h == bump(g, loop_key(l))
<1>1. /\ g \in [Keys -> Nat]
      /\ \A j \in Keys : g[j] = IF j = GLOBAL_FIX_KEY THEN c[j] + 1 ELSE c[j]
  BY KeysPresent, BumpTyped
<1>2. CASE l # NoLoop
  <2>1. l \in Loops
    BY <1>2, EdgeTyped
  <2>2. /\ h \in [Keys -> Nat]
        /\ \A j \in Keys : h[j] = IF j = loop_key(l) THEN g[j] + 1 ELSE g[j]
    BY <1>1, <2>1, KeysPresent, BumpTyped
  <2>3. /\ bump(h, total_key(l)) \in [Keys -> Nat]
        /\ \A j \in Keys : bump(h, total_key(l))[j] =
                             IF j = total_key(l) THEN h[j] + 1 ELSE h[j]
    BY <2>1, <2>2, KeysPresent, BumpTyped
  <2>4. charge_rework(c, e) = bump(h, total_key(l))
    BY <1>2 DEF charge_rework
  <2>5. e \notin InlineEdges
    BY <1>2 DEF InlineEdges
  <2> HIDE DEF l, g, h
  <2>6. ASSUME ReservedNameFree, NEW m \in Loops
        PROVE  charge_rework(c, e)[loop_key(m)] =
                 IF m = l THEN c[loop_key(m)] + 1 ELSE c[loop_key(m)]
    BY <1>1, <2>1, <2>2, <2>3, <2>4, <2>6, KeysPresent, KeysDistinct
  <2>7. ASSUME ReservedNameFree
        PROVE  charge_rework(c, e)[GLOBAL_FIX_KEY] = c[GLOBAL_FIX_KEY] + 1
    BY <1>1, <2>1, <2>2, <2>3, <2>4, <2>7, KeysPresent, KeysDistinct
  <2>8. ASSUME ReservedNameFree, NEW f \in EdgeIds
        PROVE  charge_rework(c, e)[edge_key(f)] = c[edge_key(f)]
    BY <1>1, <2>1, <2>2, <2>3, <2>4, <2>8, KeysPresent, KeysDistinct
  <2>. QED BY <2>3, <2>4, <2>5, <2>6, <2>7, <2>8 DEF l
<1>3. CASE l = NoLoop /\ Edges[e].budget # NoBudget
  <2>1. e \in InlineEdges
    BY <1>3 DEF InlineEdges
  <2>2. charge_rework(c, e) = bump(g, edge_key(e))
    BY <1>3 DEF charge_rework
  <2>3. /\ bump(g, edge_key(e)) \in [Keys -> Nat]
        /\ \A j \in Keys : bump(g, edge_key(e))[j] =
                             IF j = edge_key(e) THEN g[j] + 1 ELSE g[j]
    BY <1>1, KeysPresent, BumpTyped
  <2>4. \A m \in Loops : m # l
    BY <1>3 DEF Loops
  <2> HIDE DEF g, l
  <2>. QED BY <1>1, <2>1, <2>2, <2>3, <2>4, KeysPresent, KeysDistinct DEF l
<1>4. CASE l = NoLoop /\ Edges[e].budget = NoBudget
  <2>1. e \notin InlineEdges
    BY <1>4 DEF InlineEdges
  <2>2. charge_rework(c, e) = g
    BY <1>4 DEF charge_rework
  <2>3. \A m \in Loops : m # l
    BY <1>4 DEF Loops
  <2> HIDE DEF g, l
  <2>. QED BY <1>1, <2>1, <2>2, <2>3, KeysPresent, KeysDistinct DEF l
<1>. QED BY <1>2, <1>3, <1>4

\* Resets keep the dictionary typed and never raise a count.
LEMMA ResetEffect ==
  ASSUME NEW c \in [Keys -> Nat]
  PROVE  /\ reset_consecutive_fix_budget(c) \in [Keys -> Nat]
         /\ \A k \in Keys : reset_consecutive_fix_budget(c)[k] \in {0, c[k]}
         /\ reset_consecutive_fix_budget(c)[GLOBAL_FIX_KEY] = c[GLOBAL_FIX_KEY]
         /\ \A n : reset_loops_at(c, n) \in [Keys -> Nat]
         /\ \A n : \A k \in Keys : reset_loops_at(c, n)[k] \in {0, c[k]}
         /\ ReservedNameFree =>
              \A n : reset_loops_at(c, n)[GLOBAL_FIX_KEY] = c[GLOBAL_FIX_KEY]
<1>1. /\ reset_consecutive_fix_budget(c) \in [Keys -> Nat]
      /\ \A k \in Keys : reset_consecutive_fix_budget(c)[k] \in {0, c[k]}
  BY DEF reset_consecutive_fix_budget
<1>2. reset_consecutive_fix_budget(c)[GLOBAL_FIX_KEY] = c[GLOBAL_FIX_KEY]
  BY DEF reset_consecutive_fix_budget, Keys, PreservedKeys
<1>3. ASSUME NEW n
      PROVE  /\ reset_loops_at(c, n) \in [Keys -> Nat]
             /\ \A k \in Keys : reset_loops_at(c, n)[k] \in {0, c[k]}
  BY DEF reset_loops_at
<1>4. ASSUME ReservedNameFree, NEW n
      PROVE  GLOBAL_FIX_KEY \notin AnchoredKeys(n)
  <2>1. AnchoredLoops(n) \subseteq Loops
    BY DEF AnchoredLoops, Loops, Adjacency, adjacency
  <2>. QED BY <1>4, <2>1, KeysDistinct DEF AnchoredKeys, Adjacency, adjacency
<1>5. ASSUME ReservedNameFree, NEW n
      PROVE  reset_loops_at(c, n)[GLOBAL_FIX_KEY] = c[GLOBAL_FIX_KEY]
  BY <1>4, <1>5, KeysPresent DEF reset_loops_at
<1>. QED BY <1>1, <1>2, <1>3, <1>5

-----------------------------------------------------------------------------
(* Type correctness. TypeOK bounds the stall streak by its limit, which is   *)
(* inductive only with the fact that a running traversal is still below it.  *)

Running == pc \in {"top", "ran"}

StreakBelowLimit == Running => \A l \in Loops : stall_streak[l] < STALL_NO_CHANGE_LIMIT

TypeInv == TypeOK /\ StreakBelowLimit

\* The engine's types hold initially.
LEMMA InitType == Init => TypeInv
BY EntryInNodes, EngineAssumption
   DEF Init, TypeInv, TypeOK, StreakBelowLimit, Running, EmptyCounters, Ended, Outcomes,
       STALL_NO_CHANGE_LIMIT, Window

\* Every step of the engine preserves the types.
LEMMA NextType == TypeInv /\ [Next]_vars => TypeInv'
<1> SUFFICES ASSUME TypeInv, [Next]_vars PROVE TypeInv'
  OBVIOUS
<1> USE EngineAssumption DEF TypeInv, TypeOK, StreakBelowLimit, Running, Ended, Outcomes,
       STALL_NO_CHANGE_LIMIT, Window, process, verdicts, vars
<1>1. CASE Resume
  BY <1>1 DEF Resume, NoStall
<1>2. CASE Cancel
  BY <1>2 DEF Cancel, LoseMemory, NoStall, EmptyCounters
<1>3. CASE Interrupt
  BY <1>3 DEF Interrupt, LoseMemory, NoStall, EmptyCounters
<1>4. ASSUME NEW reset \in BOOLEAN, NEW from \in Nodes \cup {NoNode}, Continue(reset, from)
      PROVE  TypeInv'
  <2>1. reset_consecutive_fix_budget(ckpt.counters) \in [Keys -> Nat]
    BY ResetEffect
  <2>. QED BY <1>4, <2>1 DEF Continue, NoStall, EmptyCounters
<1>5. CASE SkipNode
  BY <1>5 DEF SkipNode, Ran, skip_outcome
<1>6. ASSUME NEW d \in Diffs, RunAgent(d) PROVE TypeInv'
  BY <1>6 DEF RunAgent, Ran
<1>7. ASSUME NEW o \in Outcomes, RunDeterministic(o) PROVE TypeInv'
  BY <1>7 DEF RunDeterministic, Ran
<1>8. ASSUME NEW f \in Findings, RunEvaluator(f) PROVE TypeInv'
  <2>1. verdict(current_node, f) \in {"accept", "rework"}
    BY DEF verdict
  <2>2. repeats' \in [Nodes -> 0..Window]
    BY <1>8 DEF RunEvaluator, MinOf
  <2>. QED BY <1>8, <2>1, <2>2 DEF RunEvaluator, Ran
<1>9. CASE Finish
  BY <1>9 DEF Finish, save_checkpoint
<1>10. CASE Mismatch
  BY <1>10 DEF Mismatch
<1>11. CASE TakeForward
  <2>1. select_edge(current_node, outcome) \in EdgeIds
    BY <1>11, SelectMatches DEF TakeForward
  <2>2. Edges[select_edge(current_node, outcome)].to \in Nodes
    BY <2>1, EdgeTyped
  <2>3. reset_loops_at(counters, current_node) \in [Keys -> Nat]
    BY ResetEffect
  <2>. QED BY <1>11, <2>2, <2>3 DEF TakeForward, MoveTo, save_checkpoint
<1>12. CASE TakeRework
  <2> DEFINE e == select_edge(current_node, outcome)
  <2>1. e \in EdgeIds
    BY <1>12, SelectMatches DEF TakeRework
  <2>2. Edges[e].to \in Nodes /\ (Edges[e].loop # NoLoop => Edges[e].loop \in Loops)
    BY <2>1, EdgeTyped
  <2>3. charge_rework(counters, e) \in [Keys -> Nat]
    BY <2>1, ChargeEffect
  <2>4. ~Stalled(current_node, e) /\ UpdateStall(current_node, e)
    BY <1>12 DEF TakeRework
  <2>5. /\ stall_streak' \in [Loops -> 0..STALL_NO_CHANGE_LIMIT]
        /\ \A l \in Loops : stall_streak'[l] < STALL_NO_CHANGE_LIMIT
        /\ stall_fp' \in [Loops -> Diffs \cup {NoDiff}]
    <3> HIDE DEF e
    <3>. QED BY <1>12, <2>2, <2>4 DEF TakeRework, Stalled, UpdateStall, StallChecked, NextStreak
  <2>6. reworks' \in Nat
    BY <1>12, CapsNat DEF TakeRework, MinOf
  <2>. QED BY <1>12, <2>2, <2>3, <2>5, <2>6 DEF TakeRework, MoveTo, save_checkpoint, StallChecked
<1>13. CASE Park
  <2> DEFINE e == select_edge(current_node, outcome)
  <2>1. e \in EdgeIds
    BY <1>13, SelectMatches DEF Park
  <2>2. Edges[e].loop # NoLoop => Edges[e].loop \in Loops
    BY <2>1, EdgeTyped
  <2>3. UpdateStall(current_node, e)
    BY <1>13 DEF Park
  <2>4. /\ stall_streak' \in [Loops -> 0..STALL_NO_CHANGE_LIMIT]
        /\ stall_fp' \in [Loops -> Diffs \cup {NoDiff}]
    <3> HIDE DEF e
    <3>. QED BY <1>13, <2>2, <2>3 DEF Park, UpdateStall, StallChecked, NextStreak
  <2>. QED BY <1>13, <2>4 DEF Park, save_checkpoint
<1>14. CASE UNCHANGED vars
  BY <1>14
<1>. QED BY <1>1, <1>2, <1>3, <1>4, <1>5, <1>6, <1>7, <1>8, <1>9, <1>10, <1>11, <1>12, <1>13,
            <1>14 DEF Next, ExecuteNode, TakeEdge

\* The engine's state keeps its types for every flow, budget and bound.
THEOREM TypeCorrect == Spec => []TypeOK
<1>1. Init => TypeInv
  BY InitType
<1>2. TypeInv /\ [Next]_vars => TypeInv'
  BY NextType
<1>3. TypeInv => TypeOK
  BY DEF TypeInv
<1>. QED BY <1>1, <1>2, <1>3, PTL DEF Spec

-----------------------------------------------------------------------------
(* The fix budgets. *)

\* A charge that was not refused keeps every loop and inline budget.
LEMMA ChargeWithinBudgets ==
  ASSUME ReservedNameFree, NEW c \in [Keys -> Nat], NEW e \in EdgeIds,
         WithinBudgets(c), rework_refusal(c, e) = "none"
  PROVE  WithinBudgets(charge_rework(c, e))
<1> DEFINE d == charge_rework(c, e)
<1>1. ASSUME NEW l \in Loops
      PROVE  d[loop_key(l)] <= loop_cap(l)
  <2>1. c[loop_key(l)] \in Nat /\ c[loop_key(l)] <= loop_cap(l) /\ loop_cap(l) \in Nat
    BY KeysPresent, CapsNat DEF WithinBudgets
  <2>2. CASE l = Edges[e].loop
    <3>1. l # NoLoop
      BY DEF Loops
    <3>2. c[loop_key(l)] < loop_cap(l)
      BY <2>1, <2>2, <3>1 DEF rework_refusal
    <3>3. d[loop_key(l)] = c[loop_key(l)] + 1
      BY <2>2, ChargeEffect
    <3> HIDE DEF d
    <3>. QED BY <2>1, <3>2, <3>3
  <2>3. CASE l # Edges[e].loop
    BY <2>1, <2>3, ChargeEffect
  <2>. QED BY <2>2, <2>3
<1>2. ASSUME NEW g \in InlineEdges
      PROVE  \E f \in InlineEdges : edge_key(f) = edge_key(g) /\ d[edge_key(g)] <= Edges[f].budget
  <2>1. g \in EdgeIds
    BY DEF InlineEdges
  <2>2. CASE e \in InlineEdges /\ edge_key(g) = edge_key(e)
    <3>1. c[edge_key(e)] \in Nat /\ Edges[e].budget \in Nat
      BY <2>2, KeysPresent, EdgeTyped DEF InlineEdges
    <3>2. c[edge_key(e)] < Edges[e].budget
      BY <2>2, <3>1 DEF rework_refusal, InlineEdges
    <3>3. d[edge_key(g)] = c[edge_key(e)] + 1
      BY <2>1, <2>2, ChargeEffect
    <3> HIDE DEF d
    <3>. QED BY <2>2, <3>1, <3>2, <3>3
  <2>3. CASE ~(e \in InlineEdges /\ edge_key(g) = edge_key(e))
    <3>1. d[edge_key(g)] = c[edge_key(g)]
      BY <2>1, <2>3, ChargeEffect
    <3>. QED BY <3>1 DEF WithinBudgets
  <2>. QED BY <2>2, <2>3
<1>. QED BY <1>1, <1>2 DEF WithinBudgets

\* Counts that were only reset stay within their budgets.
LEMMA ResetWithinBudgets ==
  ASSUME NEW c \in [Keys -> Nat], NEW d \in [Keys -> Nat], WithinBudgets(c),
         \A k \in Keys : d[k] \in {0, c[k]}
  PROVE  WithinBudgets(d)
<1>1. ASSUME NEW l \in Loops PROVE d[loop_key(l)] <= loop_cap(l)
  BY KeysPresent, CapsNat DEF WithinBudgets
<1>2. ASSUME NEW e \in InlineEdges
      PROVE  \E f \in InlineEdges : edge_key(f) = edge_key(e) /\ d[edge_key(e)] <= Edges[f].budget
  <2>1. PICK f \in InlineEdges : edge_key(f) = edge_key(e) /\ c[edge_key(e)] <= Edges[f].budget
    BY DEF WithinBudgets
  <2>2. edge_key(e) \in Keys /\ Edges[f].budget \in Nat
    BY KeysPresent, EdgeTyped DEF InlineEdges
  <2>. QED BY <2>1, <2>2
<1>. QED BY <1>1, <1>2 DEF WithinBudgets

\* An empty dictionary is within every budget.
LEMMA EmptyWithinBudgets == EmptyCounters \in [Keys -> Nat] /\ WithinBudgets(EmptyCounters)
<1>1. EmptyCounters \in [Keys -> Nat] /\ \A k \in Keys : EmptyCounters[k] = 0
  BY DEF EmptyCounters
<1>2. ASSUME NEW e \in InlineEdges PROVE EmptyCounters[edge_key(e)] <= Edges[e].budget
  BY <1>1, KeysPresent, EdgeTyped DEF InlineEdges
<1>. QED BY <1>1, <1>2, KeysPresent, CapsNat DEF WithinBudgets

\* One step keeps the dictionary of the process and that of the checkpoint in budget.
LEMMA NextBudgets ==
  ASSUME ReservedNameFree, TypeInv, BudgetsRespected, [Next]_vars
  PROVE  BudgetsRespected'
<1> USE DEF BudgetsRespected
<1>0. counters \in [Keys -> Nat] /\ ckpt.counters \in [Keys -> Nat]
  BY DEF TypeInv, TypeOK
<1>1. CASE Resume \/ Cancel \/ Interrupt
  BY <1>1, EmptyWithinBudgets DEF Resume, Cancel, Interrupt, LoseMemory
<1>2. ASSUME NEW reset \in BOOLEAN, NEW from \in Nodes \cup {NoNode}, Continue(reset, from)
      PROVE  BudgetsRespected'
  <2>1. WithinBudgets(reset_consecutive_fix_budget(ckpt.counters))
    BY <1>0, ResetEffect, ResetWithinBudgets
  <2>. QED BY <1>2, <2>1, EmptyWithinBudgets DEF Continue
<1>3. CASE ExecuteNode
  BY <1>3 DEF ExecuteNode, SkipNode, RunAgent, RunDeterministic, RunEvaluator, Ran
<1>4. CASE Finish \/ Mismatch \/ Park
  BY <1>4 DEF Finish, Mismatch, Park, save_checkpoint
<1>5. CASE TakeForward
  <2>1. WithinBudgets(reset_loops_at(counters, current_node))
    BY <1>0, ResetEffect, ResetWithinBudgets
  <2>. QED BY <1>5, <2>1 DEF TakeForward, save_checkpoint
<1>6. CASE TakeRework
  <2>1. select_edge(current_node, outcome) \in EdgeIds
    BY <1>6, SelectMatches DEF TakeRework
  <2>2. WithinBudgets(charge_rework(counters, select_edge(current_node, outcome)))
    BY <1>0, <1>6, <2>1, ChargeWithinBudgets DEF TakeRework
  <2>. QED BY <1>6, <2>2 DEF TakeRework, save_checkpoint
<1>7. CASE UNCHANGED vars
  BY <1>7 DEF vars, process
<1>. QED BY <1>1, <1>2, <1>3, <1>4, <1>5, <1>6, <1>7 DEF Next, TakeEdge

\* No loop and no inline edge is ever sent on more fix rounds in a row than its
\* effective budget, through any sequence of crashes, stops, parks and grants.
THEOREM BudgetsHold == ASSUME ReservedNameFree PROVE Spec => []BudgetsRespected
<1>1. Init => TypeInv /\ BudgetsRespected
  BY InitType, EmptyWithinBudgets DEF Init, BudgetsRespected
<1>2. TypeInv /\ BudgetsRespected /\ [Next]_vars => (TypeInv /\ BudgetsRespected)'
  BY NextType, NextBudgets
<1>. QED BY <1>1, <1>2, PTL DEF Spec

-----------------------------------------------------------------------------
(* The global backstop. The checkpoint's count is the number of rounds, and  *)
(* so is the running process's own.                                          *)

BackstopInv ==
  /\ BackstopCountsEveryRound
  /\ Running => counters[GLOBAL_FIX_KEY] = reworks

\* One step keeps the backstop's count equal to the rounds taken, and below its cap.
LEMMA NextBackstop ==
  ASSUME ReservedNameFree, TypeInv, BackstopInv, [Next]_vars
  PROVE  BackstopInv'
<1> USE DEF BackstopInv, BackstopCountsEveryRound, Running
<1>0. /\ counters \in [Keys -> Nat] /\ ckpt.counters \in [Keys -> Nat]
      /\ reworks \in Nat /\ global_cap \in Nat /\ GLOBAL_FIX_KEY \in Keys
  BY KeysPresent, CapsNat DEF TypeInv, TypeOK
<1>1. CASE Resume \/ Cancel \/ Interrupt
  BY <1>1 DEF Resume, Cancel, Interrupt, LoseMemory
<1>2. ASSUME NEW reset \in BOOLEAN, NEW from \in Nodes \cup {NoNode}, Continue(reset, from)
      PROVE  BackstopInv'
  BY <1>0, <1>2, ResetEffect DEF Continue
<1>3. CASE ExecuteNode
  BY <1>3 DEF ExecuteNode, SkipNode, RunAgent, RunDeterministic, RunEvaluator, Ran
<1>4. CASE Finish \/ Mismatch \/ Park
  BY <1>4 DEF Finish, Mismatch, Park, save_checkpoint
<1>5. CASE TakeForward
  BY <1>0, <1>5, ResetEffect DEF TakeForward, save_checkpoint
<1>6. CASE TakeRework
  <2> DEFINE e == select_edge(current_node, outcome)
  <2>1. e \in EdgeIds
    BY <1>6, SelectMatches DEF TakeRework
  <2>2. charge_rework(counters, e)[GLOBAL_FIX_KEY] = counters[GLOBAL_FIX_KEY] + 1
    BY <1>0, <2>1, ChargeEffect
  <2>3. rework_refusal(counters, e) = "none"
    BY <1>6 DEF TakeRework
  <2>4. counters[GLOBAL_FIX_KEY] < global_cap
    BY <1>0, <2>3 DEF rework_refusal
  <2>5. /\ counters' = charge_rework(counters, e)
        /\ reworks' = MinOf(reworks + 1, global_cap + 1)
        /\ ckpt'.counters = counters' /\ counters[GLOBAL_FIX_KEY] = reworks
    BY <1>6 DEF TakeRework, save_checkpoint
  <2> HIDE DEF e
  <2>. QED BY <1>0, <2>2, <2>4, <2>5 DEF MinOf
<1>7. CASE UNCHANGED vars
  BY <1>7 DEF vars, process
<1>. QED BY <1>1, <1>2, <1>3, <1>4, <1>5, <1>6, <1>7 DEF Next, TakeEdge

\* Every fix round a task was ever sent on is counted by the global backstop and
\* there are never more than its cap, across crashes, restarts and budget grants.
THEOREM BackstopHolds == ASSUME ReservedNameFree PROVE Spec => []BackstopCountsEveryRound
<1>1. Init => TypeInv /\ BackstopInv
  BY InitType, KeysPresent, CapsNat
     DEF Init, BackstopInv, BackstopCountsEveryRound, Running, EmptyCounters
<1>2. TypeInv /\ BackstopInv /\ [Next]_vars => (TypeInv /\ BackstopInv)'
  BY NextType, NextBackstop
<1>3. BackstopInv => BackstopCountsEveryRound
  BY DEF BackstopInv
<1>. QED BY <1>1, <1>2, <1>3, PTL DEF Spec

-----------------------------------------------------------------------------
(* Advisory evaluators. Between its verdict and the edge it asks for, an     *)
(* advisory evaluator that wants rework still has a round nobody refuses.    *)

AdvisoryInv ==
  /\ AdvisoryNeverParks
  /\ (pc = "ran" /\ current_node \in Advisory) =>
       /\ outcome \in {"accept", "rework"}
       /\ outcome = "rework" => ~node_rework_refusal(counters, current_node)

\* One step keeps the promise of the advisory evaluators.
LEMMA NextAdvisory ==
  ASSUME TypeInv, AdvisoryInv, [Next]_vars
  PROVE  AdvisoryInv'
<1> USE NamesAssumption, EngineAssumption DEF AdvisoryInv, AdvisoryNeverParks
<1>0. NoNode \notin Advisory
  OBVIOUS
<1>1. CASE Resume \/ Cancel \/ Interrupt
  BY <1>1 DEF Resume, Cancel, Interrupt, LoseMemory
<1>2. ASSUME NEW reset \in BOOLEAN, NEW from \in Nodes \cup {NoNode}, Continue(reset, from)
      PROVE  AdvisoryInv'
  BY <1>0, <1>2 DEF Continue
<1>3. CASE SkipNode
  BY <1>3 DEF SkipNode, Ran, skip_outcome
<1>4. ASSUME NEW d \in Diffs, RunAgent(d) PROVE AdvisoryInv'
  BY <1>4 DEF RunAgent, Ran
<1>5. ASSUME NEW o \in Outcomes, RunDeterministic(o) PROVE AdvisoryInv'
  BY <1>5 DEF RunDeterministic, Ran
<1>6. ASSUME NEW f \in Findings, RunEvaluator(f) PROVE AdvisoryInv'
  <2>1. outcome' = verdict(current_node, f) /\ UNCHANGED <<current_node, counters, stuck_at>>
    BY <1>6 DEF RunEvaluator, Ran
  <2>2. (node_rework_refusal(counters, current_node))' = node_rework_refusal(counters, current_node)
    BY <2>1 DEF node_rework_refusal, rework_refusal
  <2>3. current_node \in Advisory /\ verdict(current_node, f) = "rework"
          => ~node_rework_refusal(counters, current_node)
    BY DEF verdict
  <2>4. verdict(current_node, f) \in {"accept", "rework"}
    BY DEF verdict
  <2>. QED BY <2>1, <2>2, <2>3, <2>4
<1>7. CASE Finish \/ Mismatch
  BY <1>7 DEF Finish, Mismatch
<1>8. CASE TakeForward \/ TakeRework
  BY <1>8 DEF TakeForward, TakeRework, MoveTo
<1>9. CASE Park
  <2> DEFINE n == current_node
             e == select_edge(n, outcome)
  <2>1. pc = "ran" /\ Matching(n, outcome) # {} /\ IsRework(e) /\ stuck_at' = n /\ pc' = "manual"
        /\ (Stalled(n, e) \/ rework_refusal(counters, e) # "none")
    BY <1>9 DEF Park
  <2>2. e \in Matching(n, outcome) /\ e \in Adjacency(n)
    BY <2>1, SelectMatches
  <2>3. ASSUME n \in Advisory PROVE FALSE
    <3>1. rework_refusal(counters, e) # "none"
      BY <2>1, <2>3 DEF Stalled, StallChecked
    <3>2. Edges[e].outcome = outcome \/ Edges[e].outcome = NoOutcome
      BY <2>2 DEF Matching
    <3>3. Edges[e].outcome = "rework"
      BY <2>1, <2>3, <3>2 DEF IsRework, REWORK_OUTCOMES, NoOutcome
    <3>4. outcome = "rework"
      BY <3>2, <3>3 DEF NoOutcome
    <3>. QED BY <2>1, <2>2, <2>3, <3>1, <3>3, <3>4 DEF node_rework_refusal
  <2>. QED BY <2>1, <2>3
<1>10. CASE UNCHANGED vars
  <2>1. (node_rework_refusal(counters, current_node))' = node_rework_refusal(counters, current_node)
    BY <1>10 DEF vars, process, node_rework_refusal, rework_refusal
  <2>. QED BY <1>10, <2>1 DEF vars, process
<1>. QED BY <1>1, <1>2, <1>3, <1>4, <1>5, <1>6, <1>7, <1>8, <1>9, <1>10
         DEF Next, ExecuteNode, TakeEdge

\* No flow, budget or sequence of restarts makes a non-blocking evaluator park a task.
THEOREM AdvisoryPromise == Spec => []AdvisoryNeverParks
<1>1. Init => TypeInv /\ AdvisoryInv
  BY InitType, NamesAssumption, EngineAssumption DEF Init, AdvisoryInv, AdvisoryNeverParks
<1>2. TypeInv /\ AdvisoryInv /\ [Next]_vars => (TypeInv /\ AdvisoryInv)'
  BY NextType, NextAdvisory
<1>3. AdvisoryInv => AdvisoryNeverParks
  BY DEF AdvisoryInv
<1>. QED BY <1>1, <1>2, <1>3, PTL DEF Spec

-----------------------------------------------------------------------------
(* The no-change stall guard. While a traversal runs, a loop that was sent   *)
(* on idle rounds has the present diff as its fingerprint, and its streak    *)
(* lags the idle rounds by at most one.                                      *)

IdleInv ==
  /\ NoIdleRounds
  /\ Running => \A l \in Loops : idle[l] > 0 => /\ stall_fp[l] = diff
                                                /\ idle[l] <= stall_streak[l] + 1

\* One step keeps the idle rounds of every loop within the stall limit.
LEMMA NextIdle ==
  ASSUME TypeInv, IdleInv, [Next]_vars
  PROVE  IdleInv'
<1> USE DEF IdleInv, NoIdleRounds, Running, STALL_NO_CHANGE_LIMIT
<1>0. /\ idle \in [Loops -> Nat] /\ stall_streak \in [Loops -> 0..2]
      /\ Running => \A l \in Loops : stall_streak[l] < 2
  BY DEF TypeInv, TypeOK, StreakBelowLimit
<1>1. CASE Resume \/ Cancel \/ Interrupt
  BY <1>0, <1>1 DEF Resume, Cancel, Interrupt, LoseMemory, NoStall
<1>2. ASSUME NEW reset \in BOOLEAN, NEW from \in Nodes \cup {NoNode}, Continue(reset, from)
      PROVE  IdleInv'
  BY <1>0, <1>2 DEF Continue
<1>3. ASSUME NEW d \in Diffs, RunAgent(d) PROVE IdleInv'
  BY <1>0, <1>3 DEF RunAgent, Ran
<1>4. CASE SkipNode \/ (\E o \in Outcomes : RunDeterministic(o)) \/ (\E f \in Findings : RunEvaluator(f))
  BY <1>0, <1>4 DEF SkipNode, RunDeterministic, RunEvaluator, Ran
<1>5. CASE Finish \/ Mismatch \/ Park
  BY <1>0, <1>5 DEF Finish, Mismatch, Park
<1>6. CASE TakeForward
  BY <1>0, <1>6 DEF TakeForward, MoveTo
<1>7. CASE TakeRework
  <2> DEFINE n == current_node
             e == select_edge(n, outcome)
             k == Edges[e].loop
  <2>1. /\ pc = "ran" /\ ~Stalled(n, e) /\ UpdateStall(n, e) /\ UNCHANGED diff
        /\ idle' = IF StallChecked(n, e) THEN [idle EXCEPT ![k] = @ + 1] ELSE idle
    BY <1>7 DEF TakeRework
  <2>2. e \in EdgeIds
    BY <1>7, SelectMatches DEF TakeRework
  <2>3. k # NoLoop => k \in Loops
    BY <2>2, EdgeTyped
  <2> HIDE DEF n, e, k
  <2>4. CASE ~StallChecked(n, e)
    BY <1>0, <2>1, <2>4 DEF UpdateStall
  <2>5. CASE StallChecked(n, e)
    <3>1. k \in Loops
      BY <2>3, <2>5 DEF StallChecked, k
    <3>2. /\ stall_streak' = [stall_streak EXCEPT ![k] = NextStreak(k)]
          /\ stall_fp' = [stall_fp EXCEPT ![k] = diff]
      BY <2>1, <2>5 DEF UpdateStall, k
    <3>3. NextStreak(k) < 2 /\ NextStreak(k) \in Nat
      BY <1>0, <2>1, <2>5, <3>1 DEF Stalled, NextStreak, k
    <3>4. idle[k] + 1 <= NextStreak(k) + 1
      BY <1>0, <2>1, <3>1 DEF NextStreak
    <3>5. stall_fp \in [Loops -> Diffs \cup {NoDiff}]
      BY DEF TypeInv, TypeOK
    <3>. QED BY <1>0, <2>1, <2>5, <3>1, <3>2, <3>3, <3>4, <3>5
  <2>. QED BY <2>4, <2>5
<1>8. CASE UNCHANGED vars
  BY <1>8 DEF vars, process
<1>. QED BY <1>1, <1>2, <1>3, <1>4, <1>5, <1>6, <1>7, <1>8 DEF Next, ExecuteNode, TakeEdge

\* In one process life no named loop is sent on more than two fix rounds while the
\* task's diff stays the same.
THEOREM StallGuardHolds == Spec => []NoIdleRounds
<1>1. Init => TypeInv /\ IdleInv
  BY InitType DEF Init, IdleInv, NoIdleRounds, Running, STALL_NO_CHANGE_LIMIT
<1>2. TypeInv /\ IdleInv /\ [Next]_vars => (TypeInv /\ IdleInv)'
  BY NextType, NextIdle
<1>3. IdleInv => NoIdleRounds
  BY DEF IdleInv
<1>. QED BY <1>1, <1>2, <1>3, PTL DEF Spec

-----------------------------------------------------------------------------
(* Edges. What a node returned is an answer of a human or has an edge.       *)

HasEdge(n, o) == o \in RouteOutcomes \/ Adjacency(n) = {} \/ Matching(n, o) # {}

EdgeInv ==
  /\ UndeclaredOnlyByHuman
  /\ pc = "ran" => HasEdge(current_node, outcome)

\* The outcome of skipping a node has an edge: the validator's check for a node the task
\* disables, the flow's for one that a fact switches off.
LEMMA SkipHasEdge ==
  ASSUME EdgesComplete, NEW n \in Nodes, should_skip(n)
  PROVE  HasEdge(n, skip_outcome(n))
<1>1. CASE n \in Disabled
  BY <1>1, FlowValidated DEF validate_disabled_nodes, HasEdge
<1>2. CASE n \notin Disabled
  <2>1. n \in FactSkipped
    BY <1>2 DEF should_skip
  <2>2. n \in Terminals \/ Matching(n, skip_outcome(n)) # {}
    BY <1>2, <2>1 DEF EdgesComplete, AutomaticOutcomes
  <2>. QED BY <2>2 DEF Terminals, HasEdge
<1>. QED BY <1>1, <1>2

\* So has every outcome of a node that is run.
LEMMA RunHasEdge ==
  ASSUME EdgesComplete, NEW n \in Nodes, ~should_skip(n), NEW o,
         IF Kind[n] = "evaluator" THEN o \in {"accept", "rework"} ELSE o \in OutcomesOf(Kind[n])
  PROVE  HasEdge(n, o)
<1>1. n \notin Disabled /\ n \notin FactSkipped
  BY DEF should_skip
<1>2. o \in RouteOutcomes \/ o \in AutomaticOutcomes(n)
  BY <1>1 DEF AutomaticOutcomes
<1>3. n \in Terminals \/ o \in RouteOutcomes \/ Matching(n, o) # {}
  BY <1>1, <1>2 DEF EdgesComplete
<1>. QED BY <1>3 DEF Terminals, HasEdge

\* One step finds an edge for every automatic outcome.
LEMMA NextEdge ==
  ASSUME EdgesComplete, TypeInv, EdgeInv, [Next]_vars
  PROVE  EdgeInv'
<1> USE DEF EdgeInv, UndeclaredOnlyByHuman
<1>0. pc = "top" => current_node \in Nodes
  BY DEF TypeInv, TypeOK
<1>1. CASE Resume \/ Cancel \/ Interrupt
  BY <1>1 DEF Resume, Cancel, Interrupt, LoseMemory
<1>2. ASSUME NEW reset \in BOOLEAN, NEW from \in Nodes \cup {NoNode}, Continue(reset, from)
      PROVE  EdgeInv'
  BY <1>2 DEF Continue
<1>3. ASSUME pc = "top", NEW o, Ran(o), HasEdge(current_node, o)
      PROVE  EdgeInv'
  BY <1>3 DEF Ran, HasEdge
<1>4. CASE SkipNode
  BY <1>0, <1>3, <1>4, SkipHasEdge DEF SkipNode
<1>5. ASSUME NEW d \in Diffs, RunAgent(d) PROVE EdgeInv'
  <2>1. HasEdge(current_node, "done")
    BY <1>0, <1>5, RunHasEdge DEF RunAgent, OutcomesOf
  <2>. QED BY <1>3, <1>5, <2>1 DEF RunAgent
<1>6. ASSUME NEW o \in Outcomes, RunDeterministic(o) PROVE EdgeInv'
  <2>1. HasEdge(current_node, o)
    BY <1>0, <1>6, RunHasEdge DEF RunDeterministic
  <2>. QED BY <1>3, <1>6, <2>1 DEF RunDeterministic
<1>7. ASSUME NEW f \in Findings, RunEvaluator(f) PROVE EdgeInv'
  <2>1. verdict(current_node, f) \in {"accept", "rework"}
    BY DEF verdict
  <2>2. HasEdge(current_node, verdict(current_node, f))
    BY <1>0, <1>7, <2>1, RunHasEdge DEF RunEvaluator
  <2>. QED BY <1>3, <1>7, <2>2 DEF RunEvaluator
<1>8. CASE Mismatch
  BY <1>8 DEF Mismatch, HasEdge
<1>9. CASE Finish \/ TakeForward \/ TakeRework \/ Park
  BY <1>9 DEF Finish, TakeForward, TakeRework, Park, MoveTo
<1>10. CASE UNCHANGED vars
  BY <1>10 DEF vars, process, HasEdge
<1>. QED BY <1>1, <1>2, <1>4, <1>5, <1>6, <1>7, <1>8, <1>9, <1>10 DEF Next, ExecuteNode, TakeEdge

\* In a flow whose edges are complete no run ends in EngineInternalError but on a
\* human's answer, whatever the task disables and the facts switch off.
THEOREM OutcomesDeclared == ASSUME EdgesComplete PROVE Spec => []UndeclaredOnlyByHuman
<1>1. Init => TypeInv /\ EdgeInv
  BY InitType DEF Init, EdgeInv, UndeclaredOnlyByHuman
<1>2. TypeInv /\ EdgeInv /\ [Next]_vars => (TypeInv /\ EdgeInv)'
  BY NextType, NextEdge
<1>3. EdgeInv => UndeclaredOnlyByHuman
  BY DEF EdgeInv
<1>. QED BY <1>1, <1>2, <1>3, PTL DEF Spec
=============================================================================
