------------------------------ MODULE FlowGraph ------------------------------
(***************************************************************************)
(* A flow graph as the engine sees it: the snapshot's nodes and adjacency  *)
(* (core/flow/snapshot.py, core/flow/schema.py), edge selection            *)
(* (core/flow/engine.py) and the load-time graph validator                 *)
(* (core/flow/validator.py) that every flow passes before it is run.       *)
(***************************************************************************)
EXTENDS Integers, Sequences, FiniteSets

CONSTANTS
  Nodes,    \* ids of the flow's nodes
  Kind,     \* [Nodes -> NodeKinds]
  Edges,    \* the flow's edges, in document order
  budgets,  \* the flow's budgets: loop name -> fix rounds
  Disabled  \* nodes the task switches off

\* A hitl node is told apart by its signal, which decides the outcomes it has.
NodeKinds == {"agent", "evaluator", "checks", "tool", "question", "approval", "publish"}

\* Edge fields that are absent in the flow document.
NoLoop == "none"
NoOutcome == "none"
NoBudget == -1

EdgeType == [from : STRING, to : STRING, outcome : STRING, loop : STRING,
             budget : Nat \cup {NoBudget}]

ASSUME FlowTyped ==
  /\ Kind \in [Nodes -> NodeKinds]
  /\ Edges \in Seq(EdgeType)
  /\ \A l \in DOMAIN budgets : budgets[l] \in Nat
  /\ Disabled \subseteq STRING

EdgeIds == DOMAIN Edges

\* snapshot.adjacency, and its .get(node_id, ()): the outgoing edges of a node.
adjacency == [n \in Nodes |-> {e \in EdgeIds : Edges[e].from = n}]
Adjacency(n) == IF n \in Nodes THEN adjacency[n] ELSE {}

REWORK_OUTCOMES == {"rework", "fail"}

IsRework(e) == Edges[e].outcome \in REWORK_OUTCOMES

\* The loops the edges name.
Loops == {Edges[e].loop : e \in EdgeIds} \ {NoLoop}

Entries == {n \in Nodes : \A e \in EdgeIds : Edges[e].to # n}

\* The node without incoming edges; the validator guarantees there is just one.
entry_node_id == CHOOSE n \in Entries : TRUE

\* Everything reachable forward from a node, itself included: the least set that
\* holds it and is closed under edges.
reachable_nodes ==
  LET closed == {S \in SUBSET Nodes :
                   \A e \in EdgeIds : Edges[e].from \in S => Edges[e].to \in S}
  IN  [n \in Nodes |-> {m \in Nodes : \A S \in closed : n \in S => m \in S}]

\* Mutant of Matching: an unconditional edge no longer answers a plain `done`.
Matching_ExactOnly(n, o) == {e \in Adjacency(n) : Edges[e].outcome = o}

\* The edges among which the engine finds its first match: those that carry the
\* outcome, or for a plain `done` the only unconditional edge.
Matching(n, o) ==
  LET exact == {e \in Adjacency(n) : Edges[e].outcome = o}
      plain == {e \in Adjacency(n) : Edges[e].outcome = NoOutcome}
  IN  IF exact = {} /\ o = "done" /\ \A e, f \in plain : e = f THEN plain ELSE exact

select_edge(n, o) == CHOOSE e \in Matching(n, o) : \A f \in Matching(n, o) : e <= f

\* The outcome recorded for a node that is skipped rather than run.
skip_outcome(n) ==
  CASE Kind[n] = "evaluator"          -> "accept"
    [] Kind[n] \in {"checks", "tool"} -> "pass"
    [] OTHER                          -> "done"

-----------------------------------------------------------------------------
(* The validator. *)

RouteOutcomes == {"route:approve", "route:deny"}

AllowedOutcomes(kind) ==
  RouteOutcomes \cup CASE kind = "evaluator"          -> {"accept", "rework"}
                       [] kind \in {"checks", "tool"} -> {"pass", "fail"}
                       [] OTHER                       -> {NoOutcome}

Terminals == {n \in Nodes : Adjacency(n) = {}}

EdgesResolve == \A e \in EdgeIds : Edges[e].from \in Nodes /\ Edges[e].to \in Nodes
OutcomesAllowed == \A e \in EdgeIds : Edges[e].outcome \in AllowedOutcomes(Kind[Edges[e].from])
ReworkBounded == \A e \in EdgeIds : IsRework(e) => Edges[e].budget # NoBudget \/ Edges[e].loop # NoLoop
LoopsDeclared == Loops \subseteq DOMAIN budgets
OneEntry == \E n \in Nodes : Entries = {n} /\ reachable_nodes[n] = Nodes
EndReachable == /\ Terminals # {}
                /\ \A n \in Nodes : reachable_nodes[n] \cap Terminals # {}

check_graph ==
  EdgesResolve /\ OutcomesAllowed /\ ReworkBounded /\ LoopsDeclared /\ OneEntry /\ EndReachable

\* A node the task disables exists, and the outcome of skipping it has an edge.
validate_disabled_nodes ==
  \A n \in Disabled :
    /\ n \in Nodes
    /\ Adjacency(n) = {} \/ Matching(n, skip_outcome(n)) # {}

\* The engine runs a flow only after both checks passed.
ASSUME FlowValidated == check_graph /\ validate_disabled_nodes
=============================================================================
