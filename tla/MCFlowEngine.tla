---------------------------- MODULE MCFlowEngine ----------------------------
(***************************************************************************)
(* The engine on a flow that has each thing the packaged flows have: a     *)
(* node its fact skips, a tool with an inline budget, a blocking review    *)
(* and an advisory critic that share a loop, a fixer, an approval whose    *)
(* denial the flow gives no edge, and a publishing node outside the region *)
(* that is traversed.                                                      *)
(***************************************************************************)
EXTENDS FlowEngine

E(f, t, o, l, b) == [from |-> f, to |-> t, outcome |-> o, loop |-> l, budget |-> b]

MCNodes == {"refinement", "lint", "review", "critic", "fixing", "signoff", "publish"}
MCRegion == MCNodes \ {"publish"}

MCKind == [n \in MCNodes |->
  CASE n = "lint" -> "tool"
    [] n \in {"review", "critic"} -> "evaluator"
    [] n = "signoff" -> "approval"
    [] n = "publish" -> "publish"
    [] OTHER -> "agent"]

MCEdges == <<
  E("refinement", "lint", NoOutcome, NoLoop, NoBudget),
  E("lint", "review", "pass", NoLoop, NoBudget),
  E("lint", "fixing", "fail", NoLoop, 1),
  E("review", "critic", "accept", NoLoop, NoBudget),
  E("review", "fixing", "rework", "review_fix", NoBudget),
  E("critic", "signoff", "accept", NoLoop, NoBudget),
  E("critic", "fixing", "rework", "review_fix", NoBudget),
  E("fixing", "lint", NoOutcome, NoLoop, NoBudget),
  E("signoff", "publish", "route:approve", NoLoop, NoBudget) >>

MCbudgets == [review_fix |-> 4, global_fix_iterations |-> 10]
=============================================================================
