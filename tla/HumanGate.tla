----------------------------- MODULE HumanGate ------------------------------
(***************************************************************************)
(* The human in the loop of one task: an agent node that may ask, hit its  *)
(* turn limit and leave a diff that needs approval, a hitl node, and the   *)
(* publish node's own gate. Every ask is a prompt in the chat, a persisted *)
(* interaction file and a wait for the answer, and the process may die     *)
(* between any two of them.                                                *)
(*                                                                         *)
(* The chat is the history of the prompts sent and of the answers given;   *)
(* a prompt is known by its message id, its position in `sent`, because    *)
(* the interaction id is the same for every ask of a node. An update       *)
(* offset is the id of the last update seen, 0 for None.                   *)
(***************************************************************************)
EXTENDS Naturals, Sequences, FiniteSets, FiniteSetsExt

CONSTANTS
  Diffs,            \* change sets a run may leave: path -> what happened to it
  DependencyPaths,  \* manifests and locks
  ProtectedPaths,   \* security.protected_paths
  MaxCycle,         \* fix iterations the flow allows
  Configs,          \* what flows and configurations allow: hitl, turn_gate, trust
  AgentAsks,        \* the requests an agent may put in its typed output
  MaxPrompts, MaxUpdates, MaxFaults

VARIABLES
  cfg,        \* what the flow and the configuration allow
  rec,        \* the interaction files
  pos, cycle, diff,             \* the flow checkpoint and the working tree
  pc, file, resumed, had, second, out,  \* the running node
  handle, seen, reply,          \* the wait in progress
  sent, updates, confirmed, late,       \* the chat and the clock
  stop, faults

nodeVars == <<pc, file, resumed, had, second, out>>
waitVars == <<handle, seen, reply>>
chatVars == <<sent, updates, confirmed, late>>
flowVars == <<pos, cycle, diff>>
envVars == <<stop, faults>>
vars == <<cfg, rec, flowVars, nodeVars, waitVars, chatVars, envVars>>

Kinds == {"question", "approval"}
AskFailure == {"timeout", "transport_error", "invalid_response", "cancelled"}
Answers == {"yes", "no", "text"}
AllConfigs == [hitl : BOOLEAN, turn_gate : BOOLEAN, trust : {"strict", "auto"}]

Signals == [kind : Kinds,
            risk : {"clarification", "other", "protected", "deletion", "dependency"},
            paths : SUBSET UNION {DOMAIN d : d \in Diffs}]

ASSUME HumanAssumption ==
  /\ Configs \subseteq AllConfigs
  /\ AgentAsks \subseteq Signals
  /\ MaxCycle \in Nat /\ MaxPrompts \in Nat /\ MaxUpdates \in Nat /\ MaxFaults \in Nat

\* One file per hitl node, agent question, turn gate, and guardrail cycle.
Files == ({"hitl", "node", "turn"} \X {0}) \cup ({"guard", "publish"} \X (0..MaxCycle))
HitlFile == <<"hitl", 0>>
NodeFile == <<"node", 0>>
TurnFile == <<"turn", 0>>
GuardFile == <<"guard", cycle>>
PublishFile == <<"publish", cycle>>

NoRecord == [status |-> "absent"]
NoHandle == [msg |-> 0, offset |-> 0]

\* How a run of the agent ended: not yet, one of two plain ways, or asking.
NoRun == [end |-> "none"]
Ends == [end : {"done", "max_turns"}]
Asks == [end : {"asks"}, ask : AgentAsks]
RunEnds == {NoRun} \cup Ends \cup Asks
-----------------------------------------------------------------------------
(* core/dangerous_diff.py and core/flow/nodes/diff_gate.py.                 *)

_deleted_paths(d) == {p \in DOMAIN d : d[p] = "deleted"}
dependency_paths(d) == {p \in DependencyPaths \cap DOMAIN d : d[p] # "same"}
_protected_hits(d) == {p \in ProtectedPaths \cap DOMAIN d : d[p] # "same"}

_combined_risk(deleted, deps, protected) ==
  IF Cardinality({g \in {<<"del", deleted>>, <<"dep", deps>>, <<"prot", protected>>} :
                    g[2] # {}}) > 1 THEN "other"
  ELSE IF protected # {} THEN "protected" ELSE IF deleted # {} THEN "deletion" ELSE "dependency"

NoDanger == [risk |-> "none", paths |-> {}]

\* Protected paths gate at any trust level, the shape of the diff at strict.
evaluate_diff_gate(d) ==
  LET strict == cfg.trust = "strict"
      deleted == IF strict THEN _deleted_paths(d) ELSE {}
      deps == IF strict THEN dependency_paths(d) ELSE {}
      gated == deleted \cup deps \cup _protected_hits(d)
  IN IF gated = {} THEN NoDanger
     ELSE [risk |-> _combined_risk(deleted, deps, _protected_hits(d)), paths |-> gated]

dangerous == evaluate_diff_gate(diff)

Signal(kind, danger) == [kind |-> kind, risk |-> danger.risk, paths |-> danger.paths]
PlainApproval == Signal("approval", [risk |-> "other", paths |-> {}])

\* Mutant: only the kind of the request is compared.
guardrail_request_matches_Kind(r, danger) == r.request.kind = "approval"

guardrail_request_matches(r, danger) == r.request = Signal("approval", danger)

already_approved_in_task(danger) ==
  \E f \in Files : /\ rec[f] # NoRecord /\ rec[f].answer = "yes"
                   /\ guardrail_request_matches(rec[f], danger)

consume_prior_approval(danger) ==
  IF rec[PublishFile] # NoRecord
  THEN rec[PublishFile].answer = "yes" /\ guardrail_request_matches(rec[PublishFile], danger)
  ELSE already_approved_in_task(danger)

mark_interaction_status(f, s) == rec' = [rec EXCEPT ![f].status = s]

mark_consumed(f) == mark_interaction_status(f, "consumed")
-----------------------------------------------------------------------------
Init ==
  /\ cfg \in Configs
  /\ rec = [f \in Files |-> NoRecord]
  /\ pos = "agent" /\ cycle = 0 /\ diff \in {d \in Diffs : evaluate_diff_gate(d) = NoDanger}
  /\ pc = "enter" /\ file = HitlFile /\ resumed = FALSE /\ had = FALSE /\ second = FALSE
  /\ out = NoRun
  /\ handle = NoHandle /\ seen = 0 /\ reply = "none"
  /\ sent = <<>> /\ updates = <<>> /\ confirmed = 0 /\ late = 0
  /\ stop = FALSE /\ faults = 0

Go(step) == pc' = step /\ UNCHANGED <<file, resumed, had, second, out>>

\* The node is left, its locals with it.
Leave(step) == /\ pc' = step /\ file' = HitlFile /\ resumed' = FALSE /\ had' = FALSE
               /\ second' = FALSE /\ out' = NoRun

\* NodeManualRequired: the task leaves the engine for a person.
Manual == Leave("manual")

-----------------------------------------------------------------------------
(* HumanGate.request and HumanGate.resume over the notifier.                *)

\* A node asks: the request is remembered, the prompt goes out next.
Request(f) ==
  /\ pc' = "start" /\ file' = f /\ resumed' = FALSE
  /\ UNCHANGED <<had, second, out>>

\* A node waits again for a prompt that an earlier process sent.
Resume(f) ==
  /\ pc' = "poll" /\ file' = f /\ resumed' = TRUE
  /\ handle' = rec[f].handle /\ seen' = rec[f].handle.offset /\ reply' = "none"
  /\ UNCHANGED <<had, second, out>>

\* What the present node would ask about in file. The agent's own request is
\* taken from its typed output as it is: kind, risk and paths.
signal ==
  CASE file[1] \in {"guard", "publish"} -> Signal("approval", dangerous)
    [] file[1] = "hitl" -> out.ask
    [] OTHER -> PlainApproval

\* The prompt of a file: what a core prompt shows names its request, but the
\* text of the agent's own ask is the agent's, and need not.
Prompt(f, request) == [own |-> f = HitlFile, request |-> request]

Undelivered(n) ==
  /\ handle' = NoHandle /\ pc' = "write"
  /\ sent' = IF n = 0 THEN sent ELSE Append(sent, Prompt(file, signal))

\* start_ask: every pending update is drained, then the prompt is sent. The
\* call may fail before the message is out, or time out after it is.
StartAsk ==
  /\ pc = "start" /\ Len(sent) < MaxPrompts
  /\ \/ /\ stop /\ Undelivered(0) /\ UNCHANGED <<confirmed, faults>>
     \/ /\ ~stop /\ confirmed' = Len(updates)
        /\ sent' = Append(sent, Prompt(file, signal))
        /\ handle' = [msg |-> Len(sent) + 1, offset |-> Len(updates)]
        /\ pc' = "write" /\ UNCHANGED faults
     \/ /\ ~stop /\ faults < MaxFaults /\ faults' = faults + 1
        /\ confirmed' = Len(updates)
        /\ \E n \in {0, 1} : Undelivered(n)
  /\ seen' = handle'.offset /\ reply' = "none"
  /\ UNCHANGED <<cfg, rec, flowVars, file, resumed, had, second, out, updates, late, stop>>

\* write_waiting_interaction: an undelivered prompt is a failure at once.
WriteWaiting ==
  /\ pc = "write"
  /\ LET delivered == handle # NoHandle
         failure == IF delivered THEN "none" ELSE "transport_error" IN
     rec' = [rec EXCEPT ![file] =
               [status |-> IF delivered THEN "waiting" ELSE "transport_error",
                request |-> signal, handle |-> handle, answer |-> "none", failure |-> failure]]
  /\ Go("poll")
  /\ UNCHANGED <<cfg, flowVars, waitVars, chatVars, envVars>>

\* Mutant: any answer with the right buttons counts, whatever its prompt.
IsReply_Any(u) == u.val \in IF rec[file].request.kind = "question" THEN {"text"} ELSE {"yes", "no"}

\* An update answers the prompt being waited for: a reply to that message, or
\* a press of one of its buttons. Anything else is a near miss.
IsReply(u) ==
  /\ u.to = handle.msg
  /\ u.val \in IF rec[file].request.kind = "question" THEN {"text"} ELSE {"yes", "no"}

Polling == pc = "poll" /\ reply = "none"

\* get_updates: the server forgets what is below the offset and returns the
\* rest; the first update that is a reply ends the wait.
Fetch ==
  LET from == Max({seen, confirmed})
      hits == {i \in (from + 1)..Len(updates) : IsReply(updates[i])} IN
  /\ Polling /\ ~stop /\ handle # NoHandle /\ handle.msg > late
  /\ from < Len(updates)
  /\ confirmed' = from
  /\ IF hits = {} THEN seen' = Len(updates) /\ UNCHANGED reply
     ELSE seen' = Min(hits) /\ reply' = updates[Min(hits)].val
  /\ UNCHANGED <<cfg, rec, flowVars, nodeVars, handle, sent, updates, late, envVars>>

\* Mutant: the wait has no deadline.
GiveUp_NoDeadline(why) ==
  /\ Polling
  /\ CASE why = "cancelled" -> stop /\ UNCHANGED faults
       [] why = "transport_error" ->
            ~stop /\ IF handle = NoHandle THEN UNCHANGED faults
                     ELSE faults < MaxFaults /\ faults' = faults + 1
       [] why = "timeout" -> FALSE /\ UNCHANGED faults
  /\ reply' = why
  /\ UNCHANGED <<cfg, rec, flowVars, nodeVars, handle, seen, chatVars, stop>>

\* The other ends of a wait: a stop, a prompt that never went out, another
\* poller or a failing call, and the deadline. (An approval without a decision,
\* invalid_response, is a reply this client never returns.)
GiveUp(why) ==
  /\ Polling
  /\ CASE why = "cancelled" -> stop /\ UNCHANGED faults
       [] why = "transport_error" ->
            ~stop /\ IF handle = NoHandle THEN UNCHANGED faults
                     ELSE faults < MaxFaults /\ faults' = faults + 1
       [] why = "timeout" -> ~stop /\ handle.msg <= late /\ UNCHANGED faults
  /\ reply' = why
  /\ UNCHANGED <<cfg, rec, flowVars, nodeVars, handle, seen, chatVars, stop>>

\* write_answer: the result reaches the file before anybody acts on it.
WriteAnswer ==
  /\ pc = "poll" /\ reply # "none"
  /\ LET failed == reply \in AskFailure IN
     rec' = [rec EXCEPT ![file].status = IF failed THEN reply ELSE "answered",
                        ![file].answer = IF failed THEN "none" ELSE reply,
                        ![file].failure = IF failed THEN reply ELSE "none"]
  /\ handle' = NoHandle /\ seen' = 0 /\ reply' = "none"
  /\ Go("result")
  /\ UNCHANGED <<cfg, flowVars, chatVars, envVars>>

Answered(r) == r.failure = "none" /\ r.answer # "none"
-----------------------------------------------------------------------------
(* AgentNodeRunner: core/flow/nodes/agent.py.                               *)

NodeStep == UNCHANGED <<cfg, flowVars, chatVars, envVars>>

\* _run_with_hitl up to the first invocation; _run_simple has no file to read.
EnterAgent ==
  /\ pos = "agent" /\ pc = "enter"
  /\ IF ~cfg.hitl \/ rec[HitlFile] = NoRecord
     THEN pc' = "turn" /\ had' = FALSE /\ second' = FALSE
          /\ UNCHANGED <<file, resumed, out, waitVars>>
     ELSE /\ had' = TRUE /\ second' = FALSE
          /\ IF rec[HitlFile].status = "waiting"
             THEN /\ pc' = "poll" /\ file' = HitlFile /\ resumed' = TRUE /\ UNCHANGED out
                  /\ handle' = rec[HitlFile].handle /\ seen' = rec[HitlFile].handle.offset
                  /\ reply' = "none"
             ELSE /\ pc' = IF rec[HitlFile].status \in {"answered", "consumed"} /\ Answered(rec[HitlFile])
                            THEN "turn" ELSE "manual"
                  /\ UNCHANGED <<file, resumed, out, waitVars>>
  /\ UNCHANGED rec /\ NodeStep

\* The agent's question was answered, before or after a restart.
HitlResult ==
  /\ pos = "agent" /\ pc = "result" /\ file = HitlFile
  /\ IF ~Answered(rec[file]) THEN Manual
     ELSE pc' = "turn" /\ second' = ~resumed /\ UNCHANGED <<file, resumed, had, out>>
  /\ UNCHANGED <<rec, waitVars>> /\ NodeStep

\* _invoke_with_turn_gate: a turn-limit prompt that was out is settled first.
TurnCheck ==
  /\ pos = "agent" /\ pc = "turn"
  /\ IF cfg.turn_gate /\ rec[TurnFile].status = "waiting"
     THEN Resume(TurnFile)
     ELSE Go("invoke") /\ UNCHANGED waitVars
  /\ UNCHANGED rec /\ NodeStep

\* A turn-limit answer. Approved: consumed and the agent runs on. Otherwise a
\* restarted wait is manual, and a live one hands on the run as it stands.
TurnResult ==
  /\ pos = "agent" /\ pc = "result" /\ file = TurnFile
  /\ IF Answered(rec[file]) /\ rec[file].answer = "yes"
     THEN mark_consumed(file) /\ Go("invoke")
     ELSE UNCHANGED rec /\ IF resumed THEN Manual ELSE Go("typed")
  /\ UNCHANGED waitVars /\ NodeStep

\* The agent runs: it leaves a working tree, and a node that may ask may end by asking.
Invoke ==
  /\ pos = "agent" /\ pc \in {"invoke", "reconsider"}
  /\ diff' \in Diffs
  /\ out' \in Ends \cup IF cfg.hitl THEN Asks ELSE {}
  /\ pc' = IF pc = "reconsider" THEN "reconsidered" ELSE "ran"
  /\ UNCHANGED <<cfg, rec, pos, cycle, file, resumed, had, second, waitVars, chatVars, envVars>>

\* The turn gate, and the typed output of a node that may ask.
Ran ==
  /\ pos = "agent"
  /\ \/ /\ pc = "ran" /\ out.end = "max_turns" /\ cfg.turn_gate
        /\ Request(TurnFile)
     \/ /\ pc = "ran" /\ ~(out.end = "max_turns" /\ cfg.turn_gate)
        /\ Go("typed")
     \/ /\ pc = "typed" /\ ~cfg.hitl /\ Go("guard")
     \/ /\ pc = "typed" /\ cfg.hitl
        /\ IF out.end = "done" THEN Go("guard")
           ELSE IF out.end = "max_turns" THEN Leave("failed")
           ELSE IF had \/ second THEN Manual ELSE Request(HitlFile)
  /\ UNCHANGED <<rec, waitVars>> /\ NodeStep

\* _apply_post_edit_guard: a diff that needs approval meets the file of this
\* cycle, then any approval of the same set in the task, then a new prompt.
Guard ==
  /\ pos = "agent" /\ pc = "guard"
  /\ LET r == rec[GuardFile] IN
     \/ /\ dangerous = NoDanger /\ Go("finish") /\ UNCHANGED <<rec, waitVars>>
     \/ /\ dangerous # NoDanger /\ r = NoRecord
        /\ IF already_approved_in_task(dangerous) THEN Go("finish") ELSE Request(GuardFile)
        /\ UNCHANGED <<rec, waitVars>>
     \/ /\ dangerous # NoDanger /\ r # NoRecord
        /\ IF ~guardrail_request_matches(r, dangerous) THEN Manual /\ UNCHANGED waitVars
           ELSE IF r.status = "waiting" THEN Resume(GuardFile)
           ELSE IF r.status \in {"answered", "consumed"}
             THEN /\ pc' = "result" /\ file' = GuardFile /\ UNCHANGED <<resumed, had, second, out>>
                  /\ UNCHANGED waitVars
           ELSE Manual /\ UNCHANGED waitVars
        /\ UNCHANGED rec
  /\ NodeStep

\* Approved: consumed. Denied: the agent is called once more to reconsider.
GuardResult ==
  /\ pos = "agent" /\ pc = "result" /\ file = GuardFile
  /\ IF ~Answered(rec[file]) THEN Manual /\ UNCHANGED rec
     ELSE IF rec[file].answer = "yes" THEN mark_consumed(file) /\ Go("finish")
     ELSE mark_interaction_status(file, "reconsidering") /\ Go("reconsider")
  /\ UNCHANGED waitVars /\ NodeStep

\* After a denial only a tree without gated changes goes on.
Reconsidered ==
  /\ pos = "agent" /\ pc = "reconsidered"
  /\ IF dangerous # NoDanger THEN Manual /\ UNCHANGED rec
     ELSE mark_interaction_status(GuardFile, "reconsidered") /\ Go("finish")
  /\ UNCHANGED waitVars /\ NodeStep

\* The node's own question is closed, then the engine checkpoints the next node.
FinishAgent ==
  /\ pos = "agent" /\ pc = "finish"
  /\ IF had \/ second THEN mark_consumed(HitlFile) ELSE UNCHANGED rec
  /\ Go("advance")
  /\ UNCHANGED waitVars /\ NodeStep

Advance ==
  /\ pos = "agent" /\ pc = "advance"
  /\ pos' = "node" /\ Leave("enter")
  /\ UNCHANGED <<cfg, rec, cycle, diff, waitVars, chatVars, envVars>>
-----------------------------------------------------------------------------
(* HitlNodeRunner and the publish node's gate.                              *)

\* _obtain: ask, wait again, or replay what the file holds.
EnterNode ==
  /\ pos = "node" /\ pc = "enter"
  /\ LET r == rec[NodeFile] IN
     IF r = NoRecord THEN Request(NodeFile) /\ UNCHANGED waitVars
     ELSE IF r.status = "waiting" THEN Resume(NodeFile)
     ELSE IF r.status \in {"answered", "consumed"}
       THEN /\ pc' = "result" /\ file' = NodeFile /\ UNCHANGED <<resumed, had, second, out>>
            /\ UNCHANGED waitVars
     ELSE Manual /\ UNCHANGED waitVars
  /\ UNCHANGED rec /\ NodeStep

NodeResult ==
  /\ pos = "node" /\ pc = "result"
  /\ IF ~Answered(rec[file]) THEN Manual /\ UNCHANGED rec
     ELSE mark_consumed(file) /\ Go("route")
  /\ UNCHANGED waitVars /\ NodeStep

\* Mutant: a denial goes back to the agent whatever the budget.
RouteNode_NoBudget ==
  /\ pos = "node" /\ pc = "route"
  /\ IF rec[NodeFile].answer = "yes" THEN pos' = "publish" /\ UNCHANGED cycle
     ELSE pos' = "agent" /\ cycle' = cycle + 1
  /\ Leave("enter")
  /\ UNCHANGED <<cfg, rec, diff, waitVars, chatVars, envVars>>

\* route:approve goes to publication, route:deny back to the agent while the
\* fix budget lasts.
RouteNode ==
  /\ pos = "node" /\ pc = "route"
  /\ IF rec[NodeFile].answer = "yes" THEN pos' = "publish" /\ Leave("enter") /\ UNCHANGED cycle
     ELSE IF cycle < MaxCycle THEN pos' = "agent" /\ cycle' = cycle + 1 /\ Leave("enter")
     ELSE UNCHANGED <<pos, cycle>> /\ Manual
  /\ UNCHANGED <<cfg, rec, diff, waitVars, chatVars, envVars>>

\* A node between the writing node and publication may write: it only warns.
LateWrite ==
  /\ pos = "publish" /\ pc = "enter"
  /\ diff' \in Diffs
  /\ UNCHANGED <<cfg, rec, pos, cycle, nodeVars, waitVars, chatVars, envVars>>

\* _require_dangerous_diff_approval: a waiting or failed file asks anew.
EnterPublish ==
  /\ pos = "publish" /\ pc = "enter"
  /\ IF dangerous = NoDanger THEN Go("publish") /\ UNCHANGED rec
     ELSE IF consume_prior_approval(dangerous)
       THEN /\ Go("publish")
            /\ IF rec[PublishFile] # NoRecord THEN mark_consumed(PublishFile) ELSE UNCHANGED rec
     ELSE Request(PublishFile) /\ UNCHANGED rec
  /\ UNCHANGED waitVars /\ NodeStep

PublishResult ==
  /\ pos = "publish" /\ pc = "result"
  /\ IF Answered(rec[file]) /\ rec[file].answer = "yes"
     THEN mark_consumed(file) /\ Go("publish")
     ELSE Manual /\ UNCHANGED rec
  /\ UNCHANGED waitVars /\ NodeStep

Publish ==
  /\ pos = "publish" /\ pc = "publish"
  /\ pos' = "done" /\ Leave("done")
  /\ UNCHANGED <<cfg, rec, cycle, diff, waitVars, chatVars, envVars>>
-----------------------------------------------------------------------------
(* The operator, the person in the chat, the clock and the process.         *)

Resettable == {"waiting"} \cup AskFailure

\* Mutant: every settled question is asked again.
reset_pending_interactions_All(r) == [f \in Files |-> NoRecord]

reset_pending_interactions(r) ==
  [f \in Files |-> IF r[f].status \in Resettable THEN NoRecord ELSE r[f]]

consume_pending_interactions(r) ==
  [f \in Files |-> IF r[f].status \in Resettable THEN [r[f] EXCEPT !.status = "consumed"]
                   ELSE r[f]]

\* rerun --continue: unanswered prompts are forgotten, the node runs again.
Continue ==
  /\ pc \in {"manual", "failed"}
  /\ rec' = reset_pending_interactions(rec)
  /\ stop' = FALSE
  /\ Go("enter")
  /\ UNCHANGED <<cfg, flowVars, waitVars, chatVars, faults>>

\* rerun --finalize: unanswered prompts are closed.
Finalize ==
  /\ pc = "manual"
  /\ rec' = consume_pending_interactions(rec)
  /\ pos' = "closed" /\ Go("done")
  /\ UNCHANGED <<cfg, cycle, diff, waitVars, chatVars, envVars>>

Stop ==
  /\ pc \notin {"manual", "done", "failed"} /\ ~stop /\ stop' = TRUE
  /\ faults < MaxFaults /\ faults' = faults + 1
  /\ UNCHANGED <<cfg, rec, flowVars, nodeVars, waitVars, chatVars>>

\* The process dies; recovery enters the checkpointed node again.
Crash ==
  /\ pc \notin {"manual", "done", "failed"} /\ faults < MaxFaults
  /\ faults' = faults + 1 /\ stop' = FALSE
  /\ Leave("enter") /\ handle' = NoHandle /\ seen' = 0 /\ reply' = "none"
  /\ UNCHANGED <<cfg, rec, flowVars, chatVars>>

\* A person answers any prompt ever sent, in time or not, once or again.
Reply ==
  /\ Len(updates) < MaxUpdates
  /\ \E m \in DOMAIN sent :
       \E v \in IF sent[m].request.kind = "question" THEN {"text"} ELSE {"yes", "no"} :
         updates' = Append(updates, [to |-> m, val |-> v])
  /\ UNCHANGED <<cfg, rec, flowVars, nodeVars, waitVars, sent, confirmed, late, envVars>>

\* Deadlines pass, in the order of the prompts.
Expire ==
  /\ late < Len(sent) /\ late' \in (late + 1)..Len(sent)
  /\ UNCHANGED <<cfg, rec, flowVars, nodeVars, waitVars, sent, updates, confirmed, envVars>>

Waiting == StartAsk \/ WriteWaiting \/ Fetch \/ (\E why \in AskFailure \ {"invalid_response"} : GiveUp(why)) \/ WriteAnswer

Runner ==
  \/ EnterAgent \/ HitlResult \/ TurnCheck \/ TurnResult \/ Invoke \/ Ran \/ Guard
  \/ GuardResult \/ Reconsidered \/ FinishAgent \/ Advance
  \/ EnterNode \/ NodeResult \/ RouteNode
  \/ EnterPublish \/ PublishResult \/ Publish

Next ==
  \/ Waiting \/ Runner \/ LateWrite
  \/ Continue \/ Finalize \/ Stop \/ Crash \/ Reply \/ Expire

Spec == Init /\ [][Next]_vars

\* The process steps and the clock moves: nothing is assumed of the person.
FairSpec == Spec /\ WF_vars(Waiting) /\ WF_vars(Runner) /\ WF_vars(Expire)
-----------------------------------------------------------------------------
Records ==
  [status : {"waiting", "answered", "consumed", "reconsidering", "reconsidered"} \cup AskFailure,
   request : Signals, handle : [msg : 0..MaxPrompts, offset : 0..MaxUpdates],
   answer : Answers \cup {"none"}, failure : AskFailure \cup {"none"}]

TypeOK ==
  /\ cfg \in Configs
  /\ rec \in [Files -> Records \cup {NoRecord}]
  /\ pos \in {"agent", "node", "publish", "done", "closed"} /\ cycle \in 0..MaxCycle
  /\ diff \in Diffs
  /\ pc \in {"enter", "turn", "invoke", "ran", "typed", "guard", "reconsider", "reconsidered",
            "finish", "advance", "route", "publish", "start", "write", "poll", "result",
            "manual", "failed", "done"}
  /\ file \in Files /\ resumed \in BOOLEAN /\ had \in BOOLEAN /\ second \in BOOLEAN
  /\ out \in RunEnds
  /\ handle \in [msg : 0..MaxPrompts, offset : 0..MaxUpdates] /\ seen \in 0..MaxUpdates
  /\ reply \in {"none"} \cup Answers \cup AskFailure
  /\ sent \in Seq([own : BOOLEAN, request : Signals]) /\ Len(sent) <= MaxPrompts
  /\ updates \in Seq([to : 1..MaxPrompts, val : Answers]) /\ Len(updates) <= MaxUpdates
  /\ confirmed \in 0..MaxUpdates /\ late \in 0..MaxPrompts
  /\ stop \in BOOLEAN /\ faults \in 0..MaxFaults

\* An answer in a file was given by a person to the prompt of that very ask,
\* sent for the request the file holds: a late press of an older
\* prompt, or of another gate of the same node, is never taken for it, though
\* all of them carry the same interaction id (telegram.py poll_reply).
AnswersOwnPrompt ==
  \A f \in Files :
    rec[f] # NoRecord /\ rec[f].answer # "none" =>
      /\ sent[rec[f].handle.msg] = Prompt(f, rec[f].request)
      /\ \E i \in DOMAIN updates : updates[i] = [to |-> rec[f].handle.msg, val |-> rec[f].answer]

\* A change that needs approval leaves the writing node, and is published, only
\* if a person said yes to a prompt of this task asked for exactly its risk and
\* its paths, whatever restarts, retries and replays came between. In a flow
\* whose agents may not ask that prompt is the core's and named both; in one
\* whose agents may, it can be the agent's own ask (already_approved_in_task).
GuardedDiff ==
  pos \in {"node", "done"} /\ dangerous # NoDanger =>
    \E i \in DOMAIN updates :
      LET prompt == sent[updates[i].to] IN
      /\ updates[i].val = "yes" /\ prompt.request = Signal("approval", dangerous)
      /\ prompt.own => cfg.hitl

\* A recorded denial of a writing node's change is never turned into an
\* approval in the same cycle: not by a restart, not by rerun --continue.
DenialStands ==
  [][\A f \in Files : f[1] = "guard" /\ rec[f] # NoRecord /\ rec[f].answer = "no"
        => rec'[f] # NoRecord /\ rec'[f].answer = "no"]_vars

\* A wait always ends, by an answer, a failure or its deadline, also when its
\* prompt was sent by a process that has died since.
AskEnds == pc = "poll" ~> pc # "poll"

\* Whatever was acted on was given by a person, to the prompt that asked for it.
AsksSafe == TypeOK /\ AnswersOwnPrompt /\ GuardedDiff
=============================================================================
