----------------------------- MODULE GitPublish -----------------------------
(***************************************************************************)
(* Publication of one task: the commits, the adoption of what others put   *)
(* on the branch, the push, the pull request and its merge                 *)
(* (git_manager.py, nodes/publish.py), the publication of a failed attempt *)
(* and merge-task (core/orchestrator.py), over the publish_operations rows *)
(* (state_store.py), a remote other people push to, crashes between any    *)
(* two writes, rerun and rerun --continue.                                 *)
(*                                                                         *)
(* A sha is the set of commits reachable from it, so "is an ancestor of"   *)
(* is \subseteq and a rev-list count is a cardinality. The flow up to the  *)
(* publish node is one stage, "work".                                      *)
(***************************************************************************)
EXTENDS Integers, FiniteSets

CONSTANTS
  Scopes,         \* the publish caps tasks may carry: "commit", "push", "pull_request"
  FromNodes,      \* the stages rerun --continue --from may name
  MaxCommands,    \* bound: rerun, rerun --continue and merge-task calls
  MaxEvents       \* bound: crashes, and acts of agents and people on the branch, its base and its PR

Makers == {"code", "audit", "merge", "agent", "foreign", "base"}
Commits == Makers \X Nat
By(c) == c[1]
Shas == {s \in SUBSET Commits : IsFiniteSet(s)}

\* No such ref, or no answer from the remote.
NoSha == {<<"none", 0>>}

ASSUME PublishAssumption ==
  /\ Scopes \subseteq {"commit", "push", "pull_request"}
  /\ FromNodes \subseteq {"work", "publish"}
  /\ {MaxCommands, MaxEvents} \subseteq Nat

Kinds == {"code", "audit", "merge", "push", "pr", "pr_merge"}

VARIABLES
  \* the clone, the remote and GitHub
  dirty,    \* the working tree holds uncommitted code paths
  filed,    \* the task file's move into done/ or failed/: "no", "moved", "committed"
  local,    \* the tip of the task branch in the clone
  remote,   \* its tip on origin
  base,     \* origin's base branch
  start,    \* the base branch when the task branch was created
  merging,  \* MERGE_HEAD exists
  pr,
  \* the task's rows
  op,       \* status of its publish operation, per kind
  pushed,   \* pushed_sha of the push operation
  ref,      \* gate_reference_sha
  life, at, \* the row's status, the stage of its checkpoint
  scope,
  \* the process
  pc, mode, \* mode: "publish" (the node), "fail" (_fail), "merge" (merge_task)
  adopted,  \* _adopted_commits, the count the PR body reports
  fetched,  \* the tip being merged in
  ret,      \* where the merge returns to
  lease,
  \* bounds and history
  minted, commands, events,
  checked,  \* the checks have passed over what the branch and the tree hold
  fresh,    \* the tree holds content no dangerous-diff gate has measured
  unasked   \* commits with such content

repo == <<dirty, filed, local, remote, base, start, merging, pr>>
store == <<op, pushed, ref, life, at, scope>>
process == <<pc, mode, adopted, fetched, ret, lease>>
bounds == <<minted, commands, events>>
history == <<checked, fresh, unasked>>
vars == <<repo, store, process, bounds, history>>

PCs == {"idle", "down", "work", "finalize", "gate", "code", "commit", "crecord", "crefer",
        "audit", "arecord", "adopt", "merge", "mcommit", "mrecord", "mrefer", "recheck",
        "push", "start", "send", "sent", "pr", "create", "precord", "update", "pmerge",
        "pmrecord", "finish"}

RepoOK ==
  /\ dirty \in BOOLEAN /\ filed \in {"no", "moved", "committed"} /\ merging \in BOOLEAN
  /\ local \in Shas /\ remote \in Shas \cup {NoSha} /\ base \in Shas /\ start \in Shas
  /\ pr \in {"none", "open", "closed", "merged"}

StoreOK ==
  /\ op \in [Kinds -> {"none", "started", "completed"}]
  /\ pushed \in Shas \cup {NoSha} /\ ref \in Shas \cup {NoSha}
  /\ life \in {"active", "failed", "manual", "done"} /\ at \in {"work", "publish"}
  /\ scope \in Scopes

ProcessOK ==
  /\ pc \in PCs /\ mode \in {"publish", "fail", "merge"}
  /\ adopted \in Nat /\ fetched \in Shas /\ ret \in {"recheck", "start", "update"}
  /\ lease \in Shas \cup {NoSha}

BoundsOK ==
  /\ minted \in Nat
  /\ commands \in 0..MaxCommands /\ events \in 0..MaxEvents

HistoryOK == checked \in BOOLEAN /\ fresh \in BOOLEAN /\ unasked \in Shas

TypeOK == RepoOK /\ StoreOK /\ ProcessOK /\ BoundsOK /\ HistoryOK

Init ==
  /\ dirty = FALSE /\ filed = "no" /\ local = {} /\ remote = NoSha /\ base = {} /\ start = {}
  /\ merging = FALSE /\ pr = "none"
  /\ op = [k \in Kinds |-> "none"] /\ pushed = NoSha /\ ref = NoSha
  /\ life = "active" /\ at = "work" /\ scope \in Scopes
  /\ pc = "work" /\ mode = "publish" /\ adopted = 0 /\ fetched = {} /\ ret = "recheck" /\ lease = NoSha
  /\ minted = 0 /\ commands = 0 /\ events = 0
  /\ checked = FALSE /\ fresh = FALSE /\ unasked = {}

-----------------------------------------------------------------------------
(* Shapes of steps. *)

Goto(p) == pc' = p /\ UNCHANGED <<mode, adopted, fetched, ret, lease>>
Record(kind, status) == op' = [op EXCEPT ![kind] = status]
Mint(maker) == <<maker, minted>>
Minting == minted' = minted + 1 /\ UNCHANGED <<commands, events>>

\* An error: the publish node parks the task as manual, _fail goes on to its terminal
\* status, merge_task aborts the merge and leaves the task alone.
Ends == IF mode = "publish" THEN {"manual"} ELSE IF mode = "fail" THEN {"failed", "manual"} ELSE {life}
Halt ==
  /\ merging' = FALSE /\ life' \in Ends
  /\ Goto("idle")
  /\ UNCHANGED <<dirty, filed, local, base, start, pr, op, pushed, ref, at, scope, bounds, history>>

\* The last commit recorded for the task, or its start.
gate_reference == IF ref = NoSha THEN start ELSE ref

-----------------------------------------------------------------------------
(* The flow before the publish node. *)

AgentWrites ==
  /\ pc = "work" /\ ~(dirty /\ fresh)
  /\ dirty' = TRUE /\ fresh' = TRUE /\ checked' = FALSE
  /\ UNCHANGED <<filed, local, remote, base, start, merging, pr, store, process, bounds, unasked>>

\* The agent commits its work itself, or amends the last commit with it.
AgentCommits ==
  /\ pc = "work" /\ dirty /\ events < MaxEvents
  /\ \E dropped \in SUBSET {c \in local : By(c) \in {"code", "audit", "agent"}
                                          /\ \A d \in local : d[2] <= c[2]} :
       /\ local' = (local \ dropped) \cup {Mint("agent")}
       /\ unasked' = IF fresh \/ dropped \cap unasked # {} THEN unasked \cup {Mint("agent")} ELSE unasked
  /\ dirty' = FALSE /\ fresh' = FALSE
  /\ minted' = minted + 1 /\ events' = events + 1
  /\ UNCHANGED <<filed, remote, base, start, merging, pr, store, process, commands, checked>>

\* A gate measures the change from the reference: what lies behind it is not seen.
GateMeasures == fresh' = FALSE /\ unasked' = unasked \ (local \ gate_reference)

\* The writing node's gate and the checks node pass: the flow goes on to publish.
WorkPasses ==
  /\ pc = "work"
  /\ GateMeasures /\ checked' = TRUE
  /\ at' = "publish" /\ Goto("finalize")
  /\ UNCHANGED <<repo, op, pushed, ref, life, scope, bounds>>

\* The flow stops for the operator, or a provider failure sends it to _fail.
WorkStops ==
  /\ pc = "work" /\ life' = "manual" /\ Goto("idle")
  /\ UNCHANGED <<repo, op, pushed, ref, at, scope, bounds, history>>

WorkFails ==
  /\ pc = "work"
  /\ pc' = "finalize" /\ mode' = "fail" /\ UNCHANGED <<adopted, fetched, ret, lease>>
  /\ UNCHANGED <<repo, store, bounds, history>>

-----------------------------------------------------------------------------
(* The commits. *)

\* _finalize_task_artifacts; _fail asks no gate.
FinalizeTask ==
  /\ pc = "finalize"
  /\ filed' = IF filed = "no" THEN "moved" ELSE filed
  /\ Goto(IF mode = "fail" THEN "code" ELSE "gate")
  /\ UNCHANGED <<dirty, local, remote, base, start, merging, pr, store, bounds, history>>

DangerousDiffGate ==
  /\ pc = "gate"
  /\ \/ GateMeasures /\ Goto("code") /\ UNCHANGED <<repo, store, bounds, checked>>
     \/ Halt /\ UNCHANGED remote

\* _adopt_committed_head: nothing to commit. Commits beyond the reference are taken
\* for somebody else's.
AdoptCommittedHead ==
  /\ pc = "code" /\ ~dirty
  /\ IF local = gate_reference
       THEN Goto("audit") /\ UNCHANGED op
       ELSE /\ adopted' = adopted + Cardinality(local \ gate_reference)
            /\ Record("code", "completed")
            /\ pc' = "crefer" /\ UNCHANGED <<mode, fetched, ret, lease>>
  /\ UNCHANGED <<repo, pushed, ref, life, at, scope, bounds, history>>

\* _commit: a completed operation is not repeated.
CommitStart ==
  /\ pc = "code" /\ dirty
  /\ IF op["code"] = "completed"
       THEN Goto("audit") /\ UNCHANGED op
       ELSE Goto("commit") /\ Record("code", "started")
  /\ UNCHANGED <<repo, pushed, ref, life, at, scope, bounds, history>>

\* The filters and the staged-set gate may refuse.
CommitCode ==
  /\ pc = "commit"
  /\ \/ /\ local' = local \cup {Mint("code")} /\ dirty' = FALSE
        /\ unasked' = IF fresh THEN unasked \cup {Mint("code")} ELSE unasked
        /\ fresh' = FALSE
        /\ Goto("crecord") /\ Minting
        /\ UNCHANGED <<filed, remote, base, start, merging, pr, store, checked>>
     \/ Halt /\ UNCHANGED remote

CommitRecord ==
  /\ pc = "crecord" /\ Record("code", "completed") /\ Goto("crefer")
  /\ UNCHANGED <<repo, pushed, ref, life, at, scope, bounds, history>>

CommitRefer ==
  /\ pc = "crefer" /\ ref' = local /\ Goto("audit")
  /\ UNCHANGED <<repo, op, pushed, life, at, scope, bounds, history>>

\* commit_audit: the lifecycle files, unless they are recorded already. They may be
\* ignored or go to a sibling branch: then this branch gets no commit. The packet
\* check may refuse.
CommitAudit ==
  /\ pc = "audit"
  /\ \/ /\ op["audit"] # "completed" /\ filed = "moved"
        /\ local' = local \cup {Mint("audit")} /\ filed' = "committed"
        /\ Goto("arecord") /\ Minting
        /\ UNCHANGED <<dirty, remote, base, start, merging, pr, store, history>>
     \/ Goto("arecord") /\ UNCHANGED <<repo, store, bounds, history>>
     \/ op["audit"] # "completed" /\ Halt /\ UNCHANGED remote

\* A "commit" cap ends here; _fail pushes without the adoption step.
AuditRecord ==
  /\ pc = "arecord" /\ Record("audit", "completed")
  /\ Goto(IF mode = "fail" THEN "push" ELSE IF scope = "commit" THEN "finish" ELSE "adopt")
  /\ UNCHANGED <<repo, pushed, ref, life, at, scope, bounds, history>>

-----------------------------------------------------------------------------
(* What others put on the branch. *)

\* Mutant of already_published: the operation's status is taken for the answer.
already_published_StatusOnly == op["push"] = "completed"

already_published == op["push"] = "completed" /\ pushed = local

\* The remote tip is the commit we recorded leaving there.
OursToReplace(seen) == pushed = seen

\* What ls-remote says; an unreachable remote reads as no branch.
Probe == {remote, NoSha}

\* adopt_foreign_commits.
AdoptForeign ==
  /\ pc = "adopt"
  /\ \E seen \in Probe :
       IF already_published \/ seen = NoSha \/ seen \subseteq local \/ OursToReplace(seen)
         THEN Goto("push")
         ELSE pc' = "merge" /\ ret' = "recheck" /\ UNCHANGED <<mode, adopted, fetched, lease>>
  /\ UNCHANGED <<repo, store, bounds, history>>

\* _adopt_remote_commits: fetch and merge. A fast-forward leaves nothing to commit; a
\* conflict, or a merge operation spent earlier, aborts the merge and parks the task.
AdoptMerge ==
  /\ pc = "merge"
  /\ \/ /\ local \subseteq remote
        /\ local' = remote /\ checked' = FALSE
        /\ Goto(ret)
        /\ UNCHANGED <<dirty, filed, remote, base, start, merging, pr, store, bounds, fresh, unasked>>
     \/ /\ ~(local \subseteq remote) /\ op["merge"] # "completed"
        /\ merging' = TRUE /\ fetched' = remote /\ Record("merge", "started")
        /\ pc' = "mcommit" /\ UNCHANGED <<mode, adopted, ret, lease>>
        /\ UNCHANGED <<dirty, filed, local, remote, base, start, pr, pushed, ref, life, at, scope,
                       bounds, history>>
     \/ Halt /\ UNCHANGED remote

\* commit_merge_resolution commits the whole tree.
MergeCommit ==
  /\ pc = "mcommit"
  /\ \/ /\ local' = local \cup fetched \cup {Mint("merge")}
        /\ merging' = FALSE /\ dirty' = FALSE /\ fresh' = FALSE /\ checked' = FALSE
        /\ unasked' = IF fresh THEN unasked \cup {Mint("merge")} ELSE unasked
        /\ Goto("mrecord") /\ Minting
        /\ UNCHANGED <<filed, remote, base, start, pr, store>>
     \/ Halt /\ UNCHANGED remote

MergeRecord ==
  /\ pc = "mrecord" /\ Record("merge", "completed") /\ Goto("mrefer")
  /\ UNCHANGED <<repo, pushed, ref, life, at, scope, bounds, history>>

MergeRefer ==
  /\ pc = "mrefer" /\ ref' = local /\ Goto(ret)
  /\ UNCHANGED <<repo, op, pushed, life, at, scope, bounds, history>>

\* _recheck_adopted: the checks over the combination, before anything is published.
Recheck ==
  /\ pc = "recheck"
  /\ \/ checked' = TRUE /\ Goto("push") /\ UNCHANGED <<repo, store, bounds, fresh, unasked>>
     \/ Halt /\ UNCHANGED remote

-----------------------------------------------------------------------------
(* push *)

AfterPush ==
  IF mode = "fail" THEN "finish" ELSE IF scope = "push" THEN "finish" ELSE "pr"

Push ==
  /\ pc = "push"
  /\ IF already_published
       THEN Goto(AfterPush) /\ UNCHANGED <<op, pushed>>
       ELSE \E seen \in Probe :
              CASE seen = local ->
                     Goto(AfterPush) /\ Record("push", "completed") /\ pushed' = seen
                [] seen = NoSha \/ (seen # local /\ seen \subseteq local) ->
                     /\ pc' = "start" /\ lease' = NoSha /\ UNCHANGED <<mode, adopted, fetched, ret>>
                     /\ UNCHANGED <<op, pushed>>
                [] OTHER ->
                     /\ IF OursToReplace(seen)
                          THEN pc' = "start" /\ lease' = pushed /\ UNCHANGED ret
                          ELSE pc' = "merge" /\ lease' = NoSha /\ ret' = "start"
                     /\ UNCHANGED <<mode, adopted, fetched, op, pushed>>
  /\ UNCHANGED <<repo, ref, life, at, scope, bounds, history>>

PushStart ==
  /\ pc = "start" /\ Record("push", "started") /\ Goto("send")
  /\ UNCHANGED <<repo, pushed, ref, life, at, scope, bounds, history>>

\* Mutant of Accepted: the lease is sent as a plain force.
Accepted_NoLease == lease # NoSha \/ remote = NoSha \/ remote \subseteq local

\* origin takes a fast-forward, or the replacement of exactly the leased tip.
Accepted == IF lease # NoSha THEN remote = lease ELSE remote = NoSha \/ remote \subseteq local

\* The push lands, and is known to have landed or not; or it does not.
Send ==
  /\ pc = "send"
  /\ \/ /\ Accepted /\ remote' = local /\ Goto("sent")
        /\ UNCHANGED <<dirty, filed, local, base, start, merging, pr, store, bounds, history>>
     \/ Accepted /\ remote' = local /\ Halt
     \/ Halt /\ UNCHANGED remote

PushRecord ==
  /\ pc = "sent" /\ Record("push", "completed") /\ pushed' = local /\ Goto(AfterPush)
  /\ UNCHANGED <<repo, ref, life, at, scope, bounds, history>>

-----------------------------------------------------------------------------
(* The pull request and the end of the run. *)

\* create_pr: a recorded one is kept, an open one on this head is reused; the list of
\* open ones may not answer.
CreatePr ==
  /\ pc = "pr"
  /\ \/ op["pr"] = "completed" /\ Goto("finish") /\ UNCHANGED op
     \/ op["pr"] # "completed" /\ pr = "open" /\ Goto("precord") /\ UNCHANGED op
     \/ op["pr"] # "completed" /\ Goto("create") /\ Record("pr", "started")
  /\ UNCHANGED <<repo, pushed, ref, life, at, scope, bounds, history>>

\* gh pr create refuses a second one on the head, and may fail after it took effect.
GhCreate ==
  /\ pc = "create"
  /\ \/ /\ pr # "open" /\ pr' = "open" /\ Goto("precord")
        /\ UNCHANGED <<dirty, filed, local, remote, base, start, merging, store, bounds, history>>
     \/ /\ pr # "open" /\ pr' = "open" /\ life' = "manual" /\ Goto("idle")
        /\ UNCHANGED <<dirty, filed, local, remote, base, start, merging, op, pushed, ref, at, scope,
                       bounds, history>>
     \/ Halt /\ UNCHANGED remote

PrRecord ==
  /\ pc = "precord" /\ Record("pr", "completed") /\ Goto("finish")
  /\ UNCHANGED <<repo, pushed, ref, life, at, scope, bounds, history>>

\* Mutant of DoneIfClean: the demotion leaves the status unset.
DoneIfClean_Unset == IF dirty THEN "unset" ELSE "done"

\* A tree that cannot be cleaned is not done.
DoneIfClean == IF dirty THEN "manual" ELSE "done"

\* _finish_engine_run, with auto-merge on or off.
Finish ==
  /\ pc = "finish"
  /\ \/ mode = "publish" /\ op["pr"] = "completed" /\ Goto("pmerge") /\ UNCHANGED life
     \/ /\ life' \in IF mode = "fail" THEN Ends ELSE {DoneIfClean}
        /\ Goto("idle")
  /\ UNCHANGED <<repo, op, pushed, ref, at, scope, bounds, history>>

\* merge_pr: a recorded merge is kept. One attempt; the pull request may have been
\* merged already, and armed it is left to GitHub.
MergePr ==
  /\ pc = "pmerge"
  /\ \/ op["pr_merge"] = "completed" /\ Goto("pmrecord") /\ UNCHANGED <<op, life, merging, pr, base>>
     \/ /\ op["pr_merge"] # "completed" /\ Record("pr_merge", "started")
        /\ \/ /\ pr = "open" /\ pr' = "merged" /\ base' = base \cup remote
              /\ Goto("pmrecord") /\ UNCHANGED <<life, merging>>
           \/ pr # "closed" /\ Goto("pmrecord") /\ UNCHANGED <<life, merging, pr, base>>
           \/ merging' = FALSE /\ life' \in Ends /\ Goto("idle") /\ UNCHANGED <<pr, base>>
  /\ UNCHANGED <<dirty, filed, local, remote, start, pushed, ref, at, scope, bounds, history>>

\* A merge lifts the manual stop of a task (_merge_finalize), if its tree allows.
Lifted == IF life = "manual" THEN {"manual", "done"} ELSE {life}

MergePrRecord ==
  /\ pc = "pmrecord" /\ Record("pr_merge", "completed")
  /\ life' \in IF mode = "publish" THEN {DoneIfClean} ELSE Lifted
  /\ Goto("idle")
  /\ UNCHANGED <<repo, pushed, ref, at, scope, bounds, history>>

-----------------------------------------------------------------------------
(* Crashes and commands. *)

Fresh(p) ==
  /\ pc' = p /\ mode' = "publish" /\ adopted' = 0 /\ fetched' = {} /\ ret' = "recheck"
  /\ lease' = NoSha

\* merge-task does not make the row active, so nothing resumes it.
Crash ==
  /\ pc \notin {"idle", "down"} /\ events < MaxEvents
  /\ Fresh(IF mode = "merge" THEN "idle" ELSE "down")
  /\ events' = events + 1
  /\ UNCHANGED <<repo, store, minted, commands, history>>

\* Mutant of Reattached: the branch is checked out with the merge still in flight.
Reattached_KeepsMerge == UNCHANGED merging

\* prepare_branch on a branch that exists: an interrupted merge is aborted.
Reattached == merging' = FALSE

Enter(stage) == IF stage = "work" THEN "work" ELSE "finalize"

Resume ==
  /\ pc = "down" /\ Reattached /\ Fresh(Enter(at))
  /\ UNCHANGED <<dirty, filed, local, remote, base, start, pr, store, bounds, history>>

Commanded ==
  /\ pc = "idle" /\ commands < MaxCommands
  /\ commands' = commands + 1 /\ UNCHANGED <<minted, events>>

\* rerun --continue: the publish operations are kept.
Continue(stage) ==
  /\ Commanded /\ life \in {"failed", "manual"} /\ stage \in {at} \cup FromNodes
  /\ Reattached /\ life' = "active" /\ at' = stage /\ Fresh(Enter(stage))
  /\ UNCHANGED <<dirty, filed, local, remote, base, start, pr, op, pushed, ref, scope, history>>

\* A fresh rerun: the branch is rebuilt from the base and the operations are cleared.
\* The attempt keeps the branch's name if the task file sets it, unless the remote
\* branch is deleted on request.
Rerun(sameName) ==
  /\ Commanded /\ life \in {"failed", "manual"} /\ ~dirty /\ ~merging
  /\ local' = base /\ start' = base /\ filed' = "no"
  /\ IF sameName THEN UNCHANGED <<remote, pr>> ELSE remote' = NoSha /\ pr' = "none"
  /\ op' = [k \in Kinds |-> "none"] /\ pushed' = NoSha
  /\ life' = "active" /\ at' = "work" /\ Fresh("work")
  /\ checked' = FALSE /\ fresh' = FALSE /\ unasked' = {}
  /\ UNCHANGED <<dirty, base, merging, ref, scope>>

\* merge_task: the base is merged into the branch. A completed merge operation is not
\* repeated; a conflict goes through the merge flow, or the merge is aborted.
MergeTask ==
  /\ Commanded /\ life # "active" /\ op["pr"] = "completed"
  /\ mode' = "merge" /\ adopted' = 0 /\ fetched' = base /\ ret' = "update" /\ lease' = NoSha
  /\ local' = IF local \subseteq base THEN base ELSE local
  /\ merging' = ~(base \subseteq local \/ local \subseteq base)
  /\ IF merging' /\ op["merge"] # "completed"
       THEN pc' = "mcommit" /\ Record("merge", "started")
       ELSE pc' = "update" /\ UNCHANGED op
  /\ UNCHANGED <<dirty, filed, remote, base, start, pr, pushed, ref, life, at, scope, history>>

\* push_branch_update: a plain push, outside the push operation.
Update ==
  /\ pc = "update"
  /\ \/ /\ remote # NoSha /\ remote \subseteq local /\ remote' = local /\ Goto("pmerge")
        /\ UNCHANGED <<dirty, filed, local, base, start, merging, pr, store, bounds, history>>
     \/ Halt /\ UNCHANGED remote

\* prs --sync, and merge_task when it finds the pull request merged.
RecordExternalMerge ==
  /\ pc = "idle" /\ op["pr"] = "completed" /\ op["pr_merge"] # "completed" /\ pr = "merged"
  /\ Record("pr_merge", "completed") /\ life' \in Lifted
  /\ UNCHANGED <<repo, pushed, ref, at, scope, process, bounds, history>>

-----------------------------------------------------------------------------
(* Other people. *)

Acting == events < MaxEvents /\ events' = events + 1

ForeignPush ==
  /\ Acting /\ remote' = (IF remote = NoSha THEN base ELSE remote) \cup {Mint("foreign")}
  /\ minted' = minted + 1
  /\ UNCHANGED <<dirty, filed, local, base, start, merging, pr, store, process, commands,
                 history>>

BaseMoves ==
  /\ Acting /\ base' = base \cup {Mint("base")} /\ minted' = minted + 1
  /\ UNCHANGED <<dirty, filed, local, remote, start, merging, pr, store, process, commands,
                 history>>

PersonOnPr ==
  /\ Acting /\ pr = "open"
  /\ \/ pr' = "closed" /\ UNCHANGED base
     \/ pr' = "merged" /\ base' = base \cup remote
  /\ UNCHANGED <<dirty, filed, local, remote, start, merging, store, process, minted, commands,
                 history>>

-----------------------------------------------------------------------------
Flow == AgentWrites \/ AgentCommits \/ WorkPasses \/ WorkStops \/ WorkFails

Committing ==
  \/ FinalizeTask \/ DangerousDiffGate \/ AdoptCommittedHead \/ CommitStart \/ CommitCode
  \/ CommitRecord \/ CommitRefer \/ CommitAudit \/ AuditRecord

Adopting == AdoptForeign \/ AdoptMerge \/ MergeCommit \/ MergeRecord \/ MergeRefer \/ Recheck

Pushing == Push \/ PushStart \/ Send \/ PushRecord \/ Update

Reviewing == CreatePr \/ GhCreate \/ PrRecord \/ Finish \/ MergePr \/ MergePrRecord

Commands ==
  \/ \E stage \in {"work", "publish"} : Continue(stage)
  \/ \E sameName \in BOOLEAN : Rerun(sameName)
  \/ MergeTask \/ RecordExternalMerge

Outside == ForeignPush \/ BaseMoves \/ PersonOnPr

Next == Flow \/ Committing \/ Adopting \/ Pushing \/ Reviewing \/ Crash \/ Resume \/ Commands \/ Outside

Spec == Init /\ [][Next]_vars
-----------------------------------------------------------------------------
(* Properties. *)

Foreign(sha) == {c \in sha : By(c) = "foreign"}

\* No push of a run or of merge-task takes a commit somebody else put on the branch off
\* it: not when the remote moved between the probe and the push, not after a crash, not
\* after the agent amended what was pushed (push, its four cases and its lease).
ForeignKept == [][pc # "idle" /\ remote # NoSha => Foreign(remote) \subseteq Foreign(remote')]_vars

\* The pull request is opened, and the task ends as done, only when origin holds every
\* commit of the branch, whatever earlier push the record speaks of (_already_published,
\* push, create_pr).
ReviewSeesAll ==
  mode = "publish" /\ scope # "commit" /\ pc \in {"pr", "create", "precord", "finish", "pmerge"}
    => remote # NoSha /\ local \subseteq remote

\* A run works on a tree without a merge in flight, except while it makes its own: a
\* merge cut short by a crash is aborted when the branch is attached again
\* (prepare_branch, _adopt_remote_commits).
NoMergeInFlight == mode # "merge" /\ pc \notin {"idle", "down", "mcommit"} => ~merging

\* What the documentation says and the code does not keep.

\* plan_rerun: the uncommitted changes a continued task leaves in the tree are committed
\* when the flow reaches publish (_commit).
WorkInReview == mode = "publish" /\ pc = "pr" => ~dirty

\* adopt_foreign_commits: publishing happens only when checks succeed.
CheckedWhenSent == mode = "publish" /\ pc = "sent" => checked

\* _adopt_committed_head: the commits reported as adopted were not made by the
\* orchestrator.
AdoptedNotOurs == adopted <= Cardinality({c \in local : By(c) \in {"agent", "foreign"}})

\* merge_task: the base is pulled into the branch before its pull request is merged.
MergedWithBase ==
  [][mode = "merge" /\ pc = "pmerge" /\ pr = "open" /\ pr' = "merged" => fetched \subseteq remote]_vars

\* reset_task_for_rerun clears all per-attempt state: the gate measures a fresh attempt
\* from a commit of its own branch (gate_reference).
ReferenceOnBranch == ref # NoSha => ref \subseteq local

\* gate_reference: whoever committed it, what the run published was once on the far side
\* of the gate's reference.
GateSawAll == mode = "publish" /\ pc = "sent" => unasked \cap local = {}
=============================================================================
