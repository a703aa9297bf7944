----------------------------- MODULE RunInputs -----------------------------
(***************************************************************************)
(* What an agent is given to work from, and how it survives a restart: the *)
(* exchange directory of the active task, its terminal seals and           *)
(* quarantine, the frozen control bundle (flow, roles, tools) and the      *)
(* frozen instruction bundle (task packet).  One step is one durable write *)
(* of the orchestrator; a crash may fall between any two.  An agent may    *)
(* change the exchange while it runs, and go on doing so when its process  *)
(* tree could not be proven dead.                                          *)
(***************************************************************************)
EXTENDS Integers, Sequences, FiniteSets

CONSTANTS
  Tasks,
  CleanRuns,     \* logging.clean_runs_on_success
  MaxEdits,      \* operator edits of the live flow or task file
  MaxForges,     \* agent writes into the exchange
  MaxFaults,     \* crashes and file-system errors
  MaxCommands,   \* rerun, continue and finalize commands
  MaxNodes       \* nodes launched

ASSUME BoundsAssumption ==
  /\ IsFiniteSet(Tasks) /\ Tasks # {} /\ CleanRuns \in BOOLEAN
  /\ {MaxEdits, MaxForges, MaxFaults, MaxCommands, MaxNodes} \subseteq Nat

\* "packet" is task.md, "work" what nodes publish, "extra" nobody's file.
Files == {"packet", "work", "extra"}
\* seen: forged and found so; bad: a link, a special file, a hard link, a stream.
Contents == {"none", "own", "forged", "seen", "bad"}
Trees == [Files -> Contents]
Empty == [f \in Files |-> "none"]
Absent == [f \in {"packet"} |-> "absent"]
\* The task's entry itself replaced by a link.
Swapped == [f \in {"packet"} |-> "swapped"]
None == [ctl |-> 0, pkt |-> 0]

VARIABLES
  row,       \* status and checkpoint of each task
  flags,     \* exchange_contaminated, exchange_active_unsafe
  stored,    \* digests in the row: control bundle, instruction manifest
  bundle,    \* on disk: control bundle, packet copy, instruction manifest
  live,      \* the operator's files as they are now
  dir,       \* the exchange root: one entry per task
  strays,    \* .restore-<task>.tmp entries in the exchange root
  seals,     \* promoted seal-NNNNNN directories, oldest first
  orphan,    \* tasks whose provider tree was not proven dead
  run,       \* the pass of the one executor
  noticed, forgiven, ran,  \* history: see the properties
  left       \* remaining bounds

vars == <<row, flags, stored, bundle, live, dir, strays, seals, orphan,
          run, noticed, forgiven, ran, left>>
disk == <<bundle, dir, strays, seals>>
history == <<noticed, forgiven, ran>>

Steps == {"idle", "clear", "guard", "restore", "swap", "control", "copy", "store", "packet",
          "publish", "bind", "record", "node", "agent", "check", "post", "flag",
          "terminal", "seal", "promote", "remove", "evict", "rerun"}
Idle == [pc |-> "idle", task |-> CHOOSE t \in Tasks : TRUE, resume |-> FALSE,
         adopt |-> FALSE, in |-> None, before |-> Empty, done |-> FALSE]

Init ==
  /\ row = [t \in Tasks |-> [status |-> "new", ckpt |-> FALSE, fp |-> 0, worked |-> FALSE]]
  /\ flags = [t \in Tasks |-> [contaminated |-> FALSE, unsafe |-> FALSE]]
  /\ stored = [t \in Tasks |-> [ctl |-> 0, inst |-> None]]
  /\ bundle = [t \in Tasks |-> [ctl |-> 0, pkt |-> 0, inst |-> None]]
  /\ live = [ctl |-> 1, pkt |-> 1]
  /\ dir = [t \in Tasks |-> Absent]
  /\ strays = {}
  /\ seals = [t \in Tasks |-> <<>>]
  /\ orphan = {}
  /\ run = Idle
  /\ noticed = [t \in Tasks |-> FALSE]
  /\ forgiven = [t \in Tasks |-> FALSE]
  /\ ran = [t \in Tasks |-> {}]
  /\ left = [edits |-> MaxEdits, forges |-> MaxForges, faults |-> MaxFaults,
             commands |-> MaxCommands, nodes |-> MaxNodes]

cur == run.task
At(pc) == run.pc = pc
Goto(pc) == run' = [run EXCEPT !.pc = pc]
Spend(what) == left[what] > 0 /\ left' = [left EXCEPT ![what] = @ - 1]
Rest(vs) == UNCHANGED vs

-----------------------------------------------------------------------------
(* Trees *)

IsDir(tree) == tree \notin {Absent, Swapped}
\* build_exchange_manifest refuses links, special files and a root that is none.
Sound(tree) == IsDir(tree) /\ \A f \in Files : tree[f] # "bad"
\* diff_exchange_manifests: what a manifest records is name and content.
Manifest(tree) == [f \in {g \in Files : tree[g] # "none"} |->
                     IF tree[f] = "seen" THEN "forged" ELSE tree[f]]
\* Mutant: publishing replaces the directory instead of adding to it.
publish_to_exchange_Replaces(tree, files) == [f \in files |-> "own"]
publish_to_exchange(tree, files) ==
  [f \in Files |-> IF f \in files THEN "own" ELSE IF IsDir(tree) THEN tree[f] ELSE "none"]
\* A linked directory and a target that is no regular file are refused.
Publishable(tree, files) == tree # Swapped /\ (IsDir(tree) => \A f \in files : tree[f] # "bad")
MarkSeen(tree) ==
  IF IsDir(tree) THEN [f \in Files |-> IF tree[f] = "forged" THEN "seen" ELSE tree[f]]
  ELSE tree

-----------------------------------------------------------------------------
(* Ways out of the preamble and of the engine *)

\* A refusal or a node's stop: the terminal transition comes next.
Manual == run' = [run EXCEPT !.pc = "terminal", !.done = FALSE]
\* An exception nobody catches ends the process with the row as it is.
Escape == run' = Idle

-----------------------------------------------------------------------------
(* Operator, watch loop and restart *)

NoneActive == \A t \in Tasks : row[t].status # "active"
Begin(t, resume, adopt) ==
  run' = [Idle EXCEPT !.pc = "clear", !.task = t, !.resume = resume, !.adopt = adopt]

Start(t) ==
  /\ At("idle") /\ NoneActive /\ row[t].status = "new"
  /\ row' = [row EXCEPT ![t].status = "active"]
  /\ Begin(t, FALSE, FALSE)
  /\ Rest(<<flags, stored, live, orphan, disk, history, left>>)

\* A row without a checkpoint is driven from the top.
Recover(t) ==
  /\ At("idle") /\ row[t].status = "active"
  /\ Begin(t, row[t].ckpt, FALSE)
  /\ Rest(<<row, flags, stored, live, orphan, disk, history, left>>)

\* rerun --continue rebaselines the checkpoint to the live flow and adopts it.
Continue(t) ==
  /\ At("idle") /\ NoneActive /\ row[t].status = "manual" /\ row[t].ckpt
  /\ live.ctl # 0
  /\ Spend("commands")
  /\ row' = [row EXCEPT ![t].status = "active", ![t].fp = live.ctl]
  /\ Begin(t, TRUE, TRUE)
  /\ forgiven' = [forgiven EXCEPT ![t] = TRUE]
  /\ ran' = [ran EXCEPT ![t] = {}]
  /\ Rest(<<flags, stored, live, orphan, disk, noticed>>)

\* A fresh rerun: the directory goes first, then the row's flags and checkpoint.
rerun_task(t) ==
  /\ At("idle") /\ NoneActive /\ row[t].status \in {"manual", "done"}
  /\ Spend("commands")
  /\ dir' = [dir EXCEPT ![t] = Absent]
  /\ run' = [Idle EXCEPT !.pc = "rerun", !.task = t]
  /\ Rest(<<row, flags, stored, bundle, live, strays, seals, orphan, history>>)

reset_task_for_rerun ==
  /\ At("rerun")
  /\ row' = [row EXCEPT ![cur] = [status |-> "active", ckpt |-> FALSE, fp |-> 0,
                                  worked |-> FALSE]]
  /\ flags' = [flags EXCEPT ![cur] = [contaminated |-> FALSE, unsafe |-> FALSE]]
  /\ noticed' = [noticed EXCEPT ![cur] = FALSE]
  /\ forgiven' = [forgiven EXCEPT ![cur] = FALSE]
  /\ ran' = [ran EXCEPT ![cur] = {}]
  /\ Goto("clear")
  /\ Rest(<<stored, live, orphan, disk, left>>)

\* finalize: the declared status is set, then the exchange is sealed.
finalize_task(t, done) ==
  /\ At("idle") /\ NoneActive /\ row[t].status = "manual"
  /\ Spend("commands")
  /\ row' = [row EXCEPT ![t].status = IF done THEN "done" ELSE "manual"]
  /\ run' = [Idle EXCEPT !.pc = "seal", !.task = t, !.done = done]
  /\ Rest(<<flags, stored, live, orphan, disk, history>>)

\* The operator edits the flow (0: it no longer resolves) or the task file.
Edit ==
  /\ Spend("edits")
  /\ live' \in {[live EXCEPT !.ctl = 0], [live EXCEPT !.ctl = 2], [live EXCEPT !.pkt = 2]}
  /\ Rest(<<row, flags, stored, orphan, disk, run, history>>)

-----------------------------------------------------------------------------
(* _engine_run: the preamble *)

\* Mutant: only the staging entries are swept.
clear_foreign_exchange_entries_Staging(t) == strays' = {} /\ UNCHANGED dir
\* The entries clear_foreign_exchange_entries keeps: the task's own.
clear_foreign_exchange_entries(t) ==
  /\ dir' = [u \in Tasks |-> IF u = t THEN dir[u] ELSE Absent]
  /\ strays' = {}

ClearForeign ==
  /\ At("clear")
  /\ \/ /\ clear_foreign_exchange_entries(cur)
        /\ IF dir[cur] = Swapped THEN Manual
           ELSE Goto(IF run.resume THEN "guard" ELSE "control")
        /\ Rest(left)
     \/ /\ Spend("faults") /\ Manual      \* an entry cannot be removed
        /\ Rest(<<dir, strays>>)
  /\ Rest(<<row, flags, stored, bundle, live, seals, orphan, history>>)

\* An operator's continue clears the flag; a plain recovery is refused by it.
Lifted == run.adopt /\ flags[cur].contaminated
\* Mutant: the contamination flag is not asked for.
refused_UnsafeOnly == flags[cur].unsafe
refused == flags[cur].unsafe \/ (flags[cur].contaminated /\ ~run.adopt)

\* A live directory is verified and reused; a bad entry in it raises what the
\* caller does not catch.
ensure_current_exchange ==
  /\ At("guard")
  /\ flags' = [flags EXCEPT ![cur].contaminated = @ /\ ~Lifted]
  /\ CASE refused -> Manual
       [] ~refused /\ dir[cur] # Absent /\ ~Sound(dir[cur]) -> Escape
       [] ~refused /\ Sound(dir[cur]) -> Goto("control")
       [] ~refused /\ dir[cur] = Absent ->
            Goto(IF seals[cur] = <<>> THEN "control" ELSE "restore")
  /\ Rest(<<row, stored, live, orphan, disk, history, left>>)

latest == seals[cur][Len(seals[cur])]
\* The newest seal, if its content still has the digest it was sealed with.
restore_for_continue ==
  /\ At("restore")
  /\ \/ /\ IF Manifest(latest.tree) = latest.manifest
           THEN strays' = strays \cup {cur} /\ Goto("swap")
           ELSE Manual /\ Rest(strays)
        /\ Rest(left)
     \/ Spend("faults") /\ Escape /\ Rest(strays)
  /\ Rest(<<row, flags, stored, bundle, live, dir, seals, orphan, history>>)

\* The staged copy is renamed to the task's directory.
PromoteRestored ==
  /\ At("swap")
  /\ strays' = strays \ {cur}
  /\ dir' = [dir EXCEPT ![cur] = latest.tree]
  /\ Goto("control")
  /\ Rest(<<row, flags, stored, bundle, live, seals, orphan, history, left>>)

\* inspect_frozen_source, digest_entries: a bundle has an identity when each
\* referenced input is a real file of its own.
Digestible(version) == version # 0

\* Fresh or adopting: the old bundle goes, the live inputs are copied.
_freeze_live_control_bundle ==
  /\ At("control") /\ (~run.resume \/ run.adopt)
  /\ bundle' = [bundle EXCEPT ![cur].ctl = 0]
  /\ Goto("copy")
  /\ Rest(<<row, flags, stored, live, dir, strays, seals, orphan, history, left>>)

freeze_control_bundle ==
  /\ At("copy")
  /\ bundle' = [bundle EXCEPT ![cur].ctl = live.ctl]
  /\ IF Digestible(live.ctl) THEN Goto("store") ELSE Manual
  /\ Rest(<<row, flags, stored, live, dir, strays, seals, orphan, history, left>>)

\* The frozen flow must be the one the checkpoint was taken under.
fingerprint_ok == run.resume => row[cur].fp = bundle[cur].ctl
StoreControlDigest ==
  /\ At("store")
  /\ stored' = [stored EXCEPT ![cur].ctl = bundle[cur].ctl]
  /\ IF fingerprint_ok
     THEN run' = [run EXCEPT !.pc = "packet", !.in.ctl = bundle[cur].ctl]
     ELSE Manual
  /\ Rest(<<row, flags, live, disk, orphan, history, left>>)

\* A plain recovery: the frozen bundle must be the stored one, the live one too.
load_control_bundle ==
  /\ Digestible(stored[cur].ctl) /\ bundle[cur].ctl = stored[cur].ctl
  /\ live.ctl = stored[cur].ctl

_prepare_control_bundle ==
  /\ At("control") /\ run.resume /\ ~run.adopt
  /\ IF load_control_bundle /\ fingerprint_ok
     THEN run' = [run EXCEPT !.pc = "packet", !.in.ctl = stored[cur].ctl]
     ELSE Manual
  /\ Rest(<<row, flags, stored, live, disk, orphan, history, left>>)

\* load_instruction_bundle: the manifest is the stored one and so is the packet.
load_instruction_bundle ==
  /\ stored[cur].inst # None /\ bundle[cur].inst = stored[cur].inst
  /\ bundle[cur].pkt = stored[cur].inst.pkt

\* The task file as it is now becomes the packet; no manifest covers it yet.
freeze_task_packet(b) == [b EXCEPT !.pkt = live.pkt, !.inst = None]

\* Mutant: a resume freezes the task file as it is now.
_freeze_task_and_repo_instructions_Live ==
  /\ At("packet")
  /\ bundle' = [bundle EXCEPT ![cur].pkt = live.pkt]
  /\ run' = [run EXCEPT !.pc = "publish", !.in.pkt = live.pkt]
  /\ Rest(<<row, flags, stored, live, dir, strays, seals, orphan, history, left>>)

_freeze_task_and_repo_instructions ==
  /\ At("packet")
  /\ IF run.resume
     THEN /\ IF load_instruction_bundle
             THEN run' = [run EXCEPT !.pc = "publish", !.in.pkt = bundle[cur].pkt]
             ELSE Manual
          /\ Rest(bundle)
     ELSE /\ bundle' = [bundle EXCEPT ![cur] = freeze_task_packet(@)]
          /\ run' = [run EXCEPT !.pc = "publish", !.in.pkt = live.pkt]
  /\ Rest(<<row, flags, stored, live, dir, strays, seals, orphan, history, left>>)

\* The packet, and on a resume what earlier nodes left in the private artifacts.
_publish_frozen_task_packet ==
  /\ At("publish")
  /\ LET files == {"packet"} \cup (IF run.resume /\ row[cur].worked THEN {"work"} ELSE {})
     IN IF Publishable(dir[cur], files)
        THEN /\ dir' = [dir EXCEPT ![cur] = publish_to_exchange(@, files)]
             /\ Goto(IF run.resume /\ ~run.adopt THEN "node" ELSE "bind")
        ELSE Escape /\ Rest(dir)
  /\ Rest(<<row, flags, stored, bundle, live, strays, seals, orphan, history, left>>)

\* The manifest on disk first, its digest in the row after it.
write_instruction_manifest ==
  /\ At("bind")
  /\ bundle' = [bundle EXCEPT ![cur].inst = run.in]
  /\ Goto("record")
  /\ Rest(<<row, flags, stored, live, dir, strays, seals, orphan, history, left>>)

_finalize_instruction_bundle ==
  /\ At("record")
  /\ stored' = [stored EXCEPT ![cur].inst = run.in]
  /\ Goto("node")
  /\ Rest(<<row, flags, live, disk, orphan, history, left>>)

-----------------------------------------------------------------------------
(* Nodes *)

\* The checkpoint is written before the node runs; the node publishes its
\* inputs and takes the manifest it will compare with.
Launch ==
  /\ At("node") /\ Spend("nodes")
  /\ row' = [row EXCEPT ![cur].ckpt = TRUE, ![cur].fp = run.in.ctl, ![cur].worked = TRUE]
  /\ LET tree == publish_to_exchange(dir[cur], {"work"})
     IN CASE ~Publishable(dir[cur], {"work"}) -> Escape /\ Rest(<<dir, ran>>)
          [] Publishable(dir[cur], {"work"}) /\ ~Sound(tree) ->
               Manual /\ dir' = [dir EXCEPT ![cur] = tree] /\ Rest(ran)
          [] Publishable(dir[cur], {"work"}) /\ Sound(tree) ->
               /\ dir' = [dir EXCEPT ![cur] = tree]
               /\ ran' = [ran EXCEPT ![cur] = @ \cup {run.in}]
               /\ run' = [run EXCEPT !.pc = "agent", !.before = tree]
  /\ Rest(<<flags, stored, bundle, live, strays, seals, orphan, noticed, forgiven>>)

\* An agent, or one that outlived its attempt, writes into its task's exchange.
Forge(t, f, v) ==
  /\ (At("agent") /\ t = cur) \/ t \in orphan
  /\ IsDir(dir[t]) /\ Spend("forges")
  /\ dir' = [dir EXCEPT ![t] = IF v = "swapped" THEN Swapped ELSE [@ EXCEPT ![f] = v]]
  /\ Rest(<<row, flags, stored, bundle, live, strays, seals, orphan, run, history>>)

\* The attempt succeeds; fails, and what it wrote is not compared; or its
\* processes could not be contained.
AgentEnds ==
  /\ At("agent")
  /\ \/ Goto("check") /\ Rest(<<flags, orphan>>)
     \/ Escape /\ Rest(<<flags, orphan>>)                       \* parked
     \/ Manual /\ Rest(<<flags, orphan>>)                       \* failed
     \/ /\ flags' = [flags EXCEPT ![cur].unsafe = TRUE]
        /\ orphan' = orphan \cup {cur}
        /\ Manual
  /\ Rest(<<row, stored, live, disk, history, left>>)

OrphanDies(t) ==
  /\ t \in orphan /\ orphan' = orphan \ {t}
  /\ Rest(<<row, flags, stored, live, disk, run, history, left>>)

assert_exchange_unchanged ==
  /\ At("check")
  /\ CASE ~Sound(dir[cur]) -> Manual
       [] Sound(dir[cur]) /\ Manifest(dir[cur]) # Manifest(run.before) -> Goto("flag")
       [] Sound(dir[cur]) /\ Manifest(dir[cur]) = Manifest(run.before) -> Goto("post")
  /\ Rest(<<row, flags, stored, live, disk, orphan, history, left>>)

\* ExchangeMutationManual: the flag first, then the terminal transition.
FlagContaminated ==
  /\ At("flag")
  /\ flags' = [flags EXCEPT ![cur].contaminated = TRUE]
  /\ noticed' = [noticed EXCEPT ![cur] = TRUE]
  /\ forgiven' = [forgiven EXCEPT ![cur] = FALSE]
  /\ dir' = [dir EXCEPT ![cur] = MarkSeen(@)]
  /\ Manual
  /\ Rest(<<row, stored, bundle, live, strays, seals, orphan, ran, left>>)

\* An edited control plane is reported, one that no longer resolves stops the run.
_verify_control_plane_unchanged ==
  /\ At("post")
  /\ IF ~Digestible(live.ctl) THEN Manual
     ELSE \/ Goto("node")
          \/ run' = [run EXCEPT !.pc = "terminal", !.done = TRUE]
  /\ Rest(<<row, flags, stored, live, disk, orphan, history, left>>)

-----------------------------------------------------------------------------
(* The terminal transition, the seal and the quarantine *)

\* A withheld cleanup turns done into manual; done drops the checkpoint.
_go_terminal ==
  /\ At("terminal")
  /\ LET done == run.done /\ ~flags[cur].unsafe
     IN /\ row' = [row EXCEPT ![cur].status = IF done THEN "done" ELSE "manual",
                              ![cur].ckpt = @ /\ ~done]
        /\ run' = [run EXCEPT !.pc = "seal", !.done = done]
  /\ Rest(<<flags, stored, live, disk, orphan, history, left>>)

\* Contaminated: moved aside as evidence, or flagged when it cannot be moved.
quarantine_contaminated ==
  /\ At("seal") /\ ~flags[cur].unsafe /\ flags[cur].contaminated
  /\ \/ dir' = [dir EXCEPT ![cur] = Absent] /\ Rest(<<flags, left>>)
     \/ /\ Spend("faults") /\ dir[cur] # Absent
        /\ flags' = [flags EXCEPT ![cur].unsafe = TRUE] /\ Rest(dir)
  /\ Goto("evict")
  /\ Rest(<<row, stored, bundle, live, strays, seals, orphan, history>>)

\* Mutant: a seal that failed is cleaned up like one that was promoted.
SealFails_Cleans == Goto(IF At("remove") THEN "evict" ELSE "remove") /\ UNCHANGED flags

SealFails ==
  /\ flags' = [flags EXCEPT ![cur].unsafe = TRUE]
  /\ Goto("evict")

\* The manifest the copy will be verified against.
StageSeal ==
  /\ At("seal") /\ ~flags[cur].contaminated /\ ~flags[cur].unsafe
  /\ CASE dir[cur] = Absent -> Goto("evict") /\ Rest(flags)
       [] dir[cur] # Absent /\ ~Sound(dir[cur]) -> SealFails
       [] Sound(dir[cur]) ->
            /\ run' = [run EXCEPT !.pc = "promote", !.before = dir[cur]]
            /\ Rest(flags)
  /\ Rest(<<row, stored, bundle, live, dir, strays, seals, orphan, history, left>>)

\* The entries of the manifest are copied, as they are by now; a file that came
\* after the manifest is not among them.
sealed_copy ==
  [f \in Files |-> IF f \in DOMAIN Manifest(run.before) /\ IsDir(dir[cur]) THEN dir[cur][f]
                   ELSE "none"]
\* Mutant: the copy is not compared with the manifest.
copy_verified_Skipped == \A f \in DOMAIN Manifest(run.before) : sealed_copy[f] \notin {"none", "bad"}
\* The copy must have the manifest's digest before it is renamed into place; an
\* entry that is gone or became a link is refused with it.
copy_verified == Manifest(sealed_copy) = Manifest(run.before)
_copy_tree_verified ==
  /\ At("promote")
  /\ \/ /\ copy_verified
        /\ seals' = [seals EXCEPT ![cur] =
                       Append(@, [tree |-> sealed_copy, manifest |-> Manifest(run.before)])]
        /\ Goto("remove") /\ Rest(<<flags, left>>)
     \/ ~copy_verified /\ SealFails /\ Rest(<<seals, left>>)
     \/ Spend("faults") /\ SealFails /\ Rest(seals)
  /\ Rest(<<row, stored, bundle, live, dir, strays, orphan, history>>)

\* One file after the other, then the directory; retries exhausted flag the row.
_remove_active_dir ==
  /\ At("remove")
  /\ \/ \E f \in Files :
          /\ IsDir(dir[cur]) /\ dir[cur][f] # "none"
          /\ dir' = [dir EXCEPT ![cur][f] = "none"]
          /\ Rest(<<run, flags, left>>)
     \/ /\ dir[cur] \in {Empty, Swapped, Absent}
        /\ dir' = [dir EXCEPT ![cur] = Absent]
        /\ Goto("evict") /\ Rest(<<flags, left>>)
     \/ Spend("faults") /\ SealFails /\ Rest(dir)
  /\ Rest(<<row, stored, bundle, live, strays, seals, orphan, history>>)

\* Unsafe: nothing is touched.
SealWithheld ==
  /\ At("seal") /\ flags[cur].unsafe
  /\ Goto("evict")
  /\ Rest(<<row, flags, stored, live, disk, orphan, history, left>>)

evictable == run.done /\ CleanRuns /\ flags[cur] = [contaminated |-> FALSE, unsafe |-> FALSE]
_evict_run_artifacts ==
  /\ At("evict")
  /\ seals' = IF evictable THEN [seals EXCEPT ![cur] = <<>>] ELSE seals
  /\ bundle' = IF evictable
               THEN [bundle EXCEPT ![cur] = [ctl |-> 0, pkt |-> 0, inst |-> None]]
               ELSE bundle
  /\ run' = Idle
  /\ Rest(<<row, flags, stored, live, dir, strays, orphan, history, left>>)

-----------------------------------------------------------------------------
\* The process dies; an agent it was waiting for is killed at the next start.
Crash ==
  /\ ~At("idle") /\ Spend("faults")
  /\ run' = Idle
  /\ Rest(<<row, flags, stored, bundle, live, dir, strays, seals, orphan, history>>)

Next ==
  \/ \E t \in Tasks : Start(t) \/ Recover(t) \/ Continue(t) \/ rerun_task(t) \/ OrphanDies(t)
  \/ \E t \in Tasks, done \in BOOLEAN : finalize_task(t, done)
  \/ reset_task_for_rerun \/ Edit
  \/ ClearForeign \/ ensure_current_exchange \/ restore_for_continue
  \/ PromoteRestored
  \/ _freeze_live_control_bundle \/ freeze_control_bundle \/ StoreControlDigest
  \/ _prepare_control_bundle \/ _freeze_task_and_repo_instructions
  \/ _publish_frozen_task_packet \/ write_instruction_manifest
  \/ _finalize_instruction_bundle
  \/ Launch \/ AgentEnds \/ assert_exchange_unchanged \/ FlagContaminated
  \/ \E t \in Tasks : \/ \E f \in {"work", "extra"}, v \in {"forged", "bad"} : Forge(t, f, v)
                      \/ Forge(t, "extra", "swapped")
                      \/ Forge(t, "packet", "none")
  \/ _verify_control_plane_unchanged
  \/ _go_terminal \/ quarantine_contaminated \/ StageSeal \/ _copy_tree_verified
  \/ _remove_active_dir \/ SealWithheld \/ _evict_run_artifacts
  \/ Crash

Spec == Init /\ [][Next]_vars

-----------------------------------------------------------------------------
(* Properties *)

Versions == 0..2
Inputs == [ctl : Versions, pkt : Versions]
\* Every variable keeps the type of what it stands for.
TypeOK ==
  /\ row \in [Tasks -> [status : {"new", "active", "manual", "done"}, ckpt : BOOLEAN,
                        fp : Versions, worked : BOOLEAN]]
  /\ flags \in [Tasks -> [contaminated : BOOLEAN, unsafe : BOOLEAN]]
  /\ stored \in [Tasks -> [ctl : Versions, inst : Inputs]]
  /\ bundle \in [Tasks -> [ctl : Versions, pkt : Versions, inst : Inputs]]
  /\ live \in Inputs
  /\ \A t \in Tasks : dir[t] \in Trees \cup {Absent, Swapped}
  /\ strays \subseteq Tasks /\ orphan \subseteq Tasks
  /\ \A t \in Tasks : \A i \in 1..Len(seals[t]) : seals[t][i].tree \in Trees
  /\ run.pc \in Steps /\ run.task \in Tasks /\ run.in \in Inputs
  /\ noticed \in [Tasks -> BOOLEAN] /\ forgiven \in [Tasks -> BOOLEAN]
  /\ ran \in [Tasks -> SUBSET Inputs]

\* An agent is launched with its own task's directory alone in the exchange
\* root: no other task's leftovers of a run that died before its seal, no
\* staging directory of a restore that died.
LaunchAlone == At("agent") => strays = {} /\ \A u \in Tasks \ {cur} : dir[u] = Absent

\* A promoted seal holds exactly what its manifest recorded, even when an
\* unproven agent wrote between the manifest and the copy: what a continue
\* restores is what the run ended with.
SealTrue == \A t \in Tasks : \A i \in 1..Len(seals[t]) :
              Manifest(seals[t][i].tree) = seals[t][i].manifest

\* Once tampering was recorded, no agent is launched over the tampered tree
\* before an operator's continue, whatever crash falls between the flag, the
\* terminal transition and the quarantine.
NoticedNeedsOperator ==
  At("agent") /\ noticed[cur] /\ ~forgiven[cur] =>
    \A f \in Files : dir[cur][f] # "seen"

\* All nodes between two operator commands run on one frozen flow and one frozen
\* task packet, across crashes, parks and edits of the live files.
OneInputPerRun == \A t \in Tasks : Cardinality(ran[t]) <= 1

\* The terminal clean-up deletes a file the orchestrator published only when the
\* newest seal holds it, whatever an unproven agent or a crash does meanwhile.
RemovedIsSealed ==
  [][At("remove") =>
       \A f \in Files :
          IsDir(dir[cur]) /\ dir[cur][f] = "own" /\ dir'[cur] # dir[cur]
            /\ (IsDir(dir'[cur]) => dir'[cur][f] # "own") /\ dir'[cur] # Swapped =>
          seals[cur] # <<>> /\ latest.tree[f] = "own"]_vars

\* What an agent is launched over is its own task's, as frozen, and not known to be
\* tampered with; what it will be continued from is what was recorded.
InputsSafe ==
  TypeOK /\ LaunchAlone /\ SealTrue /\ NoticedNeedsOperator /\ OneInputPerRun
=============================================================================
