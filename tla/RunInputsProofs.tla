--------------------------- MODULE RunInputsProofs ---------------------------
(***************************************************************************)
(* For any number of tasks, crashes, commands and forgeries: types, that   *)
(* an agent is launched alone over inputs that nobody was seen to tamper   *)
(* with, all launches between two commands from the same ones, that a seal *)
(* is what it says, and that what is removed was sealed.  The invariant    *)
(* says what the preamble has established when it reaches each step, and   *)
(* what the row keeps of it for the next process.                          *)
(***************************************************************************)
EXTENDS RunInputs, FiniteSetTheorems, TLAPS

Entries == Trees \cup {Absent, Swapped}
Runs == [pc : Steps, task : Tasks, resume : BOOLEAN, adopt : BOOLEAN, in : Inputs,
         before : Trees, done : BOOLEAN]
TrueSeals == {[tree |-> x, manifest |-> Manifest(x)] : x \in Trees}

\* The types, with every promoted seal as its manifest says.
Rows == [status : {"new", "active", "manual", "done"}, ckpt : BOOLEAN,
         fp : Versions, worked : BOOLEAN]
AllFlags == [contaminated : BOOLEAN, unsafe : BOOLEAN]
Digests == [ctl : Versions, inst : Inputs]
Bundles == [ctl : Versions, pkt : Versions, inst : Inputs]
Typed ==
  /\ row \in [Tasks -> Rows] /\ flags \in [Tasks -> AllFlags]
  /\ stored \in [Tasks -> Digests] /\ bundle \in [Tasks -> Bundles]
  /\ live \in Inputs
  /\ dir \in [Tasks -> Entries] /\ strays \subseteq Tasks /\ orphan \subseteq Tasks
  /\ seals \in [Tasks -> Seq(TrueSeals)]
  /\ run \in Runs
  /\ noticed \in [Tasks -> BOOLEAN] /\ forgiven \in [Tasks -> BOOLEAN]
  /\ ran \in [Tasks -> SUBSET Inputs]

\* The preamble until the inputs are frozen, and from there to the nodes.
Freezing == {"guard", "restore", "swap", "control", "copy", "store", "packet", "publish",
             "bind", "record"}
Nodes == {"node", "agent", "check", "post"}
\* A pass that freezes the live inputs, instead of those of an earlier pass.
Fresh == ~run.resume \/ run.adopt

\* Once foreign entries are cleared, only the task's own is there.
Alone ==
  run.pc \in Freezing \cup Nodes =>
    /\ \A u \in Tasks \ {cur} : dir[u] = Absent
    /\ strays \subseteq (IF run.pc = "swap" THEN {cur} ELSE {})

\* The task that is driven is the active one, and a row that was launched keeps
\* its checkpoint until it is done.
Kept ==
  /\ run.pc \in {"clear", "flag", "terminal"} \cup Freezing \cup Nodes =>
       row[cur].status = "active"
  /\ \A t \in Tasks :
       /\ row[t].status = "new" => ~row[t].ckpt
       /\ noticed[t] \/ ran[t] # {} => row[t].ckpt \/ row[t].status = "done"
  /\ run.pc \in {"agent", "check", "post", "flag"} => row[cur].ckpt

\* The recorded tampering keeps every pass from its nodes but one that an
\* operator's continue began.
Noted ==
  /\ \A t \in Tasks : /\ flags[t].contaminated => noticed[t]
                      /\ noticed[t] /\ ~forgiven[t] => flags[t].contaminated
  /\ run.pc \in {"clear"} \cup Freezing \cup Nodes \cup {"flag"} /\ run.adopt => forgiven[cur]
  /\ run.pc \in (Freezing \ {"guard"}) \cup Nodes \cup {"flag"} => ~flags[cur].contaminated
  /\ run.pc = "clear" /\ ~run.resume => ~flags[cur].contaminated
  /\ run.pc = "rerun" => ~run.adopt

\* What ran is what the row remembers, and a pass either starts a new record or
\* has read that one.
Frozen ==
  /\ \A t \in Tasks : ran[t] \subseteq {[ctl |-> row[t].fp, pkt |-> stored[t].inst.pkt]}
  /\ run.pc \in {"clear"} \cup Freezing /\ Fresh => ran[cur] = {}
  /\ run.pc \in {"copy", "store", "bind", "record"} => Fresh
  /\ run.pc \in {"packet", "publish"} /\ ~Fresh => run.in.ctl = row[cur].fp
  /\ run.pc = "publish" /\ ~Fresh => run.in.pkt = stored[cur].inst.pkt
  /\ run.pc \in Nodes => run.in.pkt = stored[cur].inst.pkt
  /\ run.pc = "node" => ran[cur] = {} \/ run.in.ctl = row[cur].fp
  /\ run.pc \in Nodes \ {"node"} => run.in.ctl = row[cur].fp

\* There is a seal to restore, no own file came after the manifest, and while the active directory goes, the newest
\* one has what is left of it.
Sealed ==
  /\ run.pc \in {"restore", "swap", "remove"} => seals[cur] # <<>>
  /\ run.pc = "promote" /\ IsDir(dir[cur]) =>
       \A f \in Files : dir[cur][f] = "own" => run.before[f] = "own"
  /\ run.pc = "remove" /\ IsDir(dir[cur]) =>
       \A f \in Files : dir[cur][f] = "own" => latest.tree[f] = "own"

IInv == Typed /\ Alone /\ Kept /\ Noted /\ Frozen /\ Sealed

-----------------------------------------------------------------------------

(* Entries of the exchange root *)

\* An entry that is a directory is a tree, and a link or nothing is none.
LEMMA EntryFacts ==
  /\ Absent \notin Trees /\ Swapped \notin Trees /\ Absent # Swapped /\ Empty \in Trees
  /\ \A x \in Entries : IsDir(x) <=> x \in Trees
<1>1. Absent["packet"] = "absent" /\ Swapped["packet"] = "swapped"
  BY DEF Absent, Swapped
<1>2. \A x \in Trees : x["packet"] \in Contents
  BY DEF Trees, Files
<1>3. "absent" \notin Contents /\ "swapped" \notin Contents /\ "absent" # "swapped"
  BY DEF Contents
<1>4. Empty \in Trees
  BY DEF Empty, Trees, Contents
<1> QED
  BY <1>1, <1>2, <1>3, <1>4 DEF Entries, IsDir

\* What a seal is made of, and that it has an own file of a recorded tree.
LEMMA SealedCopy ==
  ASSUME Typed
  PROVE  /\ sealed_copy \in Trees
         /\ \A f \in Files : IsDir(dir[cur]) /\ run.before[f] = "own" => sealed_copy[f] = dir[cur][f]
<1>1. dir[cur] \in Entries
  BY DEF Typed, Runs, cur
<1>2. \A f \in Files : IsDir(dir[cur]) => dir[cur][f] \in Contents
  BY <1>1, EntryFacts DEF Trees
<1>3. sealed_copy \in Trees
  BY <1>2 DEF sealed_copy, Trees, Contents
<1>4. \A f \in Files : run.before[f] = "own" => f \in DOMAIN Manifest(run.before)
  BY DEF Manifest
<1> QED
  BY <1>3, <1>4 DEF sealed_copy

\* What publishing, marking and a write of an agent make of an entry.
LEMMA TreeSteps ==
  ASSUME NEW x \in Entries
  PROVE  /\ \A files : x # Swapped => publish_to_exchange(x, files) \in Trees
         /\ MarkSeen(x) \in Entries
         /\ \A f \in Files, v \in Contents : IsDir(x) => [x EXCEPT ![f] = v] \in Trees
<1>1. IsDir(x) <=> x \in Trees
  BY EntryFacts
<1>2. ASSUME NEW files
      PROVE  publish_to_exchange(x, files) \in Trees
  <2>1. \A f \in Files : IsDir(x) => x[f] \in Contents
    BY <1>1 DEF Trees
  <2> QED
    BY <2>1 DEF publish_to_exchange, Trees, Contents
<1>3. MarkSeen(x) \in Entries
  <2>1. CASE IsDir(x)
    <3>1. \A f \in Files : x[f] \in Contents
      BY <1>1, <2>1 DEF Trees
    <3>2. MarkSeen(x) = [f \in Files |-> IF x[f] = "forged" THEN "seen" ELSE x[f]]
      BY <2>1 DEF MarkSeen
    <3>3. MarkSeen(x) \in Trees
      BY <3>1, <3>2 DEF Trees, Contents
    <3> QED
      BY <3>3 DEF Entries
  <2>2. CASE ~IsDir(x)
    BY <2>2 DEF MarkSeen
  <2> QED
    BY <2>1, <2>2
<1>4. \A f \in Files, v \in Contents : IsDir(x) => [x EXCEPT ![f] = v] \in Trees
  BY <1>1 DEF Trees
<1> QED
  BY <1>2, <1>3, <1>4

\* A pass that is over.
LEMMA IdleRun == Idle \in Runs
<1>1. (CHOOSE t \in Tasks : TRUE) \in Tasks
  BY BoundsAssumption
<1> QED
  BY <1>1, EntryFacts DEF Idle, Runs, Steps, None, Inputs, Versions

\* What the steps of a pass make of it.
LEMMA RunSteps ==
  ASSUME NEW r \in Runs, NEW pc \in Steps
  PROVE  /\ \A x \in Versions : /\ [r EXCEPT !.pc = pc, !.in.ctl = x] \in Runs
                               /\ [r EXCEPT !.pc = pc, !.in.pkt = x] \in Runs
         /\ \A x \in Trees : [r EXCEPT !.pc = pc, !.before = x] \in Runs
  BY DEF Runs, Inputs

\* The newest seal of a task that has one.
LEMMA LatestSeal ==
  ASSUME Typed, seals[cur] # <<>>
  PROVE  latest \in TrueSeals
<1>1. cur \in Tasks /\ seals[cur] \in Seq(TrueSeals)
  BY DEF Typed, cur, Runs
<1>2. Len(seals[cur]) \in 1..Len(seals[cur])
  BY <1>1
<1> QED
  BY <1>1, <1>2 DEF latest

-----------------------------------------------------------------------------
(* Types *)

\* The first state has the types.
LEMMA InitTyped == Init => Typed
  BY IdleRun DEF Init, Typed, Rows, AllFlags, Digests, Bundles, Entries, Inputs, Versions,
       None

\* Every step keeps the types; a restore has a seal to restore.
LEMMA TypedStep ==
  ASSUME Typed, Sealed, [Next]_vars
  PROVE  Typed'
<1> USE DEF Rest, disk, history, At, Goto, Manual, Escape, Spend, cur
<1>row. row \in [Tasks -> Rows]
  BY DEF Typed
<1>flags. flags \in [Tasks -> AllFlags]
  BY DEF Typed
<1>stored. stored \in [Tasks -> Digests]
  BY DEF Typed
<1>bundle. bundle \in [Tasks -> Bundles]
  BY DEF Typed
<1>live. live \in Inputs
  BY DEF Typed
<1>dir. dir \in [Tasks -> Entries]
  BY DEF Typed
<1>seals. seals \in [Tasks -> Seq(TrueSeals)]
  BY DEF Typed
<1>run. run \in Runs
  BY DEF Typed
<1>ran. ran \in [Tasks -> SUBSET Inputs]
  BY DEF Typed
<1>task. run.task \in Tasks
  BY <1>run DEF Runs
<1>parts. /\ bundle[run.task].ctl \in Versions /\ bundle[run.task].pkt \in Versions
          /\ stored[run.task].ctl \in Versions /\ live.ctl \in Versions /\ live.pkt \in Versions
          /\ run.in \in Inputs /\ run.in.ctl \in Versions
  BY <1>task, <1>bundle, <1>stored, <1>live, <1>run DEF Bundles, Digests, Inputs, Runs
<1>none. None \in Inputs
  BY DEF None, Inputs, Versions
<1>seal. run.pc = "swap" => seals[run.task] # <<>>
  BY DEF Sealed, cur
<1>1. ASSUME NEW t \in Tasks, Start(t) PROVE Typed'
  <2>1. row' \in [Tasks -> Rows]
    BY <1>1, <1>task DEF Typed, Start, Begin, Rows
  <2>2. run' \in Runs
    BY <1>1, <1>task, IdleRun DEF Typed, Start, Begin, Runs, Steps
  <2> QED
    BY <1>1, <1>task, <2>1, <2>2 DEF Typed, Start, Begin
<1>2. ASSUME NEW t \in Tasks, Recover(t) PROVE Typed'
  <2>1. run' \in Runs
    BY <1>2, <1>task, IdleRun DEF Typed, Recover, Begin, Rows, Runs, Steps
  <2> QED
    BY <1>2, <1>task, <2>1 DEF Typed, Recover, Begin, Rows
<1>3. ASSUME NEW t \in Tasks, Continue(t) PROVE Typed'
  <2>1. row' \in [Tasks -> Rows]
    <3>1. row' = [row EXCEPT ![t].status = "active", ![t].fp = live.ctl]
      BY <1>3 DEF Continue, Begin
    <3> QED
      BY <3>1, <1>task, <1>row, <1>parts, <1>3 DEF Rows
  <2>2. run' \in Runs
    BY <1>3, <1>task, IdleRun DEF Typed, Continue, Begin, Runs, Steps
  <2>3. forgiven' \in [Tasks -> BOOLEAN]
    BY <1>3, <1>task DEF Typed, Continue, Begin
  <2>4. ran' \in [Tasks -> SUBSET Inputs]
    BY <1>3, <1>task DEF Typed, Continue, Begin
  <2> QED
    BY <1>3, <1>task, <2>1, <2>2, <2>3, <2>4 DEF Typed, Continue, Begin
<1>4. ASSUME NEW t \in Tasks, rerun_task(t) PROVE Typed'
  <2>1. dir' \in [Tasks -> Entries]
    BY <1>4, <1>task, TreeSteps, EntryFacts DEF Typed, rerun_task, Entries
  <2>2. run' \in Runs
    BY <1>4, <1>task, IdleRun DEF Typed, rerun_task, Runs, Steps
  <2> QED
    BY <1>4, <1>task, <2>1, <2>2 DEF Typed, rerun_task
<1>5. ASSUME NEW t \in Tasks, OrphanDies(t) PROVE Typed'
  BY <1>5, <1>task DEF Typed, OrphanDies
<1>6. ASSUME NEW t \in Tasks, NEW done \in BOOLEAN, finalize_task(t, done) PROVE Typed'
  <2>1. row' \in [Tasks -> Rows]
    <3>1. \E st \in {"done", "manual"} : row' = [row EXCEPT ![t].status = st]
      BY <1>6 DEF finalize_task
    <3> QED
      BY <3>1, <1>task, <1>row, <1>6 DEF Rows
  <2>2. run' \in Runs
    BY <1>6, <1>task, IdleRun DEF Typed, finalize_task, Runs, Steps
  <2> QED
    BY <1>6, <1>task, <2>1, <2>2 DEF Typed, finalize_task
<1>7. CASE reset_task_for_rerun
  <2>1. row' \in [Tasks -> Rows]
    BY <1>7, <1>task DEF Typed, reset_task_for_rerun, Versions, Rows
  <2>2. flags' \in [Tasks -> AllFlags]
    BY <1>7, <1>task DEF Typed, reset_task_for_rerun, Versions, AllFlags
  <2>3. noticed' \in [Tasks -> BOOLEAN]
    BY <1>7, <1>task DEF Typed, reset_task_for_rerun, Versions
  <2>4. forgiven' \in [Tasks -> BOOLEAN]
    BY <1>7, <1>task DEF Typed, reset_task_for_rerun, Versions
  <2>5. ran' \in [Tasks -> SUBSET Inputs]
    BY <1>7, <1>task DEF Typed, reset_task_for_rerun, Versions
  <2>6. run' \in Runs
    BY <1>7, <1>task, IdleRun DEF Typed, reset_task_for_rerun, Versions, Runs, Steps
  <2> QED
    BY <1>7, <1>task, <2>1, <2>2, <2>3, <2>4, <2>5, <2>6 DEF Typed, reset_task_for_rerun,
         Versions
<1>8. CASE Edit
  <2>1. live' \in Inputs
    BY <1>8, <1>task DEF Typed, Edit, Versions, Inputs
  <2> QED
    BY <1>8, <1>task, <2>1 DEF Typed, Edit, Versions
<1>9. CASE ClearForeign
  <2>1. dir' \in [Tasks -> Entries]
    BY <1>9, <1>task, TreeSteps, EntryFacts DEF Typed, ClearForeign,
         clear_foreign_exchange_entries, Entries
  <2>2. run' \in Runs
    <3>1. \/ run' = [run EXCEPT !.pc = "terminal", !.done = FALSE]
          \/ \E pc \in {"guard", "control"} : run' = [run EXCEPT !.pc = pc]
      BY <1>9 DEF ClearForeign, clear_foreign_exchange_entries
    <3> QED
      BY <3>1, <1>task, <1>run, IdleRun DEF Runs, Steps
  <2> QED
    BY <1>9, <1>task, <2>1, <2>2 DEF Typed, ClearForeign, clear_foreign_exchange_entries
<1>10. CASE ensure_current_exchange
  <2>1. flags' \in [Tasks -> AllFlags]
    <3>1. flags' = [flags EXCEPT ![cur].contaminated = @ /\ ~Lifted]
      BY <1>10 DEF ensure_current_exchange
    <3> QED
      BY <3>1, <1>task, <1>flags DEF AllFlags
  <2>2. run' \in Runs
    <3>1. \E pc \in {"control", "restore"} :
            \/ run' = Idle
            \/ run' = [run EXCEPT !.pc = "terminal", !.done = FALSE]
            \/ run' = [run EXCEPT !.pc = pc]
      BY <1>10 DEF ensure_current_exchange
    <3> QED
      BY <3>1, <1>task, <1>run, IdleRun DEF Runs, Steps
  <2> QED
    BY <1>10, <1>task, <2>1, <2>2 DEF Typed, ensure_current_exchange
<1>11. CASE restore_for_continue
  <2>1. run' \in Runs
    <3>1. \/ run' = Idle
          \/ run' = [run EXCEPT !.pc = "terminal", !.done = FALSE]
          \/ \E pc \in {"swap"} : run' = [run EXCEPT !.pc = pc]
      BY <1>11 DEF restore_for_continue
    <3> QED
      BY <3>1, <1>task, <1>run, IdleRun DEF Runs, Steps
  <2> QED
    BY <1>11, <1>task, <2>1 DEF Typed, restore_for_continue
<1>12. CASE PromoteRestored
  <2>1. dir' \in [Tasks -> Entries]
    <3>1. seals[cur] # <<>> /\ dir' = [dir EXCEPT ![cur] = latest.tree]
      BY <1>12, <1>seal DEF PromoteRestored
    <3> QED
      BY <3>1, <1>task, LatestSeal, <1>dir, EntryFacts, TreeSteps DEF TrueSeals, Entries
  <2>2. run' \in Runs
    BY <1>12, <1>task, IdleRun DEF Typed, PromoteRestored, Runs, Steps
  <2> QED
    BY <1>12, <1>task, <2>1, <2>2 DEF Typed, PromoteRestored
<1>13. CASE _freeze_live_control_bundle
  <2>1. bundle' \in [Tasks -> Bundles]
    <3>1. bundle' = [bundle EXCEPT ![cur].ctl = 0]
      BY <1>13 DEF _freeze_live_control_bundle
    <3> QED
      BY <3>1, <1>task, <1>bundle DEF Versions, Bundles, Inputs
  <2>2. run' \in Runs
    BY <1>13, <1>task, IdleRun DEF Typed, _freeze_live_control_bundle, Versions, Runs, Steps
  <2> QED
    BY <1>13, <1>task, <2>1, <2>2 DEF Typed, _freeze_live_control_bundle, Versions
<1>14. CASE freeze_control_bundle
  <2>1. bundle' \in [Tasks -> Bundles]
    <3>1. bundle' = [bundle EXCEPT ![cur].ctl = live.ctl]
      BY <1>14 DEF freeze_control_bundle
    <3> QED
      BY <3>1, <1>task, <1>bundle, <1>parts DEF Bundles, Inputs
  <2>2. run' \in Runs
    <3>1. \/ run' = [run EXCEPT !.pc = "terminal", !.done = FALSE]
          \/ \E pc \in {"store"} : run' = [run EXCEPT !.pc = pc]
      BY <1>14 DEF freeze_control_bundle
    <3> QED
      BY <3>1, <1>task, <1>run, IdleRun DEF Runs, Steps
  <2> QED
    BY <1>14, <1>task, <2>1, <2>2 DEF Typed, freeze_control_bundle
<1>15. CASE StoreControlDigest
  <2>1. stored' \in [Tasks -> Digests]
    <3>1. stored' = [stored EXCEPT ![cur].ctl = bundle[cur].ctl]
      BY <1>15 DEF StoreControlDigest, Bundles
    <3> QED
      BY <3>1, <1>task, <1>stored, <1>parts DEF Digests
  <2>2. run' \in Runs
    <3>1. \/ run' = [run EXCEPT !.pc = "terminal", !.done = FALSE]
          \/ run' = [run EXCEPT !.pc = "packet", !.in.ctl = bundle[cur].ctl]
      BY Zenon, <1>15 DEF StoreControlDigest
    <3>2. [run EXCEPT !.pc = "packet", !.in.ctl = bundle[cur].ctl] \in Runs
      BY Zenon, <1>run, <1>parts, RunSteps DEF Steps
    <3>3. [run EXCEPT !.pc = "terminal", !.done = FALSE] \in Runs
      BY <1>run DEF Runs, Steps
    <3> QED
      BY <3>1, <3>2, <3>3
  <2> QED
    BY <1>15, <1>task, <2>1, <2>2 DEF Typed, StoreControlDigest, Bundles, Inputs
<1>16. CASE _prepare_control_bundle
  <2>1. run' \in Runs
    <3>1. \/ run' = [run EXCEPT !.pc = "terminal", !.done = FALSE]
          \/ run' = [run EXCEPT !.pc = "packet", !.in.ctl = stored[cur].ctl]
      BY Zenon, <1>16 DEF _prepare_control_bundle
    <3>2. [run EXCEPT !.pc = "packet", !.in.ctl = stored[cur].ctl] \in Runs
      BY Zenon, <1>run, <1>parts, RunSteps DEF Steps
    <3>3. [run EXCEPT !.pc = "terminal", !.done = FALSE] \in Runs
      BY <1>run DEF Runs, Steps
    <3> QED
      BY <3>1, <3>2, <3>3
  <2> QED
    BY <1>16, <1>task, <2>1 DEF Typed, _prepare_control_bundle, Digests, Inputs
<1>17. CASE _freeze_task_and_repo_instructions
  <2>1. bundle' \in [Tasks -> Bundles]
    <3>1. \/ bundle' = bundle
          \/ bundle' = [bundle EXCEPT ![cur] = [bundle[cur] EXCEPT !.pkt = live.pkt, !.inst = None]]
      BY <1>17, <1>task, <1>bundle DEF _freeze_task_and_repo_instructions, freeze_task_packet
    <3>2. bundle[run.task] \in Bundles
      BY <1>task, <1>bundle
    <3>3. [bundle[run.task] EXCEPT !.pkt = live.pkt, !.inst = None] \in Bundles
      BY <3>2, <1>parts, <1>none DEF Bundles
    <3> QED
      BY <3>1, <3>3, <1>task, <1>bundle
  <2>2. run' \in Runs
    <3>1. \/ run' = [run EXCEPT !.pc = "terminal", !.done = FALSE]
          \/ run' = [run EXCEPT !.pc = "publish", !.in.pkt = bundle[cur].pkt]
          \/ run' = [run EXCEPT !.pc = "publish", !.in.pkt = live.pkt]
      BY <1>17 DEF _freeze_task_and_repo_instructions
    <3>2. [run EXCEPT !.pc = "publish", !.in.pkt = bundle[cur].pkt] \in Runs
      BY <1>run, <1>parts DEF Runs, Steps, Inputs
    <3>3. [run EXCEPT !.pc = "publish", !.in.pkt = live.pkt] \in Runs
      BY <1>run, <1>parts DEF Runs, Steps, Inputs
    <3>4. [run EXCEPT !.pc = "terminal", !.done = FALSE] \in Runs
      BY <1>run DEF Runs, Steps
    <3> QED
      BY <3>1, <3>2, <3>3, <3>4
  <2> QED
    BY <1>17, <1>task, <2>1, <2>2 DEF Typed, _freeze_task_and_repo_instructions,
         freeze_task_packet, None, Versions, Bundles, Inputs
<1>18. CASE _publish_frozen_task_packet
  <2>1. dir' \in [Tasks -> Entries]
    <3>1. \/ dir' = dir
          \/ \E files :
                 Publishable(dir[cur], files) /\ dir' = [dir EXCEPT ![cur] = publish_to_exchange(dir[cur], files)]
      BY <1>18 DEF _publish_frozen_task_packet, Publishable
    <3> QED
      BY <3>1, <1>task, TreeSteps, <1>dir, EntryFacts, TreeSteps DEF Publishable, Entries
  <2>2. run' \in Runs
    BY <1>18, <1>task, IdleRun DEF Typed, _publish_frozen_task_packet, Publishable, Runs,
         Steps
  <2> QED
    BY <1>18, <1>task, <2>1, <2>2 DEF Typed, _publish_frozen_task_packet, Publishable
<1>19. CASE write_instruction_manifest
  <2>1. bundle' \in [Tasks -> Bundles]
    <3>1. bundle' = [bundle EXCEPT ![cur].inst = run.in]
      BY <1>19 DEF write_instruction_manifest
    <3> QED
      BY <3>1, <1>task, <1>bundle, <1>run DEF Runs, Bundles, Inputs
  <2>2. run' \in Runs
    BY <1>19, <1>task, IdleRun DEF Typed, write_instruction_manifest, Runs, Steps
  <2> QED
    BY <1>19, <1>task, <2>1, <2>2 DEF Typed, write_instruction_manifest
<1>20. CASE _finalize_instruction_bundle
  <2>1. stored' \in [Tasks -> Digests]
    BY <1>20, <1>task DEF Typed, _finalize_instruction_bundle, Runs, Digests
  <2>2. run' \in Runs
    BY <1>20, <1>task, IdleRun DEF Typed, _finalize_instruction_bundle, Runs, Runs, Steps
  <2> QED
    BY <1>20, <1>task, <2>1, <2>2 DEF Typed, _finalize_instruction_bundle, Runs
<1>21. CASE Launch
  <2>1. row' \in [Tasks -> Rows]
    <3>1. row' = [row EXCEPT ![run.task] = [row[run.task] EXCEPT
                    !.ckpt = TRUE, !.fp = run.in.ctl, !.worked = TRUE]]
      BY <1>21, <1>task, <1>row DEF Launch
    <3>2. [row[run.task] EXCEPT !.ckpt = TRUE, !.fp = run.in.ctl, !.worked = TRUE] \in Rows
      BY <1>task, <1>row, <1>parts DEF Rows
    <3> QED
      BY <3>1, <3>2, <1>task, <1>row
  <2>2. dir' \in [Tasks -> Entries]
    <3>1. \/ dir' = dir
          \/ /\ Publishable(dir[cur], {"work"})
             /\ dir' = [dir EXCEPT ![cur] = publish_to_exchange(dir[cur], {"work"})]
      BY <1>21 DEF Launch
    <3> QED
      BY <3>1, <1>task, TreeSteps, <1>dir, EntryFacts, TreeSteps DEF Publishable, Entries
  <2>3. ran' \in [Tasks -> SUBSET Inputs]
    <3>1. ran' = ran \/ ran' = [ran EXCEPT ![cur] = @ \cup {run.in}]
      BY <1>21 DEF Launch
    <3> QED
      BY <3>1, <1>task, <1>ran, <1>run DEF Runs
  <2>4. run' \in Runs
    <3>1. \/ run' = Idle
          \/ run' = [run EXCEPT !.pc = "terminal", !.done = FALSE]
          \/ /\ dir[cur] # Swapped
             /\ run' = [run EXCEPT !.pc = "agent",
                                   !.before = publish_to_exchange(dir[cur], {"work"})]
      BY <1>21 DEF Launch, Publishable
    <3>2. dir[cur] # Swapped => publish_to_exchange(dir[cur], {"work"}) \in Trees
      BY TreeSteps, <1>dir, <1>task
    <3>3. [run EXCEPT !.pc = "terminal", !.done = FALSE] \in Runs
      BY <1>run DEF Runs, Steps
    <3>4. "agent" \in Steps
      BY DEF Steps
    <3>5. \A x \in Trees : [run EXCEPT !.pc = "agent", !.before = x] \in Runs
      BY <3>4, <1>run, RunSteps
    <3> HIDE DEF cur
    <3> QED
      BY <3>1, <3>2, <3>3, <3>5, IdleRun
  <2> QED
    BY <1>21, <1>task, <2>1, <2>2, <2>3, <2>4 DEF Typed, Launch, Inputs
<1>22. CASE AgentEnds
  <2>1. flags' \in [Tasks -> AllFlags]
    <3>1. flags' = flags \/ flags' = [flags EXCEPT ![cur].unsafe = TRUE]
      BY <1>22 DEF AgentEnds
    <3> QED
      BY <3>1, <1>task, <1>flags DEF AllFlags
  <2>2. run' \in Runs
    <3>1. \/ run' = Idle
          \/ run' = [run EXCEPT !.pc = "terminal", !.done = FALSE]
          \/ \E pc \in {"check"} : run' = [run EXCEPT !.pc = pc]
      BY <1>22 DEF AgentEnds
    <3> QED
      BY <3>1, <1>task, <1>run, IdleRun DEF Runs, Steps
  <2> QED
    BY <1>22, <1>task, <2>1, <2>2 DEF Typed, AgentEnds
<1>23. CASE assert_exchange_unchanged
  <2>1. run' \in Runs
    <3>1. \/ run' = [run EXCEPT !.pc = "terminal", !.done = FALSE]
          \/ run' = [run EXCEPT !.pc = "flag"]
          \/ run' = [run EXCEPT !.pc = "post"]
      BY <1>23 DEF assert_exchange_unchanged
    <3> QED
      BY <3>1, <1>task, <1>run, IdleRun DEF Runs, Steps
  <2> QED
    BY <1>23, <1>task, <2>1 DEF Typed, assert_exchange_unchanged
<1>24. CASE FlagContaminated
  <2>1. flags' \in [Tasks -> AllFlags]
    BY <1>24, <1>task DEF Typed, FlagContaminated, AllFlags
  <2>2. noticed' \in [Tasks -> BOOLEAN]
    BY <1>24, <1>task DEF Typed, FlagContaminated
  <2>3. forgiven' \in [Tasks -> BOOLEAN]
    BY <1>24, <1>task DEF Typed, FlagContaminated
  <2>4. dir' \in [Tasks -> Entries]
    BY <1>24, <1>task, TreeSteps, EntryFacts DEF Typed, FlagContaminated, Entries
  <2>5. run' \in Runs
    BY <1>24, <1>task, IdleRun DEF Typed, FlagContaminated, Runs, Steps
  <2> QED
    BY <1>24, <1>task, <2>1, <2>2, <2>3, <2>4, <2>5 DEF Typed, FlagContaminated
<1>25. CASE _verify_control_plane_unchanged
  <2>1. run' \in Runs
    <3>1. \/ run' = [run EXCEPT !.pc = "terminal", !.done = FALSE]
          \/ run' = [run EXCEPT !.pc = "node"]
          \/ run' = [run EXCEPT !.pc = "terminal", !.done = TRUE]
      BY <1>25 DEF _verify_control_plane_unchanged
    <3> QED
      BY <3>1, <1>task, <1>run, IdleRun DEF Runs, Steps
  <2> QED
    BY <1>25, <1>task, <2>1 DEF Typed, _verify_control_plane_unchanged
<1>26. CASE _go_terminal
  <2>1. row' \in [Tasks -> Rows]
    <3>1. \E st \in {"done", "manual"}, d \in BOOLEAN :
            row' = [row EXCEPT ![cur].status = st, ![cur].ckpt = @ /\ ~d]
      BY <1>26 DEF _go_terminal
    <3> QED
      BY <3>1, <1>task, <1>row DEF Rows
  <2>2. run' \in Runs
    BY <1>26, <1>task, IdleRun DEF Typed, _go_terminal, Runs, Steps
  <2> QED
    BY <1>26, <1>task, <2>1, <2>2 DEF Typed, _go_terminal
<1>27. CASE quarantine_contaminated
  <2>1. flags' \in [Tasks -> AllFlags]
    <3>1. flags' = flags \/ flags' = [flags EXCEPT ![cur].unsafe = TRUE]
      BY <1>27 DEF quarantine_contaminated
    <3> QED
      BY <3>1, <1>task, <1>flags DEF AllFlags
  <2>2. dir' \in [Tasks -> Entries]
    BY <1>27, <1>task, TreeSteps, EntryFacts DEF Typed, quarantine_contaminated, Entries
  <2>3. run' \in Runs
    BY <1>27, <1>task, IdleRun DEF Typed, quarantine_contaminated, Runs, Steps
  <2> QED
    BY <1>27, <1>task, <2>1, <2>2, <2>3 DEF Typed, quarantine_contaminated
<1>28. CASE StageSeal
  <2>1. flags' \in [Tasks -> AllFlags]
    <3>1. flags' = flags \/ flags' = [flags EXCEPT ![cur].unsafe = TRUE]
      BY <1>28 DEF StageSeal, SealFails, Sound
    <3> QED
      BY <3>1, <1>task, <1>flags DEF AllFlags
  <2>2. run' \in Runs
    <3>1. \/ IsDir(dir[cur]) /\ run' = [run EXCEPT !.pc = "promote", !.before = dir[cur]]
          \/ run' = [run EXCEPT !.pc = "evict"]
      BY <1>28 DEF StageSeal, SealFails, Sound
    <3> QED
      BY <3>1, <1>task, EntryFacts, <1>run, <1>dir, IdleRun DEF Runs, Steps
  <2> QED
    BY <1>28, <1>task, <2>1, <2>2 DEF Typed, StageSeal, SealFails, Sound
<1>29. CASE _copy_tree_verified
  <2>1. flags' \in [Tasks -> AllFlags]
    <3>1. flags' = flags \/ flags' = [flags EXCEPT ![cur].unsafe = TRUE]
      BY <1>29 DEF _copy_tree_verified, SealFails
    <3> QED
      BY <3>1, <1>task, <1>flags DEF AllFlags
  <2>2. seals' \in [Tasks -> Seq(TrueSeals)]
    <3>1. \/ seals' = seals
          \/ /\ copy_verified
             /\ seals' = [seals EXCEPT ![run.task] =
                            Append(@, [tree |-> sealed_copy, manifest |-> Manifest(run.before)])]
      BY <1>29 DEF _copy_tree_verified, SealFails
    <3>2. copy_verified => sealed_copy \in Trees /\ Manifest(run.before) = Manifest(sealed_copy)
      BY SealedCopy DEF copy_verified
    <3>3. copy_verified => [tree |-> sealed_copy, manifest |-> Manifest(run.before)] \in TrueSeals
      BY <3>2 DEF TrueSeals
    <3>4. seals[run.task] \in Seq(TrueSeals)
      BY <1>seals, <1>task
    <3> HIDE DEF cur
    <3>5. copy_verified =>
            Append(seals[run.task], [tree |-> sealed_copy, manifest |-> Manifest(run.before)])
              \in Seq(TrueSeals)
      BY <3>3, <3>4
    <3> QED
      BY <3>1, <3>5, <1>seals, <1>task
  <2>3. run' \in Runs
    <3>1. \E pc \in {"remove", "evict"} : run' = [run EXCEPT !.pc = pc]
      BY <1>29 DEF _copy_tree_verified, SealFails
    <3> QED
      BY <3>1, <1>task, <1>run, IdleRun DEF Runs, Steps
  <2> QED
    BY <1>29, <1>task, <2>1, <2>2, <2>3 DEF Typed, _copy_tree_verified, SealFails
<1>30. CASE _remove_active_dir
  <2>1. flags' \in [Tasks -> AllFlags]
    <3>1. flags' = flags \/ flags' = [flags EXCEPT ![cur].unsafe = TRUE]
      BY <1>30 DEF _remove_active_dir, SealFails
    <3> QED
      BY <3>1, <1>task, <1>flags DEF AllFlags
  <2>2. dir' \in [Tasks -> Entries]
    <3>1. \/ dir' = dir
          \/ dir' = [dir EXCEPT ![cur] = Absent]
          \/ \E f \in Files : IsDir(dir[cur]) /\ dir' = [dir EXCEPT ![cur][f] = "none"]
      BY <1>30 DEF _remove_active_dir, SealFails
    <3> QED
      BY <3>1, <1>task, <1>dir, EntryFacts, TreeSteps DEF Contents, Entries
  <2>3. run' \in Runs
    BY <1>30, <1>task, IdleRun DEF Typed, _remove_active_dir, SealFails, Runs, Steps
  <2> QED
    BY <1>30, <1>task, <2>1, <2>2, <2>3 DEF Typed, _remove_active_dir, SealFails
<1>31. CASE SealWithheld
  <2>1. run' \in Runs
    BY <1>31, <1>task, IdleRun DEF Typed, SealWithheld, Runs, Steps
  <2> QED
    BY <1>31, <1>task, <2>1 DEF Typed, SealWithheld
<1>32. CASE _evict_run_artifacts
  <2>1. seals' \in [Tasks -> Seq(TrueSeals)]
    BY <1>32, <1>task DEF Typed, _evict_run_artifacts
  <2>2. bundle' \in [Tasks -> Bundles]
    <3>1. \/ bundle' = bundle
          \/ bundle' = [bundle EXCEPT ![cur] = [ctl |-> 0, pkt |-> 0, inst |-> None]]
      BY <1>32 DEF _evict_run_artifacts
    <3> QED
      BY <3>1, <1>task, <1>bundle DEF None, Versions, Bundles, Inputs
  <2>3. run' \in Runs
    BY <1>32, <1>task, IdleRun DEF Typed, _evict_run_artifacts, Runs, Steps
  <2> QED
    BY <1>32, <1>task, <2>1, <2>2, <2>3 DEF Typed, _evict_run_artifacts
<1>33. CASE Crash
  <2>1. run' \in Runs
    BY <1>33, <1>task, IdleRun DEF Typed, Crash, Runs, Steps
  <2> QED
    BY <1>33, <1>task, <2>1 DEF Typed, Crash
<1>34. ASSUME NEW t \in Tasks, NEW f \in Files, NEW v \in Contents \cup {"swapped"},
              Forge(t, f, v)
       PROVE  Typed'
  <2>1. dir' \in [Tasks -> Entries]
    BY <1>34, <1>task, TreeSteps, EntryFacts DEF Typed, Forge, Entries
  <2> QED
    BY <1>34, <1>task, <2>1 DEF Typed, Forge
<1>35. CASE UNCHANGED vars
  BY <1>35, <1>task DEF Typed, vars
<1> QED
  BY <1>1, <1>2, <1>3, <1>4, <1>5, <1>6, <1>7, <1>8, <1>9, <1>10, <1>11, <1>12, <1>13, <1>14,
       <1>15, <1>16, <1>17, <1>18, <1>19, <1>20, <1>21, <1>22, <1>23, <1>24, <1>25, <1>26,
       <1>27, <1>28, <1>29, <1>30, <1>31, <1>32, <1>33, <1>34, <1>35 DEF Next, Files, Contents

-----------------------------------------------------------------------------
(* One step per part of the invariant *)

\* Foreign entries are cleared before anything is published, and what an orphan writes
\* stays in a directory that is there.
LEMMA AloneStep ==
  ASSUME IInv, Typed', [Next]_vars
  PROVE  Alone'
<1> USE DEF IInv, Rest, disk, history, At, Goto, Manual, Escape, Spend, cur
<1>run. run \in Runs /\ run.task \in Tasks /\ Idle.pc = "idle" /\ Idle \in Runs
  BY IdleRun DEF Typed, Runs, Idle
<1>1. ASSUME NEW t \in Tasks, Start(t) PROVE Alone'
  BY <1>1, <1>run DEF Start, Begin, Alone, Runs, Freezing, Nodes
<1>2. ASSUME NEW t \in Tasks, Recover(t) PROVE Alone'
  BY <1>2, <1>run DEF Recover, Begin, Alone, Runs, Freezing, Nodes
<1>3. ASSUME NEW t \in Tasks, Continue(t) PROVE Alone'
  BY <1>3, <1>run DEF Continue, Begin, Alone, Runs, Freezing, Nodes
<1>4. ASSUME NEW t \in Tasks, rerun_task(t) PROVE Alone'
  BY <1>4, <1>run DEF rerun_task, Alone, Runs, Freezing, Nodes
<1>5. ASSUME NEW t \in Tasks, OrphanDies(t) PROVE Alone'
  BY <1>5, <1>run DEF OrphanDies, Alone, Runs, Freezing, Nodes
<1>6. ASSUME NEW t \in Tasks, NEW done \in BOOLEAN, finalize_task(t, done) PROVE Alone'
  BY <1>6, <1>run DEF finalize_task, Alone, Runs, Freezing, Nodes
<1>7. CASE reset_task_for_rerun
  BY <1>7, <1>run DEF reset_task_for_rerun, Alone, Runs, Freezing, Nodes
<1>8. CASE Edit
  BY <1>8, <1>run DEF Edit, Alone, Runs, Freezing, Nodes
<1>9. CASE ClearForeign
  <2>1. /\ run'.pc \in {"terminal", "guard", "control"} /\ run'.task = run.task
    BY <1>9, <1>run DEF ClearForeign, Runs
  <2>2. \/ clear_foreign_exchange_entries(run.task)
        \/ run'.pc = "terminal"
    BY <1>9, <1>run DEF ClearForeign, Runs
  <2> QED
    BY <2>1, <2>2 DEF Alone, clear_foreign_exchange_entries, Freezing, Nodes
<1>10. CASE ensure_current_exchange
  BY <1>10, <1>run DEF ensure_current_exchange, Alone, Runs, Freezing, Nodes
<1>11. CASE restore_for_continue
  BY <1>11, <1>run DEF restore_for_continue, Alone, Runs, Freezing, Nodes
<1>12. CASE PromoteRestored
  BY <1>12, <1>run DEF PromoteRestored, Alone, Runs, Freezing, Nodes
<1>13. CASE _freeze_live_control_bundle
  BY <1>13, <1>run DEF _freeze_live_control_bundle, Alone, Runs, Freezing, Nodes
<1>14. CASE freeze_control_bundle
  BY <1>14, <1>run DEF freeze_control_bundle, Alone, Runs, Freezing, Nodes
<1>15. CASE StoreControlDigest
  BY <1>15, <1>run DEF StoreControlDigest, Alone, Runs, Freezing, Nodes
<1>16. CASE _prepare_control_bundle
  BY <1>16, <1>run DEF _prepare_control_bundle, Alone, Runs, Freezing, Nodes
<1>17. CASE _freeze_task_and_repo_instructions
  BY <1>17, <1>run DEF _freeze_task_and_repo_instructions, Alone, Runs, Freezing, Nodes
<1>18. CASE _publish_frozen_task_packet
  <2>1. dir \in [Tasks -> Entries]
    BY DEF Typed
  <2>2. \A u \in Tasks \ {run.task} : dir'[u] = dir[u]
    BY <1>18, <2>1 DEF _publish_frozen_task_packet
  <2>3. run.pc = "publish" /\ strays' = strays /\ (run'.pc = "idle" \/ run'.task = run.task)
    BY <1>18, <1>run DEF _publish_frozen_task_packet, Runs
  <2>4. run'.pc # "swap"
    BY <1>18, <1>run DEF _publish_frozen_task_packet, Runs
  <2> QED
    BY <2>2, <2>3, <2>4 DEF Alone, Freezing, Nodes
<1>19. CASE write_instruction_manifest
  BY <1>19, <1>run DEF write_instruction_manifest, Alone, Runs, Freezing, Nodes
<1>20. CASE _finalize_instruction_bundle
  BY <1>20, <1>run DEF _finalize_instruction_bundle, Alone, Runs, Freezing, Nodes
<1>21. CASE Launch
  <2>1. dir \in [Tasks -> Entries]
    BY DEF Typed
  <2>2. \A u \in Tasks \ {run.task} : dir'[u] = dir[u]
    BY <1>21, <2>1 DEF Launch
  <2>3. run.pc = "node" /\ strays' = strays /\ (run'.pc = "idle" \/ run'.task = run.task)
    BY <1>21, <1>run DEF Launch, Runs
  <2>4. run'.pc # "swap"
    BY <1>21, <1>run DEF Launch, Runs
  <2> QED
    BY <2>2, <2>3, <2>4 DEF Alone, Freezing, Nodes
<1>22. CASE AgentEnds
  BY <1>22, <1>run DEF AgentEnds, Alone, Runs, Freezing, Nodes
<1>23. CASE assert_exchange_unchanged
  BY <1>23, <1>run DEF assert_exchange_unchanged, Alone, Runs, Freezing, Nodes
<1>24. CASE FlagContaminated
  BY <1>24, <1>run DEF FlagContaminated, Alone, Runs, Freezing, Nodes
<1>25. CASE _verify_control_plane_unchanged
  BY <1>25, <1>run DEF _verify_control_plane_unchanged, Alone, Runs, Freezing, Nodes
<1>26. CASE _go_terminal
  BY <1>26, <1>run DEF _go_terminal, Alone, Runs, Freezing, Nodes
<1>27. CASE quarantine_contaminated
  BY <1>27, <1>run DEF quarantine_contaminated, Alone, Runs, Freezing, Nodes
<1>28. CASE StageSeal
  BY <1>28, <1>run DEF StageSeal, SealFails, Alone, Runs, Freezing, Nodes
<1>29. CASE _copy_tree_verified
  BY <1>29, <1>run DEF _copy_tree_verified, SealFails, Alone, Runs, Freezing, Nodes
<1>30. CASE _remove_active_dir
  BY <1>30, <1>run DEF _remove_active_dir, SealFails, Alone, Runs, Freezing, Nodes
<1>31. CASE SealWithheld
  BY <1>31, <1>run DEF SealWithheld, Alone, Runs, Freezing, Nodes
<1>32. CASE _evict_run_artifacts
  BY <1>32, <1>run DEF _evict_run_artifacts, Alone, Runs, Freezing, Nodes
<1>33. CASE Crash
  BY <1>33, <1>run DEF Crash, Alone, Runs, Freezing, Nodes
<1>34. ASSUME NEW t \in Tasks, NEW f \in Files, NEW v \in {"forged", "bad", "none", "swapped"},
              Forge(t, f, v)
       PROVE  Alone'
  <2>1. dir \in [Tasks -> Entries]
    BY DEF Typed
  <2>2. IsDir(dir[t]) /\ run' = run /\ strays' = strays
    BY <1>34 DEF Forge
  <2>3. \A u \in Tasks \ {t} : dir'[u] = dir[u]
    BY <1>34, <2>1 DEF Forge
  <2>4. CASE t = run.task
    BY <2>2, <2>3, <2>4 DEF Alone
  <2>5. CASE t # run.task
    <3>1. run.pc \notin Freezing \cup Nodes
      BY <2>2, <2>5, <1>34 DEF Alone, IsDir
    <3> QED
      BY <3>1, <2>2 DEF Alone
  <2> QED
    BY <2>4, <2>5
<1>35. CASE UNCHANGED vars
  BY <1>35, <1>run DEF vars, Alone, Runs, Freezing, Nodes
<1> QED
  BY <1>1, <1>2, <1>3, <1>4, <1>5, <1>6, <1>7, <1>8, <1>9, <1>10, <1>11, <1>12, <1>13, <1>14,
       <1>15, <1>16, <1>17, <1>18, <1>19, <1>20, <1>21, <1>22, <1>23, <1>24, <1>25, <1>26,
       <1>27, <1>28, <1>29, <1>30, <1>31, <1>32, <1>33, <1>34, <1>35 DEF Next, Files

\* Only a fresh rerun and an end that is done drop the checkpoint.
LEMMA KeptStep ==
  ASSUME IInv, Typed', [Next]_vars
  PROVE  Kept'
<1> USE DEF IInv, Rest, disk, history, At, Goto, Manual, Escape, Spend, cur
<1>run. run \in Runs /\ run.task \in Tasks /\ Idle.pc = "idle" /\ Idle \in Runs
  BY IdleRun DEF Typed, Runs, Idle
<1>row. row \in [Tasks -> Rows] /\ flags \in [Tasks -> AllFlags]
  BY DEF Typed
<1>recs. \A t \in Tasks : row[t] \in Rows /\ flags[t] \in AllFlags
  BY <1>row
<1>hist. /\ noticed \in [Tasks -> BOOLEAN] /\ forgiven \in [Tasks -> BOOLEAN]
         /\ ran \in [Tasks -> SUBSET Inputs]
  BY DEF Typed
<1>1. ASSUME NEW t \in Tasks, Start(t) PROVE Kept'
  BY <1>1, <1>run, <1>row, <1>recs, <1>hist DEF Start, Begin, Kept, Runs, Freezing, Nodes,
       Rows
<1>2. ASSUME NEW t \in Tasks, Recover(t) PROVE Kept'
  BY <1>2, <1>run DEF Recover, Begin, Kept, Runs, Freezing, Nodes
<1>3. ASSUME NEW t \in Tasks, Continue(t) PROVE Kept'
  BY <1>3, <1>run, <1>row, <1>recs, <1>hist DEF Continue, Begin, Kept, Runs, Freezing, Nodes,
       Rows
<1>4. ASSUME NEW t \in Tasks, rerun_task(t) PROVE Kept'
  BY <1>4, <1>run DEF rerun_task, Kept, Runs, Freezing, Nodes
<1>5. ASSUME NEW t \in Tasks, OrphanDies(t) PROVE Kept'
  BY <1>5, <1>run DEF OrphanDies, Kept, Runs, Freezing, Nodes
<1>6. ASSUME NEW t \in Tasks, NEW done \in BOOLEAN, finalize_task(t, done) PROVE Kept'
  BY <1>6, <1>run, <1>row, <1>recs, <1>hist DEF finalize_task, Kept, Runs, Freezing, Nodes,
       Rows
<1>7. CASE reset_task_for_rerun
  BY <1>7, <1>run, <1>row, <1>recs, <1>hist DEF reset_task_for_rerun, Kept, Runs, Freezing,
       Nodes, Rows
<1>8. CASE Edit
  BY <1>8, <1>run DEF Edit, Kept, Runs, Freezing, Nodes
<1>9. CASE ClearForeign
  BY <1>9, <1>run DEF ClearForeign, clear_foreign_exchange_entries, Kept, Runs, Freezing,
       Nodes
<1>10. CASE ensure_current_exchange
  BY <1>10, <1>run DEF ensure_current_exchange, Kept, Runs, Freezing, Nodes
<1>11. CASE restore_for_continue
  BY <1>11, <1>run DEF restore_for_continue, Kept, Runs, Freezing, Nodes
<1>12. CASE PromoteRestored
  BY <1>12, <1>run DEF PromoteRestored, Kept, Runs, Freezing, Nodes
<1>13. CASE _freeze_live_control_bundle
  BY <1>13, <1>run DEF _freeze_live_control_bundle, Kept, Runs, Freezing, Nodes
<1>14. CASE freeze_control_bundle
  BY <1>14, <1>run DEF freeze_control_bundle, Kept, Runs, Freezing, Nodes
<1>15. CASE StoreControlDigest
  BY <1>15, <1>run DEF StoreControlDigest, Kept, Runs, Freezing, Nodes
<1>16. CASE _prepare_control_bundle
  BY <1>16, <1>run DEF _prepare_control_bundle, Kept, Runs, Freezing, Nodes
<1>17. CASE _freeze_task_and_repo_instructions
  BY <1>17, <1>run DEF _freeze_task_and_repo_instructions, Kept, Runs, Freezing, Nodes
<1>18. CASE _publish_frozen_task_packet
  BY <1>18, <1>run DEF _publish_frozen_task_packet, Kept, Runs, Freezing, Nodes
<1>19. CASE write_instruction_manifest
  BY <1>19, <1>run DEF write_instruction_manifest, Kept, Runs, Freezing, Nodes
<1>20. CASE _finalize_instruction_bundle
  BY <1>20, <1>run DEF _finalize_instruction_bundle, Kept, Runs, Freezing, Nodes
<1>21. CASE Launch
  <2>1. /\ row' = [row EXCEPT ![run.task].ckpt = TRUE, ![run.task].fp = run.in.ctl,
                               ![run.task].worked = TRUE]
        /\ run.pc = "node" /\ noticed' = noticed
        /\ ran' = ran \/ ran' = [ran EXCEPT ![run.task] = @ \cup {run.in}]
        /\ run' = Idle \/ run'.task = run.task
    BY <1>21, <1>run DEF Launch, Runs
  <2>2. \A t \in Tasks \ {run.task} : row'[t] = row[t] /\ ran'[t] = ran[t]
    BY <2>1, <1>row, <1>hist
  <2>3. row'[run.task].ckpt /\ row'[run.task].status = row[run.task].status
    BY <2>1, <1>run, <1>row, <1>recs DEF Rows
  <2>4. row[run.task].status = "active"
    BY <2>1 DEF Kept, Nodes
  <2> QED
    BY <2>1, <2>2, <2>3, <2>4, <1>run, IdleRun DEF Kept, Freezing, Nodes
<1>22. CASE AgentEnds
  BY <1>22, <1>run DEF AgentEnds, Kept, Runs, Freezing, Nodes
<1>23. CASE assert_exchange_unchanged
  BY <1>23, <1>run DEF assert_exchange_unchanged, Kept, Runs, Freezing, Nodes
<1>24. CASE FlagContaminated
  BY <1>24, <1>run, <1>row, <1>recs, <1>hist DEF FlagContaminated, Kept, Runs, Freezing,
       Nodes, Rows
<1>25. CASE _verify_control_plane_unchanged
  BY <1>25, <1>run DEF _verify_control_plane_unchanged, Kept, Runs, Freezing, Nodes
<1>26. CASE _go_terminal
  <2>1. PICK d \in BOOLEAN :
          /\ row' = [row EXCEPT ![run.task].status = IF d THEN "done" ELSE "manual",
                                ![run.task].ckpt = @ /\ ~d]
          /\ run'.pc = "seal" /\ noticed' = noticed /\ ran' = ran
    BY <1>26, <1>run DEF _go_terminal, Runs
  <2>2. \A t \in Tasks \ {run.task} : row'[t] = row[t]
    BY <2>1, <1>row
  <2>3. row'[run.task].status = IF d THEN "done" ELSE "manual"
    BY <2>1, <1>run, <1>row, <1>recs DEF Rows
  <2>4. row'[run.task].ckpt = (row[run.task].ckpt /\ ~d)
    BY <2>1, <1>run, <1>row, <1>recs DEF Rows
  <2>5. CASE d
    <3>1. row'[run.task].status = "done"
      BY <2>3, <2>5
    <3> QED
      BY <2>1, <2>2, <3>1, <1>run DEF Kept, Freezing, Nodes
  <2>6. CASE ~d
    <3>1. row'[run.task].ckpt = row[run.task].ckpt /\ row'[run.task].status = "manual"
      BY <2>3, <2>4, <2>6, <1>recs, <1>run DEF Rows
    <3>2. noticed[run.task] \/ ran[run.task] # {} =>
            row[run.task].ckpt \/ row[run.task].status = "done"
      BY <1>run DEF Kept, Freezing, Nodes
    <3>3. row[run.task].status # "done"
      BY <1>26 DEF Kept, _go_terminal
    <3> QED
      BY <2>1, <2>2, <3>1, <3>2, <3>3, <1>run DEF Kept, Freezing, Nodes
  <2> QED
    BY <2>5, <2>6
<1>27. CASE quarantine_contaminated
  BY <1>27, <1>run DEF quarantine_contaminated, Kept, Runs, Freezing, Nodes
<1>28. CASE StageSeal
  BY <1>28, <1>run DEF StageSeal, SealFails, Kept, Runs, Freezing, Nodes
<1>29. CASE _copy_tree_verified
  BY <1>29, <1>run DEF _copy_tree_verified, SealFails, Kept, Runs, Freezing, Nodes
<1>30. CASE _remove_active_dir
  BY <1>30, <1>run DEF _remove_active_dir, SealFails, Kept, Runs, Freezing, Nodes
<1>31. CASE SealWithheld
  BY <1>31, <1>run DEF SealWithheld, Kept, Runs, Freezing, Nodes
<1>32. CASE _evict_run_artifacts
  BY <1>32, <1>run DEF _evict_run_artifacts, Kept, Runs, Freezing, Nodes
<1>33. CASE Crash
  BY <1>33, <1>run DEF Crash, Kept, Runs, Freezing, Nodes
<1>34. ASSUME NEW t \in Tasks, NEW f \in Files, NEW v \in {"forged", "bad", "none", "swapped"},
              Forge(t, f, v)
       PROVE  Kept'
  BY <1>34, <1>run DEF Forge, Kept, Runs, Freezing, Nodes
<1>35. CASE UNCHANGED vars
  BY <1>35, <1>run DEF vars, Kept, Runs, Freezing, Nodes
<1> QED
  BY <1>1, <1>2, <1>3, <1>4, <1>5, <1>6, <1>7, <1>8, <1>9, <1>10, <1>11, <1>12, <1>13, <1>14,
       <1>15, <1>16, <1>17, <1>18, <1>19, <1>20, <1>21, <1>22, <1>23, <1>24, <1>25, <1>26,
       <1>27, <1>28, <1>29, <1>30, <1>31, <1>32, <1>33, <1>34, <1>35 DEF Next, Files

\* The flag is lifted only by a pass that a continue began, and dropped by a fresh rerun.
LEMMA NotedStep ==
  ASSUME IInv, Typed', [Next]_vars
  PROVE  Noted'
<1> USE DEF IInv, Rest, disk, history, At, Goto, Manual, Escape, Spend, cur
<1>run. run \in Runs /\ run.task \in Tasks /\ Idle.pc = "idle" /\ Idle \in Runs
  BY IdleRun DEF Typed, Runs, Idle
<1>row. row \in [Tasks -> Rows] /\ flags \in [Tasks -> AllFlags]
  BY DEF Typed
<1>recs. \A t \in Tasks : row[t] \in Rows /\ flags[t] \in AllFlags
  BY <1>row
<1>hist. /\ noticed \in [Tasks -> BOOLEAN] /\ forgiven \in [Tasks -> BOOLEAN]
         /\ ran \in [Tasks -> SUBSET Inputs]
  BY DEF Typed
<1>task. run'.task \in Tasks
  BY DEF Typed, Runs
<1>1. ASSUME NEW t \in Tasks, Start(t) PROVE Noted'
  BY <1>1, <1>run, <1>recs, <1>hist DEF Start, Begin, Kept, Noted, Idle, Freezing, Nodes
<1>2. ASSUME NEW t \in Tasks, Recover(t) PROVE Noted'
  BY <1>2, <1>run, <1>recs, <1>hist DEF Recover, Begin, Kept, Noted, Idle, Freezing, Nodes
<1>3. ASSUME NEW t \in Tasks, Continue(t) PROVE Noted'
  BY <1>3, <1>run, <1>recs, <1>hist DEF Continue, Begin, Kept, Noted, Idle, Freezing, Nodes
<1>4. ASSUME NEW t \in Tasks, rerun_task(t) PROVE Noted'
  BY <1>4, <1>run, IdleRun DEF rerun_task, Noted, Idle, Freezing, Nodes
<1>5. ASSUME NEW t \in Tasks, OrphanDies(t) PROVE Noted'
  BY <1>5, <1>run DEF OrphanDies, Noted, Runs, Freezing, Nodes
<1>6. ASSUME NEW t \in Tasks, NEW done \in BOOLEAN, finalize_task(t, done) PROVE Noted'
  BY <1>6, <1>run DEF finalize_task, Noted, Runs, Freezing, Nodes
<1>7. CASE reset_task_for_rerun
  BY <1>7, <1>run, <1>row, <1>recs, <1>hist DEF reset_task_for_rerun, Noted, Runs, Freezing,
       Nodes, AllFlags
<1>8. CASE Edit
  BY <1>8, <1>run DEF Edit, Noted, Runs, Freezing, Nodes
<1>9. CASE ClearForeign
  <2>1. /\ run'.pc \in {"terminal", "guard", "control"}
        /\ run'.pc = "control" => ~run.resume
        /\ run'.task = run.task /\ run'.resume = run.resume
        /\ run'.adopt = run.adopt /\ run'.in = run.in
    BY <1>9, <1>run DEF ClearForeign, clear_foreign_exchange_entries, Runs
  <2>2. run.pc = "clear" /\ UNCHANGED <<flags, noticed, forgiven>>
    BY <1>9 DEF ClearForeign, clear_foreign_exchange_entries
  <2> QED
    BY <2>1, <2>2 DEF Noted, Freezing, Nodes
<1>10. CASE ensure_current_exchange
  <2>1. /\ flags' = [flags EXCEPT ![run.task].contaminated = @ /\ ~Lifted]
        /\ run.pc = "guard" /\ noticed' = noticed /\ forgiven' = forgiven
        /\ run'.pc \in {"idle", "terminal"} \/ (~refused /\ run'.pc \in {"control", "restore"})
    BY <1>10, <1>run DEF ensure_current_exchange, Runs
  <2>2. run'.pc # "idle" => run'.task = run.task /\ run'.adopt = run.adopt
    BY <1>10, <1>run DEF ensure_current_exchange, Runs
  <2>3. \A t \in Tasks \ {run.task} : flags'[t] = flags[t]
    BY <2>1, <1>row
  <2>4. flags'[run.task].contaminated = (flags[run.task].contaminated /\ ~Lifted)
    BY <2>1, <1>run, <1>row, <1>recs DEF AllFlags
  <2>5. Lifted => forgiven[run.task]
    BY <2>1 DEF Lifted, Noted, Freezing
  <2>6. ~refused => ~flags'[run.task].contaminated
    BY <2>4, <1>recs, <1>run DEF refused, Lifted
  <2>7. \A t \in Tasks : /\ flags'[t].contaminated => noticed'[t]
                         /\ noticed'[t] /\ ~forgiven'[t] => flags'[t].contaminated
    BY <2>1, <2>3, <2>4, <2>5, <1>run DEF Noted
  <2>8. run'.adopt /\ run'.pc # "idle" => forgiven'[run.task]
    BY <2>1, <2>2 DEF Noted, Freezing
  <2>9. run'.pc \in {"idle", "terminal"} =>
          run'.pc \notin {"clear", "flag", "rerun"} \cup Freezing \cup Nodes
    BY DEF Freezing, Nodes
  <2>10. CASE run'.pc \in {"idle", "terminal"}
    BY <2>7, <2>9, <2>10 DEF Noted
  <2>11. CASE ~refused /\ run'.pc \in {"control", "restore"}
    BY <2>2, <2>6, <2>7, <2>8, <2>11 DEF Noted
  <2> QED
    BY <2>1, <2>10, <2>11
<1>11. CASE restore_for_continue
  BY <1>11, <1>run DEF restore_for_continue, Noted, Runs, Freezing, Nodes
<1>12. CASE PromoteRestored
  BY <1>12, <1>run DEF PromoteRestored, Noted, Runs, Freezing, Nodes
<1>13. CASE _freeze_live_control_bundle
  BY <1>13, <1>run DEF _freeze_live_control_bundle, Noted, Runs, Freezing, Nodes
<1>14. CASE freeze_control_bundle
  BY <1>14, <1>run DEF freeze_control_bundle, Noted, Runs, Freezing, Nodes
<1>15. CASE StoreControlDigest
  BY <1>15, <1>run DEF StoreControlDigest, Noted, Runs, Freezing, Nodes
<1>16. CASE _prepare_control_bundle
  BY <1>16, <1>run DEF _prepare_control_bundle, Noted, Runs, Freezing, Nodes
<1>17. CASE _freeze_task_and_repo_instructions
  <2>1. /\ run'.pc \in {"publish", "terminal"} /\ run'.task = run.task
        /\ run'.adopt = run.adopt
    BY <1>17, <1>run DEF _freeze_task_and_repo_instructions, Runs
  <2>2. run.pc = "packet" /\ UNCHANGED <<flags, noticed, forgiven>>
    BY <1>17 DEF _freeze_task_and_repo_instructions
  <2> QED
    BY <2>1, <2>2 DEF Noted, Freezing, Nodes
<1>18. CASE _publish_frozen_task_packet
  BY <1>18, <1>run DEF _publish_frozen_task_packet, Noted, Runs, Freezing, Nodes
<1>19. CASE write_instruction_manifest
  BY <1>19, <1>run DEF write_instruction_manifest, Noted, Runs, Freezing, Nodes
<1>20. CASE _finalize_instruction_bundle
  BY <1>20, <1>run DEF _finalize_instruction_bundle, Noted, Runs, Freezing, Nodes
<1>21. CASE Launch
  BY <1>21, <1>run DEF Launch, Noted, Runs, Freezing, Nodes
<1>22. CASE AgentEnds
  <2>1. flags' = flags \/ flags' = [flags EXCEPT ![run.task].unsafe = TRUE]
    BY <1>22 DEF AgentEnds
  <2>2. \A t \in Tasks : flags'[t].contaminated = flags[t].contaminated
    BY <2>1, <1>run, <1>row, <1>recs DEF AllFlags
  <2>3. /\ noticed' = noticed /\ forgiven' = forgiven
        /\ run'.pc \notin {"clear", "flag", "rerun"} \cup Freezing \cup (Nodes \ {"check"})
    BY <1>22, <1>run DEF AgentEnds, Runs, Freezing, Nodes
  <2>4. run'.pc = "check" => run.pc = "agent" /\ run'.task = run.task /\ run'.adopt = run.adopt
    BY <1>22, <1>run DEF AgentEnds, Runs
  <2> QED
    BY <2>2, <2>3, <2>4, <1>run, <1>task DEF Noted, Freezing, Nodes
<1>23. CASE assert_exchange_unchanged
  BY <1>23, <1>run DEF assert_exchange_unchanged, Noted, Runs, Freezing, Nodes
<1>24. CASE FlagContaminated
  BY <1>24, <1>run, <1>row, <1>recs, <1>hist DEF FlagContaminated, Noted, Runs, Freezing,
       Nodes, AllFlags
<1>25. CASE _verify_control_plane_unchanged
  <2>1. /\ run'.pc \in {"terminal", "node"}
        /\ run'.task = run.task /\ run'.resume = run.resume
        /\ run'.adopt = run.adopt /\ run'.in = run.in
    BY <1>25, <1>run DEF _verify_control_plane_unchanged, Runs
  <2>2. run.pc = "post" /\ UNCHANGED <<flags, noticed, forgiven>>
    BY <1>25 DEF _verify_control_plane_unchanged
  <2> QED
    BY <2>1, <2>2 DEF Noted, Freezing, Nodes
<1>26. CASE _go_terminal
  BY <1>26, <1>run DEF _go_terminal, Noted, Runs, Freezing, Nodes
<1>27. CASE quarantine_contaminated
  <2>1. flags' = flags \/ flags' = [flags EXCEPT ![run.task].unsafe = TRUE]
    BY <1>27 DEF quarantine_contaminated
  <2>2. \A t \in Tasks : flags'[t].contaminated = flags[t].contaminated
    BY <2>1, <1>run, <1>row, <1>recs DEF AllFlags
  <2>3. /\ noticed' = noticed /\ forgiven' = forgiven
        /\ run'.pc \notin {"clear", "flag", "rerun"} \cup Freezing \cup (Nodes \ {"check"})
    BY <1>27, <1>run DEF quarantine_contaminated, Runs, Freezing, Nodes
  <2>4. run'.pc = "check" => run.pc = "agent" /\ run'.task = run.task /\ run'.adopt = run.adopt
    BY <1>27, <1>run DEF quarantine_contaminated, Runs
  <2> QED
    BY <2>2, <2>3, <2>4, <1>run, <1>task DEF Noted, Freezing, Nodes
<1>28. CASE StageSeal
  <2>1. flags' = flags \/ flags' = [flags EXCEPT ![run.task].unsafe = TRUE]
    BY <1>28 DEF StageSeal, SealFails
  <2>2. \A t \in Tasks : flags'[t].contaminated = flags[t].contaminated
    BY <2>1, <1>run, <1>row, <1>recs DEF AllFlags
  <2>3. /\ noticed' = noticed /\ forgiven' = forgiven
        /\ run'.pc \notin {"clear", "flag", "rerun"} \cup Freezing \cup (Nodes \ {"check"})
    BY <1>28, <1>run DEF StageSeal, SealFails, Runs, Freezing, Nodes
  <2>4. run'.pc = "check" => run.pc = "agent" /\ run'.task = run.task /\ run'.adopt = run.adopt
    BY <1>28, <1>run DEF StageSeal, SealFails, Runs
  <2> QED
    BY <2>2, <2>3, <2>4, <1>run, <1>task DEF Noted, Freezing, Nodes
<1>29. CASE _copy_tree_verified
  <2>1. flags' = flags \/ flags' = [flags EXCEPT ![run.task].unsafe = TRUE]
    BY <1>29 DEF _copy_tree_verified, SealFails
  <2>2. \A t \in Tasks : flags'[t].contaminated = flags[t].contaminated
    BY <2>1, <1>run, <1>row, <1>recs DEF AllFlags
  <2>3. /\ noticed' = noticed /\ forgiven' = forgiven
        /\ run'.pc \notin {"clear", "flag", "rerun"} \cup Freezing \cup (Nodes \ {"check"})
    BY <1>29, <1>run DEF _copy_tree_verified, SealFails, Runs, Freezing, Nodes
  <2>4. run'.pc = "check" => run.pc = "agent" /\ run'.task = run.task /\ run'.adopt = run.adopt
    BY <1>29, <1>run DEF _copy_tree_verified, SealFails, Runs
  <2> QED
    BY <2>2, <2>3, <2>4, <1>run, <1>task DEF Noted, Freezing, Nodes
<1>30. CASE _remove_active_dir
  <2>1. flags' = flags \/ flags' = [flags EXCEPT ![run.task].unsafe = TRUE]
    BY <1>30 DEF _remove_active_dir, SealFails
  <2>2. \A t \in Tasks : flags'[t].contaminated = flags[t].contaminated
    BY <2>1, <1>run, <1>row, <1>recs DEF AllFlags
  <2>3. /\ noticed' = noticed /\ forgiven' = forgiven
        /\ run'.pc \notin {"clear", "flag", "rerun"} \cup Freezing \cup (Nodes \ {"check"})
    BY <1>30, <1>run DEF _remove_active_dir, SealFails, Runs, Freezing, Nodes
  <2>4. run'.pc = "check" => run.pc = "agent" /\ run'.task = run.task /\ run'.adopt = run.adopt
    BY <1>30, <1>run DEF _remove_active_dir, SealFails, Runs
  <2> QED
    BY <2>2, <2>3, <2>4, <1>run, <1>task DEF Noted, Freezing, Nodes
<1>31. CASE SealWithheld
  BY <1>31, <1>run DEF SealWithheld, Noted, Runs, Freezing, Nodes
<1>32. CASE _evict_run_artifacts
  BY <1>32, <1>run DEF _evict_run_artifacts, Noted, Runs, Freezing, Nodes
<1>33. CASE Crash
  BY <1>33, <1>run DEF Crash, Noted, Runs, Freezing, Nodes
<1>34. ASSUME NEW t \in Tasks, NEW f \in Files, NEW v \in {"forged", "bad", "none", "swapped"},
              Forge(t, f, v)
       PROVE  Noted'
  BY <1>34, <1>run DEF Forge, Noted, Runs, Freezing, Nodes
<1>35. CASE UNCHANGED vars
  BY <1>35, <1>run DEF vars, Noted, Runs, Freezing, Nodes
<1> QED
  BY <1>1, <1>2, <1>3, <1>4, <1>5, <1>6, <1>7, <1>8, <1>9, <1>10, <1>11, <1>12, <1>13, <1>14,
       <1>15, <1>16, <1>17, <1>18, <1>19, <1>20, <1>21, <1>22, <1>23, <1>24, <1>25, <1>26,
       <1>27, <1>28, <1>29, <1>30, <1>31, <1>32, <1>33, <1>34, <1>35 DEF Next, Files

\* A launch is on the row's fingerprint and the stored packet digest, which change only
\* while nothing has run on them.
LEMMA FrozenStep ==
  ASSUME IInv, Typed', [Next]_vars
  PROVE  Frozen'
<1> USE DEF IInv, Rest, disk, history, At, Goto, Manual, Escape, Spend, cur
<1>run. run \in Runs /\ run.task \in Tasks /\ Idle.pc = "idle" /\ Idle \in Runs
  BY IdleRun DEF Typed, Runs, Idle
<1>row. row \in [Tasks -> Rows] /\ flags \in [Tasks -> AllFlags]
  BY DEF Typed
<1>recs. \A t \in Tasks : row[t] \in Rows /\ flags[t] \in AllFlags
  BY <1>row
<1>hist. /\ noticed \in [Tasks -> BOOLEAN] /\ forgiven \in [Tasks -> BOOLEAN]
         /\ ran \in [Tasks -> SUBSET Inputs]
  BY DEF Typed
<1>st. stored \in [Tasks -> Digests] /\ bundle \in [Tasks -> Bundles]
  BY DEF Typed
<1>sts. \A t \in Tasks : stored[t] \in Digests /\ stored[t].inst \in Inputs
  BY <1>st DEF Digests
<1>vers. bundle[run.task].pkt \in Versions /\ live.pkt \in Versions
  BY <1>run, <1>st DEF Typed, Bundles, Inputs
<1>in. run.in \in Inputs /\ Idle.in \in Inputs
  BY <1>run DEF Runs
<1>1. ASSUME NEW t \in Tasks, Start(t) PROVE Frozen'
  <2>1. \A u \in Tasks : row'[u].fp = row[u].fp /\ stored'[u] = stored[u]
    BY <1>1, <1>row, <1>recs DEF Start, Rows
  <2>2. ran[t] = {} \/ row[t].ckpt
    BY <1>1 DEF Start, Kept
  <2>3. /\ run'.pc = "clear" /\ run'.task = t /\ run'.resume = FALSE /\ ~run'.adopt
        /\ ran' = ran
    BY <1>1, <1>run DEF Start, Begin, Runs, Idle
  <2>4. ~row[t].ckpt
    BY <1>1 DEF Start, Kept
  <2> QED
    BY <2>1, <2>2, <2>3, <2>4 DEF Frozen, Fresh, Freezing, Nodes
<1>2. ASSUME NEW t \in Tasks, Recover(t) PROVE Frozen'
  <2>1. \A u \in Tasks : row'[u].fp = row[u].fp /\ stored'[u] = stored[u]
    BY <1>2, <1>row, <1>recs DEF Recover, Rows
  <2>2. ran[t] = {} \/ row[t].ckpt
    BY <1>2 DEF Recover, Kept
  <2>3. /\ run'.pc = "clear" /\ run'.task = t /\ run'.resume = row[t].ckpt /\ ~run'.adopt
        /\ ran' = ran
    BY <1>2, <1>run DEF Recover, Begin, Runs, Idle
  <2> QED
    BY <2>1, <2>2, <2>3 DEF Frozen, Fresh, Freezing, Nodes
<1>3. ASSUME NEW t \in Tasks, Continue(t) PROVE Frozen'
  <2>1. \A u \in Tasks \ {t} : row'[u] = row[u] /\ ran'[u] = ran[u]
    BY <1>3, <1>row, <1>hist DEF Continue
  <2>2. stored' = stored /\ ran'[t] = {}
    BY <1>3, <1>hist DEF Continue
  <2>3. run'.pc = "clear" /\ run'.task = t
    BY <1>3, <1>run DEF Continue, Begin, Runs
  <2> QED
    BY <2>1, <2>2, <2>3 DEF Frozen, Freezing, Nodes
<1>4. ASSUME NEW t \in Tasks, rerun_task(t) PROVE Frozen'
  BY <1>4, <1>run DEF rerun_task, Frozen, Runs, Freezing, Nodes, Fresh
<1>5. ASSUME NEW t \in Tasks, OrphanDies(t) PROVE Frozen'
  BY <1>5, <1>run DEF OrphanDies, Frozen, Runs, Freezing, Nodes, Fresh
<1>6. ASSUME NEW t \in Tasks, NEW done \in BOOLEAN, finalize_task(t, done) PROVE Frozen'
  BY <1>6, <1>run DEF finalize_task, Frozen, Runs, Freezing, Nodes, Fresh
<1>7. CASE reset_task_for_rerun
  <2>1. \A u \in Tasks \ {run.task} : row'[u] = row[u] /\ ran'[u] = ran[u]
    BY <1>7, <1>row, <1>hist DEF reset_task_for_rerun
  <2>2. stored' = stored /\ ran'[run.task] = {}
    BY <1>7, <1>run, <1>hist DEF reset_task_for_rerun
  <2>3. run'.pc = "clear" /\ run'.task = run.task
    BY <1>7, <1>run DEF reset_task_for_rerun, Runs
  <2> QED
    BY <2>1, <2>2, <2>3 DEF Frozen, Freezing, Nodes
<1>8. CASE Edit
  BY <1>8, <1>run DEF Edit, Frozen, Runs, Freezing, Nodes, Fresh
<1>9. CASE ClearForeign
  <2>1. /\ run'.pc \in {"terminal", "guard", "control"}
        /\ run'.task = run.task /\ run'.resume = run.resume
        /\ run'.adopt = run.adopt /\ run'.in = run.in
    BY <1>9, <1>run DEF ClearForeign, clear_foreign_exchange_entries, Runs
  <2>2. run.pc = "clear" /\ UNCHANGED <<row, stored, ran>>
    BY <1>9 DEF ClearForeign, clear_foreign_exchange_entries
  <2> QED
    BY <2>1, <2>2 DEF Frozen, Freezing, Nodes, Fresh
<1>10. CASE ensure_current_exchange
  <2>1. \/ run'.pc = "idle"
        \/ run'.pc \in {"terminal", "restore", "control"} /\ run'.task = run.task /\ run'.resume = run.resume
           /\ run'.adopt = run.adopt /\ run'.in = run.in
    BY <1>10, <1>run DEF ensure_current_exchange, Runs
  <2>2. run.pc = "guard" /\ UNCHANGED <<row, stored, ran>>
    BY <1>10 DEF ensure_current_exchange
  <2> QED
    BY <2>1, <2>2 DEF Frozen, Freezing, Nodes, Fresh
<1>11. CASE restore_for_continue
  <2>1. \/ run'.pc = "idle"
        \/ run'.pc \in {"terminal", "swap"} /\ run'.task = run.task /\ run'.resume = run.resume
           /\ run'.adopt = run.adopt /\ run'.in = run.in
    BY <1>11, <1>run DEF restore_for_continue, Runs
  <2>2. run.pc = "restore" /\ UNCHANGED <<row, stored, ran>>
    BY <1>11 DEF restore_for_continue
  <2> QED
    BY <2>1, <2>2 DEF Frozen, Freezing, Nodes, Fresh
<1>12. CASE PromoteRestored
  BY <1>12, <1>run DEF PromoteRestored, Frozen, Runs, Freezing, Nodes, Fresh
<1>13. CASE _freeze_live_control_bundle
  BY <1>13, <1>run DEF _freeze_live_control_bundle, Frozen, Runs, Freezing, Nodes, Fresh
<1>14. CASE freeze_control_bundle
  <2>1. /\ run'.pc \in {"terminal", "store"}
        /\ run'.task = run.task /\ run'.resume = run.resume
        /\ run'.adopt = run.adopt /\ run'.in = run.in
    BY <1>14, <1>run DEF freeze_control_bundle, Runs
  <2>2. run.pc = "copy" /\ UNCHANGED <<row, stored, ran>>
    BY <1>14 DEF freeze_control_bundle
  <2> QED
    BY <2>1, <2>2 DEF Frozen, Freezing, Nodes, Fresh
<1>15. CASE StoreControlDigest
  <2>1. /\ stored' = [stored EXCEPT ![run.task].ctl = bundle[run.task].ctl]
        /\ row' = row /\ ran' = ran /\ run.pc = "store"
        /\ run'.pc \in {"packet", "terminal"} /\ run'.task = run.task
        /\ run'.resume = run.resume /\ run'.adopt = run.adopt
    BY <1>15, <1>run DEF StoreControlDigest, Runs
  <2>2. \A t \in Tasks : stored'[t].inst = stored[t].inst
    BY <2>1, <1>run, <1>st, <1>sts DEF Digests
  <2>3. Fresh /\ Fresh' /\ ran[run.task] = {}
    BY <2>1 DEF Frozen, Freezing, Fresh
  <2> QED
    BY <2>1, <2>2, <2>3 DEF Frozen, Freezing, Nodes
<1>16. CASE _prepare_control_bundle
  <2>1. /\ row' = row /\ stored' = stored /\ ran' = ran /\ run.pc = "control" /\ ~Fresh
        /\ run'.pc \in {"packet", "terminal"} /\ run'.task = run.task
        /\ run'.resume = run.resume /\ run'.adopt = run.adopt
    BY <1>16, <1>run DEF _prepare_control_bundle, Runs, Fresh
  <2>2. run'.pc = "packet" => /\ load_control_bundle /\ fingerprint_ok
                             /\ run'.in.ctl = stored[run.task].ctl
    <3>1. [run EXCEPT !.pc = "packet", !.in.ctl = stored[run.task].ctl].in.ctl
            = stored[run.task].ctl
      BY <1>run DEF Runs, Inputs
    <3> QED
      BY <3>1, <1>16, <1>run DEF _prepare_control_bundle, Runs
  <2>3. load_control_bundle /\ fingerprint_ok => stored[run.task].ctl = row[run.task].fp
    BY <1>16 DEF load_control_bundle, fingerprint_ok, _prepare_control_bundle
  <2>4. ~Fresh'
    BY <2>1 DEF Fresh
  <2> QED
    BY <2>1, <2>2, <2>3, <2>4 DEF Frozen, Freezing, Nodes
<1>17. CASE _freeze_task_and_repo_instructions
  <2>1. /\ row' = row /\ stored' = stored /\ ran' = ran /\ run.pc = "packet"
        /\ run'.pc \in {"publish", "terminal"} /\ run'.task = run.task
        /\ run'.resume = run.resume /\ run'.adopt = run.adopt
    BY <1>17, <1>run DEF _freeze_task_and_repo_instructions, Runs
  <2>2. run'.pc = "publish" => run'.in.ctl = run.in.ctl
    <3>1. \/ run'.pc = "terminal"
          \/ \E x \in Versions : run' = [run EXCEPT !.pc = "publish", !.in.pkt = x]
      BY <1>17, <1>run, <1>vers DEF _freeze_task_and_repo_instructions, Runs
    <3>2. ASSUME NEW x \in Versions, run' = [run EXCEPT !.pc = "publish", !.in.pkt = x]
          PROVE  run'.in.ctl = run.in.ctl
      BY <3>2, <1>run DEF Runs, Inputs
    <3> QED
      BY <3>1, <3>2
  <2>3. run'.pc = "publish" /\ run.resume => run'.in.pkt = stored[run.task].inst.pkt
    <3>1. [run EXCEPT !.pc = "publish", !.in.pkt = bundle[run.task].pkt].in.pkt
            = bundle[run.task].pkt
      BY <1>run DEF Runs, Inputs
    <3>2. run'.pc = "publish" /\ run.resume =>
            /\ load_instruction_bundle
            /\ run' = [run EXCEPT !.pc = "publish", !.in.pkt = bundle[run.task].pkt]
      BY <1>17, <1>run DEF _freeze_task_and_repo_instructions, Runs
    <3> QED
      BY <3>1, <3>2 DEF load_instruction_bundle
  <2>4. Fresh' = Fresh
    BY <2>1 DEF Fresh
  <2> QED
    BY <2>1, <2>2, <2>3, <2>4 DEF Frozen, Fresh, Freezing, Nodes
<1>18. CASE _publish_frozen_task_packet
  BY <1>18, <1>run DEF _publish_frozen_task_packet, Frozen, Runs, Freezing, Nodes, Fresh
<1>19. CASE write_instruction_manifest
  BY <1>19, <1>run DEF write_instruction_manifest, Frozen, Runs, Freezing, Nodes, Fresh
<1>20. CASE _finalize_instruction_bundle
  <2>1. /\ stored' = [stored EXCEPT ![run.task].inst = run.in]
        /\ row' = row /\ ran' = ran /\ run.pc = "record"
        /\ run'.pc = "node" /\ run'.task = run.task /\ run'.in = run.in
    BY <1>20, <1>run DEF _finalize_instruction_bundle, Runs
  <2>2. \A t \in Tasks \ {run.task} : stored'[t] = stored[t]
    BY <2>1, <1>st
  <2>3. stored'[run.task].inst = run.in
    BY <2>1, <1>run, <1>st, <1>sts DEF Digests
  <2>4. ran[run.task] = {}
    BY <2>1 DEF Frozen, Freezing
  <2> QED
    BY <2>1, <2>2, <2>3, <2>4 DEF Frozen, Freezing, Nodes
<1>21. CASE Launch
  <2>1. /\ row' = [row EXCEPT ![run.task].ckpt = TRUE, ![run.task].fp = run.in.ctl,
                               ![run.task].worked = TRUE]
        /\ stored' = stored /\ run.pc = "node"
        /\ ran' = ran \/ ran' = [ran EXCEPT ![run.task] = @ \cup {run.in}]
    BY <1>21 DEF Launch
  <2>2. \/ run'.pc \in {"idle", "terminal"}
        \/ run'.pc = "agent" /\ run'.task = run.task /\ run'.in = run.in
    BY <1>21, <1>run DEF Launch, Runs
  <2>3. \A t \in Tasks \ {run.task} : row'[t] = row[t] /\ ran'[t] = ran[t]
    BY <2>1, <1>row, <1>hist
  <2>4. row'[run.task].fp = run.in.ctl
    BY <2>1, <1>run, <1>row, <1>recs DEF Rows
  <2>5. /\ run.in.pkt = stored[run.task].inst.pkt
        /\ ran[run.task] = {} \/ run.in.ctl = row[run.task].fp
    BY <2>1 DEF Frozen, Nodes
  <2>6. run.in = [ctl |-> run.in.ctl, pkt |-> run.in.pkt]
    BY <1>in DEF Inputs
  <2>7. ran'[run.task] \subseteq ran[run.task] \cup {run.in}
    BY <2>1, <1>run, <1>hist
  <2>8. ran[run.task] \subseteq {run.in}
    BY <2>5, <2>6, <1>run DEF Frozen
  <2>9. ran'[run.task] \subseteq
          {[ctl |-> row'[run.task].fp, pkt |-> stored'[run.task].inst.pkt]}
    BY <2>1, <2>4, <2>5, <2>6, <2>7, <2>8
  <2>10. \A t \in Tasks :
           ran'[t] \subseteq {[ctl |-> row'[t].fp, pkt |-> stored'[t].inst.pkt]}
    BY <2>1, <2>3, <2>9 DEF Frozen
  <2>11. CASE run'.pc \in {"idle", "terminal"}
    BY <2>10, <2>11 DEF Frozen, Freezing, Nodes
  <2>12. CASE run'.pc = "agent" /\ run'.task = run.task /\ run'.in = run.in
    BY <2>1, <2>4, <2>5, <2>10, <2>12 DEF Frozen, Freezing, Nodes
  <2> QED
    BY <2>2, <2>11, <2>12
<1>22. CASE AgentEnds
  BY <1>22, <1>run DEF AgentEnds, Frozen, Runs, Freezing, Nodes, Fresh
<1>23. CASE assert_exchange_unchanged
  <2>1. /\ run'.pc \in {"terminal", "flag", "post"}
        /\ run'.task = run.task /\ run'.resume = run.resume
        /\ run'.adopt = run.adopt /\ run'.in = run.in
    BY <1>23, <1>run DEF assert_exchange_unchanged, Runs
  <2>2. run.pc = "check" /\ UNCHANGED <<row, stored, ran>>
    BY <1>23 DEF assert_exchange_unchanged
  <2> QED
    BY <2>1, <2>2 DEF Frozen, Freezing, Nodes, Fresh
<1>24. CASE FlagContaminated
  BY <1>24, <1>run DEF FlagContaminated, Frozen, Runs, Freezing, Nodes, Fresh
<1>25. CASE _verify_control_plane_unchanged
  <2>1. /\ run'.pc \in {"terminal", "node"}
        /\ run'.task = run.task /\ run'.resume = run.resume
        /\ run'.adopt = run.adopt /\ run'.in = run.in
    BY <1>25, <1>run DEF _verify_control_plane_unchanged, Runs
  <2>2. run.pc = "post" /\ UNCHANGED <<row, stored, ran>>
    BY <1>25 DEF _verify_control_plane_unchanged
  <2> QED
    BY <2>1, <2>2 DEF Frozen, Freezing, Nodes, Fresh
<1>26. CASE _go_terminal
  <2>1. /\ \E d \in BOOLEAN, st \in {"done", "manual"} :
              row' = [row EXCEPT ![run.task].status = st, ![run.task].ckpt = @ /\ ~d]
        /\ stored' = stored /\ ran' = ran /\ run'.pc = "seal"
    BY <1>26, <1>run DEF _go_terminal, Runs
  <2>2. \A t \in Tasks : row'[t].fp = row[t].fp
    BY <2>1, <1>run, <1>row, <1>recs DEF Rows
  <2> QED
    BY <2>1, <2>2 DEF Frozen, Freezing, Nodes
<1>27. CASE quarantine_contaminated
  BY <1>27, <1>run DEF quarantine_contaminated, Frozen, Runs, Freezing, Nodes, Fresh
<1>28. CASE StageSeal
  BY <1>28, <1>run DEF StageSeal, SealFails, Frozen, Runs, Freezing, Nodes, Fresh
<1>29. CASE _copy_tree_verified
  BY <1>29, <1>run DEF _copy_tree_verified, SealFails, Frozen, Runs, Freezing, Nodes, Fresh
<1>30. CASE _remove_active_dir
  BY <1>30, <1>run DEF _remove_active_dir, SealFails, Frozen, Runs, Freezing, Nodes, Fresh
<1>31. CASE SealWithheld
  BY <1>31, <1>run DEF SealWithheld, Frozen, Runs, Freezing, Nodes, Fresh
<1>32. CASE _evict_run_artifacts
  BY <1>32, <1>run DEF _evict_run_artifacts, Frozen, Runs, Freezing, Nodes, Fresh
<1>33. CASE Crash
  BY <1>33, <1>run DEF Crash, Frozen, Runs, Freezing, Nodes, Fresh
<1>34. ASSUME NEW t \in Tasks, NEW f \in Files, NEW v \in {"forged", "bad", "none", "swapped"},
              Forge(t, f, v)
       PROVE  Frozen'
  BY <1>34, <1>run DEF Forge, Frozen, Runs, Freezing, Nodes, Fresh
<1>35. CASE UNCHANGED vars
  BY <1>35, <1>run DEF vars, Frozen, Runs, Freezing, Nodes, Fresh
<1> QED
  BY <1>1, <1>2, <1>3, <1>4, <1>5, <1>6, <1>7, <1>8, <1>9, <1>10, <1>11, <1>12, <1>13, <1>14,
       <1>15, <1>16, <1>17, <1>18, <1>19, <1>20, <1>21, <1>22, <1>23, <1>24, <1>25, <1>26,
       <1>27, <1>28, <1>29, <1>30, <1>31, <1>32, <1>33, <1>34, <1>35 DEF Next, Files

\* Removal begins with a promoted copy of what is there, and nobody but the orchestrator
\* writes an own file.
LEMMA SealedStep ==
  ASSUME IInv, Typed', [Next]_vars
  PROVE  Sealed'
<1> USE DEF IInv, Rest, disk, history, At, Goto, Manual, Escape, Spend, cur
<1>run. run \in Runs /\ run.task \in Tasks /\ Idle.pc = "idle" /\ Idle \in Runs
  BY IdleRun DEF Typed, Runs, Idle
<1>seals. seals \in [Tasks -> Seq(TrueSeals)] /\ dir \in [Tasks -> Entries]
  BY DEF Typed
<1>1. ASSUME NEW t \in Tasks, Start(t) PROVE Sealed'
  BY <1>1, <1>run DEF Start, Begin, Sealed, Runs
<1>2. ASSUME NEW t \in Tasks, Recover(t) PROVE Sealed'
  BY <1>2, <1>run DEF Recover, Begin, Sealed, Runs
<1>3. ASSUME NEW t \in Tasks, Continue(t) PROVE Sealed'
  BY <1>3, <1>run DEF Continue, Begin, Sealed, Runs
<1>4. ASSUME NEW t \in Tasks, rerun_task(t) PROVE Sealed'
  BY <1>4, <1>run DEF rerun_task, Sealed, Runs
<1>5. ASSUME NEW t \in Tasks, OrphanDies(t) PROVE Sealed'
  BY <1>5 DEF OrphanDies, Sealed, latest
<1>6. ASSUME NEW t \in Tasks, NEW done \in BOOLEAN, finalize_task(t, done) PROVE Sealed'
  BY <1>6, <1>run DEF finalize_task, Sealed, Runs
<1>7. CASE reset_task_for_rerun
  BY <1>7, <1>run DEF reset_task_for_rerun, Sealed, Runs
<1>8. CASE Edit
  BY <1>8 DEF Edit, Sealed, latest
<1>9. CASE ClearForeign
  BY <1>9, <1>run DEF ClearForeign, clear_foreign_exchange_entries, Sealed, Runs
<1>10. CASE ensure_current_exchange
  BY <1>10, <1>run DEF ensure_current_exchange, Sealed, Runs
<1>11. CASE restore_for_continue
  BY <1>11, <1>run DEF restore_for_continue, Sealed, Runs
<1>12. CASE PromoteRestored
  BY <1>12, <1>run DEF PromoteRestored, Sealed, Runs
<1>13. CASE _freeze_live_control_bundle
  BY <1>13, <1>run DEF _freeze_live_control_bundle, Sealed, Runs
<1>14. CASE freeze_control_bundle
  BY <1>14, <1>run DEF freeze_control_bundle, Sealed, Runs
<1>15. CASE StoreControlDigest
  BY <1>15, <1>run DEF StoreControlDigest, Sealed, Runs
<1>16. CASE _prepare_control_bundle
  BY <1>16, <1>run DEF _prepare_control_bundle, Sealed, Runs
<1>17. CASE _freeze_task_and_repo_instructions
  BY <1>17, <1>run DEF _freeze_task_and_repo_instructions, Sealed, Runs
<1>18. CASE _publish_frozen_task_packet
  BY <1>18, <1>run DEF _publish_frozen_task_packet, Sealed, Runs
<1>19. CASE write_instruction_manifest
  BY <1>19, <1>run DEF write_instruction_manifest, Sealed, Runs
<1>20. CASE _finalize_instruction_bundle
  BY <1>20, <1>run DEF _finalize_instruction_bundle, Sealed, Runs
<1>21. CASE Launch
  BY <1>21, <1>run DEF Launch, Sealed, Runs
<1>22. CASE AgentEnds
  BY <1>22, <1>run DEF AgentEnds, Sealed, Runs
<1>23. CASE assert_exchange_unchanged
  BY <1>23, <1>run DEF assert_exchange_unchanged, Sealed, Runs
<1>24. CASE FlagContaminated
  BY <1>24, <1>run DEF FlagContaminated, Sealed, Runs
<1>25. CASE _verify_control_plane_unchanged
  BY <1>25, <1>run DEF _verify_control_plane_unchanged, Sealed, Runs
<1>26. CASE _go_terminal
  BY <1>26, <1>run DEF _go_terminal, Sealed, Runs
<1>27. CASE quarantine_contaminated
  BY <1>27, <1>run DEF quarantine_contaminated, Sealed, Runs
<1>28. CASE StageSeal
  BY <1>28, <1>run DEF StageSeal, SealFails, Sealed, Runs
<1>29. CASE _copy_tree_verified
  <2>1. \/ run'.pc = "evict"
        \/ /\ run'.pc = "remove" /\ run'.task = run.task /\ dir' = dir /\ copy_verified
           /\ seals' = [seals EXCEPT ![run.task] =
                          Append(@, [tree |-> sealed_copy,
                                     manifest |-> Manifest(run.before)])]
    BY <1>29, <1>run DEF _copy_tree_verified, SealFails, Runs
  <2>2. CASE run'.pc = "evict"
    BY <2>2 DEF Sealed
  <2>3. CASE /\ run'.pc = "remove" /\ run'.task = run.task /\ dir' = dir /\ copy_verified
             /\ seals' = [seals EXCEPT ![run.task] =
                            Append(@, [tree |-> sealed_copy,
                                       manifest |-> Manifest(run.before)])]
    <3> DEFINE s == seals[run.task]
               e == [tree |-> sealed_copy, manifest |-> Manifest(run.before)]
    <3>1. s \in Seq(TrueSeals)
      BY <1>seals, <1>run
    <3>2. seals'[run.task] = Append(s, e)
      BY <2>3, <1>seals, <1>run
    <3>3. seals'[run.task] # <<>> /\ seals'[run.task][Len(seals'[run.task])] = e
      <4> HIDE DEF s, e
      <4>1. Append(s, e) # <<>> /\ Append(s, e)[Len(Append(s, e))] = e
        BY <3>1
      <4> QED
        BY <3>2, <4>1
    <3>4. latest'.tree = sealed_copy
      BY <3>3, <2>3 DEF latest
    <3>5. IsDir(dir[run.task]) =>
            \A f \in Files : dir[run.task][f] = "own" => sealed_copy[f] = "own"
      BY <1>29, SealedCopy DEF _copy_tree_verified, Sealed
    <3> QED
      BY <2>3, <3>3, <3>4, <3>5 DEF Sealed
  <2> QED
    BY <2>1, <2>2, <2>3
<1>30. CASE _remove_active_dir
  <2>1. CASE \E f \in Files : /\ IsDir(dir[run.task]) /\ run' = run /\ seals' = seals
                              /\ run.pc = "remove"
                              /\ dir' = [dir EXCEPT ![run.task][f] = "none"]
    <3>1. PICK f \in Files : /\ IsDir(dir[run.task]) /\ run' = run /\ seals' = seals
                             /\ dir' = [dir EXCEPT ![run.task][f] = "none"]
      BY <2>1
    <3>2. dir[run.task] \in Trees
      BY <3>1, <1>seals, <1>run, EntryFacts
    <3>3. dir'[run.task] = [dir[run.task] EXCEPT ![f] = "none"]
      BY <3>1, <1>seals, <1>run
    <3>4. \A g \in Files : dir'[run.task][g] = "own" => dir[run.task][g] = "own"
      BY <3>2, <3>3 DEF Trees
    <3>5. latest' = latest
      BY <3>1 DEF latest
    <3> QED
      BY <2>1, <3>1, <3>4, <3>5 DEF Sealed
  <2>2. CASE run'.pc = "evict"
    BY <2>2 DEF Sealed
  <2> QED
    BY <1>30, <2>1, <2>2, <1>run DEF _remove_active_dir, SealFails, Runs
<1>31. CASE SealWithheld
  BY <1>31, <1>run DEF SealWithheld, Sealed, Runs
<1>32. CASE _evict_run_artifacts
  BY <1>32, <1>run DEF _evict_run_artifacts, Sealed, Runs
<1>33. CASE Crash
  BY <1>33, <1>run DEF Crash, Sealed, Runs
<1>34. ASSUME NEW t \in Tasks, NEW f \in Files, NEW v \in {"forged", "bad", "none", "swapped"},
              Forge(t, f, v)
       PROVE  Sealed'
  <2>1. run' = run /\ seals' = seals /\ IsDir(dir[t])
    BY <1>34 DEF Forge
  <2>2. \A u \in Tasks \ {t} : dir'[u] = dir[u]
    BY <1>34, <1>seals DEF Forge
  <2>3. dir'[t] \in Trees => \A g \in Files : dir'[t][g] = "own" => dir[t][g] = "own"
    <3>1. dir[t] \in Trees
      BY <2>1, <1>seals, <1>34, EntryFacts
    <3>2. dir'[t] = Swapped \/ dir'[t] = [dir[t] EXCEPT ![f] = v]
      BY <1>34, <1>seals DEF Forge
    <3> QED
      BY <3>1, <3>2, <1>34, EntryFacts DEF Trees
  <2>4. latest' = latest
    BY <2>1 DEF latest
  <2>5. \A g \in Files : IsDir(dir'[run.task]) /\ dir'[run.task][g] = "own" =>
          IsDir(dir[run.task]) /\ dir[run.task][g] = "own"
    <3>1. dir'[t] \in Entries
      BY <1>34 DEF Typed
    <3>2. IsDir(dir'[t]) => dir'[t] \in Trees
      BY <3>1, EntryFacts
    <3>3. CASE t = run.task
      BY <2>1, <2>3, <3>2, <3>3
    <3>4. CASE t # run.task
      BY <2>2, <3>4, <1>run
    <3> QED
      BY <3>3, <3>4
  <2> QED
    BY <2>1, <2>4, <2>5 DEF Sealed
<1>35. CASE UNCHANGED vars
  BY <1>35 DEF vars, Sealed, latest
<1> QED
  BY <1>1, <1>2, <1>3, <1>4, <1>5, <1>6, <1>7, <1>8, <1>9, <1>10, <1>11, <1>12, <1>13, <1>14,
       <1>15, <1>16, <1>17, <1>18, <1>19, <1>20, <1>21, <1>22, <1>23, <1>24, <1>25, <1>26,
       <1>27, <1>28, <1>29, <1>30, <1>31, <1>32, <1>33, <1>34, <1>35 DEF Next, Files

-----------------------------------------------------------------------------
(* The invariant holds, and what follows from it *)

LEMMA InitInv == Init => IInv
<1> SUFFICES ASSUME Init PROVE IInv
  OBVIOUS
<1>1. Typed
  BY InitTyped
<1>2. run.pc = "idle" /\ run.task \in Tasks
  BY <1>1 DEF Init, Idle, Typed, Runs
<1>3. Alone /\ Kept /\ Sealed
  BY <1>2 DEF Init, Alone, Kept, Sealed, Freezing, Nodes, cur
<1>4. Noted /\ Frozen
  BY <1>2 DEF Init, Noted, Frozen, Freezing, Nodes, cur
<1> QED
  BY <1>1, <1>3, <1>4 DEF IInv

LEMMA StepInv == IInv /\ [Next]_vars => IInv'
<1> SUFFICES ASSUME IInv, [Next]_vars PROVE IInv'
  OBVIOUS
<1>1. Typed'
  BY TypedStep DEF IInv
<1> QED
  BY <1>1, AloneStep, KeptStep, NotedStep, FrozenStep, SealedStep DEF IInv

LEMMA Inductive == Spec => []IInv
  BY InitInv, StepInv, PTL DEF Spec

\* The parts of TypeOK.
LEMMA TypedIsTypeOK ==
  ASSUME Typed
  PROVE  TypeOK
<1>1. \A t \in Tasks : dir[t] \in Trees \cup {Absent, Swapped}
  BY DEF Typed, Entries
<1>2. \A t \in Tasks : \A i \in 1..Len(seals[t]) : seals[t][i] \in TrueSeals
  BY DEF Typed
<1>3. \A x \in TrueSeals : x.tree \in Trees
  BY DEF TrueSeals
<1>4. run.pc \in Steps /\ run.task \in Tasks /\ run.in \in Inputs
  BY DEF Typed, Runs
<1> QED
  BY <1>1, <1>2, <1>3, <1>4 DEF Typed, TypeOK, Rows, AllFlags, Digests, Bundles

\* The tree of a promoted seal has the manifest it was promoted with.
LEMMA SealsAreTrue ==
  ASSUME Typed
  PROVE  SealTrue
<1>1. \A t \in Tasks : \A i \in 1..Len(seals[t]) : seals[t][i] \in TrueSeals
  BY DEF Typed
<1>2. \A x \in TrueSeals : Manifest(x.tree) = x.manifest
  BY DEF TrueSeals
<1> QED
  BY <1>1, <1>2 DEF SealTrue

\* A set within a singleton has at most one member.
LEMMA OneInput ==
  ASSUME Frozen
  PROVE  OneInputPerRun
<1> SUFFICES ASSUME NEW t \in Tasks PROVE Cardinality(ran[t]) <= 1
  BY DEF OneInputPerRun
<1> DEFINE one == {[ctl |-> row[t].fp, pkt |-> stored[t].inst.pkt]}
<1>1. ran[t] \subseteq one
  BY DEF Frozen
<1>2. IsFiniteSet(one) /\ Cardinality(one) = 1
  BY FS_Singleton
<1> HIDE DEF one
<1>3. Cardinality(ran[t]) <= Cardinality(one)
  BY <1>1, <1>2, FS_Subset
<1> QED
  BY <1>2, <1>3

\* The invariant says no less than InputsSafe.
LEMMA InvIsSafe ==
  ASSUME IInv
  PROVE  InputsSafe
<1>1. LaunchAlone
  BY DEF IInv, Alone, LaunchAlone, Nodes, At
<1>2. NoticedNeedsOperator
  <2>1. At("agent") => cur \in Tasks /\ ~flags[cur].contaminated
    BY DEF IInv, Noted, Nodes, At, Typed, Runs, cur
  <2>2. At("agent") /\ noticed[cur] => forgiven[cur]
    BY <2>1 DEF IInv, Noted
  <2> QED
    BY <2>2 DEF NoticedNeedsOperator
<1> QED
  BY <1>1, <1>2, TypedIsTypeOK, SealsAreTrue, OneInput DEF IInv, InputsSafe

\* Every reachable state has the types (of what every handler above leaves behind).
THEOREM TypeCorrect == Spec => []TypeOK
<1>1. IInv => TypeOK
  BY TypedIsTypeOK DEF IInv
<1> QED
  BY <1>1, Inductive, PTL

\* Whatever agents, operators, crashes and file-system errors do: an agent is
\* launched alone in the exchange, never over what was seen to be tampered with
\* before an operator's continue, all launches between two commands run on one
\* frozen flow and packet, and a promoted seal is what its manifest says
\* (clear_foreign_exchange_entries, ensure_current_exchange, _prepare_control_bundle,
\* _freeze_task_and_repo_instructions, _copy_tree_verified).
THEOREM InputsTheorem == Spec => []InputsSafe
<1>1. IInv => InputsSafe
  BY InvIsSafe
<1> QED
  BY <1>1, Inductive, PTL

\* The terminal clean-up removes an own file of the exchange only when the newest
\* seal has it (_remove_active_dir after _copy_tree_verified).
THEOREM RemovedTheorem == Spec => RemovedIsSealed
<1> DEFINE A == At("remove") =>
                  \A f \in Files :
                    IsDir(dir[cur]) /\ dir[cur][f] = "own" /\ dir'[cur] # dir[cur]
                      /\ (IsDir(dir'[cur]) => dir'[cur][f] # "own") /\ dir'[cur] # Swapped =>
                    seals[cur] # <<>> /\ latest.tree[f] = "own"
<1>1. IInv => A
  BY DEF IInv, Sealed, At
<1>2. IInv /\ [Next]_vars => [A]_vars
  BY <1>1
<1>3. Spec => [][A]_vars
  BY <1>2, Inductive, PTL DEF Spec
<1> QED
  BY <1>3 DEF RemovedIsSealed
=============================================================================
