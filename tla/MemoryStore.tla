----------------------------- MODULE MemoryStore -----------------------------
(***************************************************************************)
(* The project memory on disk.  The daemon writes it when a task ends and   *)
(* tidies it between tasks; an operator compacts, restores, clears or       *)
(* purges it from another process.  Nothing locks the store: an operator's  *)
(* command looks once whether a task is active, and may then wait for an    *)
(* answer.  Every change is read, computed and written file by file, each   *)
(* write followed by its audit row, and either process may stop anywhere.   *)
(***************************************************************************)
EXTENDS MemoryRows, Functions, TLC

CONSTANTS
  Tasks, None, Deltas,     \* tasks, no task, and the deltas their finalizers may return
  Nodes, Trees,            \* nodes that ask for a packet; the file sets the repository goes through
  Scopes,                  \* tiers a clear may name; none of them stands for a purge
  MaxTime, MaxFinals, MaxCleanups, MaxCommands, MaxStops

ASSUME StoreAssumption ==
  /\ None \notin Tasks /\ Deltas \subseteq Seq(RawItem)
  /\ Trees \in Seq(SUBSET Paths) /\ Trees # <<>> /\ Scopes \subseteq SUBSET MemoryTier
  /\ {MaxTime, MaxFinals, MaxCleanups, MaxCommands, MaxStops} \subseteq Nat

VARIABLES
  store,       \* the memory directory exists
  tiers,       \* rows of each tier file
  present,     \* tier files that exist
  audited,     \* rows of each tier file as its last audit row hashed them
  snapshots,   \* label -> the tier files captured
  now, era, active,        \* ticks passed, the repository's place in Trees, the task being run
  proc,        \* what the daemon and the operator's command are doing
  owed,        \* <<kind, task>> pairs the store held when a snapshot was complete
  before,      \* label -> the store as the snapshot began; one cut short has none
  overlap, reused, stopped,   \* two processes worked at once; a label came twice; a process died
  left

memVars == <<store, tiers, present, audited, snapshots, now, era, active, proc, owed,
          before, overlap, reused, stopped, left>>

tree == Trees[era]
Empty == [f \in TierFiles |-> <<>>]
Budget(full) == [full |-> full, late |-> FALSE, scanned |-> 0, edits |-> 0]
Idle == [op |-> "idle", todo |-> <<>>, plan |-> <<>>, task |-> None,
         budget |-> Budget(FALSE), label |-> <<>>, copies |-> <<>>, scope |-> {}, found |-> {}, at |-> 0]
\* Bound: once two processes have worked at once, they end what they do and nothing new starts.
Spend(what) == ~overlap /\ left[what] > 0 /\ left' = [left EXCEPT ![what] = @ - 1]
Set(p, r) == proc' = [proc EXCEPT ![p] = r]
\* From here the process reads and writes tier files.  Bound: another may already do so only
\* as long as a stop is left.
Enter(p, r) ==
  /\ Set(p, r)
  /\ overlap' = (overlap \/ \E q \in DOMAIN proc \ {p} : proc[q].op \notin {"idle", "asking"})
  /\ overlap' => overlap \/ left.stops > 0

MemInit ==
  /\ store = FALSE /\ tiers = Empty /\ present = {} /\ audited = Empty /\ snapshots = <<>>
  /\ now = 0 /\ era = 1 /\ active = None
  /\ proc = [p \in {"daemon", "operator"} |-> Idle]
  /\ owed = {} /\ before = <<>> /\ overlap = FALSE /\ reused = FALSE /\ stopped = FALSE
  /\ left = [finals |-> MaxFinals, cleanups |-> MaxCleanups, commands |-> MaxCommands, stops |-> MaxStops]

disk == <<store, tiers, present, audited, snapshots>>
history == <<owed, before, overlap, reused, stopped>>
world == <<now, era, active>>

-----------------------------------------------------------------------------
(* Which kinds of knowledge, from which tasks, a set of tier files holds.    *)

Provenance(files) ==
  UNION {{<<r.kind, t>> : t \in r.seen} :
           r \in UNION {ToSet(files[f]) : f \in DOMAIN files \ {"short"}}}

_tier_candidates == <<"short", "entity", "quarantine">> \o LongTermKinds
Existing(files) ==
  Within(_tier_candidates, {i \in DOMAIN _tier_candidates : _tier_candidates[i] \in files})
\* The mutated snapshot copies only the files it is about to empty.
tier_files_Touched == Existing(present \ {"quarantine"})
tier_files == Existing(present)

\* A snapshot starts as a directory, the one of that name if there is one.
take_snapshot(label) ==
  /\ snapshots' = [l \in DOMAIN snapshots \cup {label} |->
                     IF l \in DOMAIN snapshots THEN snapshots[l] ELSE <<>>]
  /\ before' = [l \in DOMAIN before \cup {label} |->
                  IF l = label THEN Restrict(tiers, present) ELSE before[l]]
  /\ reused' = (reused \/ label \in DOMAIN snapshots)

Capture(label, file, rows) ==
  LET old == IF label \in DOMAIN snapshots THEN snapshots[label] ELSE <<>>
      new == [f \in DOMAIN old \cup {file} |-> IF f = file THEN rows ELSE old[f]]
  IN  snapshots' = [l \in DOMAIN snapshots \cup {label} |-> IF l = label THEN new ELSE snapshots[l]]

\* Then the tier files come one by one, each if it still exists.
CopyFile(p) ==
  LET d == proc[p]
      f == Head(d.copies)
  IN  /\ d.copies # <<>>
      /\ f \in present => Capture(d.label, f, tiers[f])
      /\ f \notin present => snapshots' = snapshots
      /\ owed' = IF Tail(d.copies) = <<>> THEN owed \cup Provenance(tiers) ELSE owed
      /\ Set(p, [d EXCEPT !.copies = Tail(@)])
      /\ UNCHANGED <<store, tiers, present, audited, world, before, overlap, reused, stopped, left>>

\* A process that dies before the last of them leaves a snapshot that looks like any other.
CutShort(p) ==
  before' = IF proc[p].copies = <<>> THEN before
            ELSE Restrict(before, DOMAIN before \ {proc[p].label})

-----------------------------------------------------------------------------
(* The daemon: a task runs, and when it ends its episode and its delta are   *)
(* written.  A task that does not end done writes its episode again.         *)

TaskStarts(t) ==
  /\ active = None /\ proc["daemon"].op = "idle" /\ left.finals > 0
  /\ active' = t
  /\ UNCHANGED <<disk, now, era, proc, history, left>>

_write_memory(delta, failed) ==
  /\ active # None /\ proc["daemon"].op = "idle"
  /\ Spend("finals")
  /\ store' = TRUE
  /\ Enter("daemon", [Idle EXCEPT !.op = IF failed THEN "failure" ELSE "success",
                        !.task = active, !.at = now, !.todo = IF failed THEN <<>> ELSE parse_delta(delta),
                        !.plan = <<_append_row("short", EpisodeRecord(active, now))>>])
  /\ UNCHANGED <<tiers, present, audited, snapshots, world, owed, before, reused, stopped>>

\* The next candidate: read what it is compared with, and plan its writes.
apply_delta ==
  LET d == proc["daemon"]
      c == Head(d.todo)
      failed == d.op = "failure"
      plan == IF c.kind = "entity"
              THEN _ingest_entity(c, failed, tiers["quarantine"], tiers["entity"], tree, d.task)
              ELSE _ingest_long_term(c, failed, tiers["quarantine"], tiers[c.kind], d.at, d.task)
  IN  /\ d.op \in {"success", "failure"} /\ d.plan = <<>> /\ d.todo # <<>>
      /\ Set("daemon", [d EXCEPT !.todo = Tail(@), !.plan = plan])
      /\ UNCHANGED <<disk, world, history, left>>

TaskEnds ==
  /\ active # None /\ proc["daemon"].op = "idle"
  /\ active' = None
  /\ UNCHANGED <<disk, now, era, proc, history, left>>

-----------------------------------------------------------------------------
(* The cleanup pass, run by either process.                                  *)

Passes == <<<<"expire", "short">>, <<"entities", "entity">>>>
            \o Mapped(LongTermKinds, LAMBDA k : <<"lessons", k>>)
            \o Mapped(LongTermKinds, LAMBDA k : <<"duplicates", k>>)

run_once(p, full) ==
  /\ Enter(p, [Idle EXCEPT !.op = "cleanup", !.budget = Budget(full), !.todo = Passes,
                           !.found = Provenance(tiers), !.at = now,
                           !.label = <<"cleanup", now>>, !.copies = tier_files])
  /\ take_snapshot(<<"cleanup", now>>)

\* The watch loop's hook, between tasks.
_build_cleanup_hook ==
  /\ active = None /\ proc["daemon"].op = "idle" /\ store /\ present # {}
  /\ Spend("cleanups")
  /\ run_once("daemon", FALSE)
  /\ UNCHANGED <<store, tiers, present, audited, world, owed, stopped>>

\* One tier file: empty ones are passed over, and the clock may run out at row `cut`.
CleanupPass(p) ==
  LET d == proc[p]
      n == CHOOSE i \in DOMAIN d.todo :
             /\ tiers[d.todo[i][2]] # <<>>
             /\ \A j \in 1..(i - 1) : tiers[d.todo[j][2]] = <<>>
      pass == d.todo[n]
      rows == tiers[pass[2]]
  IN  /\ d.op = "cleanup" /\ d.copies = <<>> /\ d.plan = <<>>
      /\ \E i \in DOMAIN d.todo : tiers[d.todo[i][2]] # <<>>
      /\ \E cut \in (IF d.budget.full \/ pass[1] = "expire" THEN {Len(rows)} ELSE 0..Len(rows)) :
           LET b == [d.budget EXCEPT !.late = @ \/ (pass[1] = "duplicates" /\ cut < Len(rows))]
               r == CASE pass[1] = "expire" -> _expire_episodes(rows, b, d.at)
                      [] pass[1] = "entities" -> _reconcile_entities(rows, tree, b, cut)
                      [] pass[1] = "lessons" -> _reconcile_lessons(pass[2], rows, tree, b, cut)
                      [] OTHER -> _merge_long_term_duplicates(pass[2], rows, b)
           IN  Set(p, [d EXCEPT !.todo = SubSeq(@, n + 1, Len(@)), !.plan = r.plan,
                                !.budget = r.budget])
      /\ UNCHANGED <<disk, world, history, left>>

-----------------------------------------------------------------------------
(* Any process's next write, its audit row, and the end of what it does.     *)

Finished(p) ==
  /\ proc[p].op \notin {"idle", "asking"} /\ proc[p].copies = <<>> /\ proc[p].plan = <<>>
  /\ proc[p].op = "cleanup" => \A i \in DOMAIN proc[p].todo : tiers[proc[p].todo[i][2]] = <<>>
  /\ proc[p].op \in {"success", "failure"} => proc[p].todo = <<>>

\* The mutated read still serves the rows of a file that was deleted.
Written_Cached(w) ==
  CASE w.op = "append" -> tiers[w.file] \o w.rows [] w.op = "unlink" -> tiers[w.file]
    [] OTHER -> w.rows
\* A write and the row that names the content after it; the process may die between the two.
Written(w) == CASE w.op = "append" -> tiers[w.file] \o w.rows [] OTHER -> w.rows
\* The mutated trail leaves out what takes a record off the quarantine.
record_Additions(w) ==
  audited' = IF w.op \in {"append", "replace"} /\ Len(Written(w)) >= Len(tiers[w.file])
             THEN [audited EXCEPT ![w.file] = Written(w)] ELSE audited
record(w) ==
  audited' = IF w.op \in {"append", "replace"} THEN [audited EXCEPT ![w.file] = Written(w)]
             ELSE audited
Put(w) ==
  /\ tiers' = [tiers EXCEPT ![w.file] = Written(w)]
  /\ present' = IF w.op = "unlink" THEN present \ {w.file} ELSE present \cup {w.file}

NextIs(p, ops) == proc[p].copies = <<>> /\ proc[p].plan # <<>> /\ Head(proc[p].plan).op \in ops

Write(p) ==
  /\ NextIs(p, {"append", "replace", "overwrite", "unlink"})
  /\ Put(Head(proc[p].plan)) /\ record(Head(proc[p].plan))
  /\ Set(p, [proc[p] EXCEPT !.plan = Tail(@)])
  /\ UNCHANGED <<store, snapshots, world, history, left>>

DieBeforeRecord(p) ==
  /\ NextIs(p, {"append", "replace"}) /\ Spend("stops")
  /\ Put(Head(proc[p].plan))
  /\ Set(p, Idle) /\ stopped' = TRUE
  /\ UNCHANGED <<store, audited, snapshots, world, owed, before, overlap, reused>>

\* A copy opens its file, which empties it, and then writes it: so does the next file of a
\* snapshot, and so does a restore.
DieInside(p) ==
  /\ Spend("stops") /\ CutShort(p)
  /\ \/ /\ proc[p].copies # <<>> /\ Head(proc[p].copies) \in present
        /\ Capture(proc[p].label, Head(proc[p].copies), <<>>)
        /\ UNCHANGED <<tiers, present>>
     \/ /\ NextIs(p, {"overwrite"})
        /\ Put([Head(proc[p].plan) EXCEPT !.rows = <<>>])
        /\ UNCHANGED snapshots
  /\ Set(p, Idle) /\ stopped' = TRUE
  /\ UNCHANGED <<store, audited, world, owed, overlap, reused>>

ReadQuarantine(p) ==
  /\ NextIs(p, {"extend"})
  /\ Set(p, [proc[p] EXCEPT !.plan =
        <<_replace_rows("quarantine", tiers["quarantine"] \o Head(@).rows)>> \o Tail(@)])
  /\ UNCHANGED <<disk, world, history, left>>

Finish(p) ==
  /\ Finished(p)
  /\ Set(p, Idle)
  /\ UNCHANGED <<disk, world, history, left>>

-----------------------------------------------------------------------------
(* The operator's commands; each looks at the task once, before it starts.   *)

Commands == /\ proc["operator"].op = "idle" /\ active = None /\ store
            /\ Spend("commands")

_cmd_memory_compact ==
  /\ Commands /\ present # {}
  /\ run_once("operator", TRUE)
  /\ UNCHANGED <<store, tiers, present, audited, world, owed, stopped>>

\* The mutated restore leaves files written after the snapshot where they are.
restore_Over(label) ==
  LET files == snapshots[label]
  IN  Mapped(SetToSeq(DOMAIN files),
             LAMBDA f : [op |-> "overwrite", file |-> f, rows |-> files[f]])
        \o <<[op |-> "rollback", file |-> "short", rows |-> <<>>]>>
\* Put the captured files back and drop the tier files the snapshot does not know.
restore(label) ==
  LET files == snapshots[label]
      Item(op, f) == [op |-> op, file |-> f, rows |-> IF op = "unlink" THEN <<>> ELSE files[f]]
  IN  Mapped(SetToSeq(present \ DOMAIN files), LAMBDA f : Item("unlink", f))
        \o Mapped(SetToSeq(DOMAIN files), LAMBDA f : Item("overwrite", f))
        \o <<[op |-> "rollback", file |-> "short", rows |-> <<>>]>>

\* Names sort by their first word: every "clear" comes after every "cleanup".
LastLabel(labels) ==
  CHOOSE l \in labels : \A m \in labels :
    \/ l[1] = m[1] /\ l[2] >= m[2]
    \/ l[1] = "clear" /\ m[1] = "cleanup"

_cmd_memory_restore ==
  /\ Commands
  /\ \E label \in DOMAIN snapshots \cup {LastLabel(l) : l \in {DOMAIN snapshots} \ {{}}} :
       Enter("operator", [Idle EXCEPT !.op = "restore", !.label = label, !.plan = restore(label)])
  /\ UNCHANGED <<disk, world, owed, before, reused, stopped>>

Rollback(p) ==
  /\ NextIs(p, {"rollback"})
  /\ audited' = tiers
  /\ Set(p, [proc[p] EXCEPT !.plan = <<>>])
  /\ UNCHANGED <<store, tiers, present, snapshots, world, history, left>>

\* The question the command waits at: all tiers, one of them, or the store itself.
_cmd_memory_clear ==
  /\ Commands
  /\ \E scope \in Scopes :
       /\ scope # {} => \E f \in UNION {FilesOf(t) : t \in scope} : tiers[f] # <<>>
       /\ Set("operator", [Idle EXCEPT !.op = "asking", !.scope = scope])
  /\ UNCHANGED <<disk, world, history>>

clear ==
  LET d == proc["operator"]
      files == {f \in UNION {FilesOf(t) : t \in d.scope} : tiers[f] # <<>>}
  IN  /\ d.op = "asking" /\ files # {}
      /\ Enter("operator", [Idle EXCEPT !.op = "clear", !.label = <<"clear", now>>, !.copies = tier_files,
                  !.plan = Mapped(SetToSeq(files), LAMBDA f : _replace_rows(f, <<>>))])
      /\ take_snapshot(<<"clear", now>>)
      /\ UNCHANGED <<store, tiers, present, audited, world, owed, stopped, left>>

Purge ==
  /\ proc["operator"].op = "asking" /\ proc["operator"].scope = {}
  /\ Enter("operator", Idle)
  /\ store' = FALSE /\ tiers' = Empty /\ present' = {} /\ audited' = Empty
  /\ snapshots' = <<>> /\ owed' = {} /\ before' = <<>>
  /\ UNCHANGED <<world, reused, stopped, left>>

Declined ==
  /\ proc["operator"].op = "asking"
  /\ Set("operator", Idle)
  /\ UNCHANGED <<disk, world, history, left>>

-----------------------------------------------------------------------------
(* The world: time, the repository, and the death of a process.              *)

\* An operation looks at the clock and at the tracked files once, as it starts.
Quiet == \A p \in DOMAIN proc : proc[p].op \in {"idle", "asking"}
Tick == Quiet /\ ~overlap /\ now < MaxTime /\ now' = now + 1
        /\ UNCHANGED <<disk, era, active, proc, history, left>>
Move == /\ Quiet /\ ~overlap /\ era < Len(Trees) /\ era' = era + 1
        /\ UNCHANGED <<disk, now, active, proc, history, left>>
Die(p) ==
  /\ proc[p].op # "idle" /\ Spend("stops")
  /\ Set(p, Idle) /\ stopped' = TRUE /\ CutShort(p)
  /\ UNCHANGED <<disk, world, owed, overlap, reused>>

MemNext ==
  \/ \E t \in Tasks : TaskStarts(t)
  \/ \E delta \in Deltas : _write_memory(delta, FALSE)
  \/ _write_memory(<<>>, TRUE) \/ apply_delta \/ TaskEnds
  \/ _build_cleanup_hook
  \/ \E p \in DOMAIN proc : \/ CopyFile(p) \/ CleanupPass(p) \/ Write(p)
                           \/ DieBeforeRecord(p) \/ DieInside(p)
                           \/ ReadQuarantine(p) \/ Rollback(p) \/ Finish(p) \/ Die(p)
  \/ _cmd_memory_compact \/ _cmd_memory_restore \/ _cmd_memory_clear
  \/ clear \/ Purge \/ Declined
  \/ Tick \/ Move

MemSpec == MemInit /\ [][MemNext]_memVars

-----------------------------------------------------------------------------
(* Properties.                                                               *)

\* The store's shape: rows only in files that exist, audit rows and snapshots of tier files.
MemTypeOK ==
  /\ store \in BOOLEAN /\ present \subseteq TierFiles /\ now \in 0..MaxTime
  /\ DOMAIN tiers = TierFiles /\ DOMAIN audited = TierFiles
  /\ \A f \in TierFiles : tiers[f] # <<>> => f \in present
  /\ \A f \in KindSet : \A r \in ToSet(tiers[f]) : r.kind = f /\ r.seen \subseteq Tasks
  /\ \A l \in DOMAIN snapshots : DOMAIN snapshots[l] \subseteq TierFiles
  /\ active \in Tasks \cup {None}

Reliable(row) ==
  row.trust \in DURABLE_TRUST_LEVELS /\ row.evidence # {} /\ row.evidence \cap External = {}

\* What came from outside the repository never becomes a lesson, whatever else it cites and by
\* whatever way a row reached the file: ingestion, a merge, a remap, a collapse or a restore; and
\* a lesson whose best ground is a task artifact is there for a remedy or for enough tasks.
StoredEarned ==
  \A k \in KindSet : \A r \in ToSet(tiers[k]) :
    /\ Reliable(r) /\ _record_active(r)
    /\ r.trust = "artifact-backed" => r.remedy \/ Cardinality(r.seen) >= MinTasks

\* No node is shown what is held back for its trust, whatever its task touches, even from a store
\* two processes or a stopped one left half written.
PacketReliable ==
  \A node \in Nodes, touched \in {{}, Paths} :
    \A p \in write_packet(tiers, node, touched) :
      /\ \A r \in p.lessons : Reliable(r)
      /\ \A r \in p.entities : r.trust = "repo-observed"

\* One record per lesson and one card per file, also when a file moves onto another's place; a
\* stopped process does not break it.
OneRecordPerId ==
  ~overlap =>
    /\ \A k \in KindSet : \A i, j \in DOMAIN tiers[k] : tiers[k][i].id = tiers[k][j].id => i = j
    /\ \A i, j \in DOMAIN tiers["entity"] :
         tiers["entity"][i].name = tiers["entity"][j].name => i = j

\* A cleanup pass that runs to its end loses nothing that was known: what it takes from a tier it
\* puts in quarantine or into the row that absorbs it.
NothingLostByCleanup ==
  [][\A p \in DOMAIN proc :
       (proc[p].op = "cleanup" /\ proc'[p].op = "idle" /\ left'.stops = left.stops /\ ~overlap)
         => proc[p].found \subseteq Provenance(tiers)]_memVars

\* Whatever a pass or a clear found, from its first change on, is still in the store or in a
\* snapshot, also when the process stopped between taking a row from one file and adding it to
\* another; a pass that was still taking its snapshot has changed nothing.
Recoverable ==
  ~overlap /\ ~reused =>
    owed \subseteq Provenance(tiers) \cup UNION {Provenance(snapshots[l]) : l \in DOMAIN snapshots}

\* A restore that ends leaves exactly the captured files, also without files written since; and
\* that is the store as it was before the snapshot was begun, file by file as it was taken, unless
\* the process died while taking it: such a snapshot is offered too, and its restore removes
\* the files it did not get to (service.py 460-477, audit.py 176-190).
RestoredWhole ==
  [][(proc["operator"].op = "restore" /\ Finished("operator") /\ proc'["operator"].op = "idle"
        /\ left'.stops = left.stops /\ ~overlap)
       => LET label == proc["operator"].label
          IN  /\ present = DOMAIN snapshots[label]
              /\ \A f \in present : tiers[f] = snapshots[label][f]
              /\ ~reused /\ label \in DOMAIN before => Restrict(tiers, present) = before[label]]_memVars

\* With nobody writing, the trail's last word on every file is what the file holds.
TrailTrue ==
  Quiet /\ ~overlap /\ ~stopped => audited = tiers

\* `worc memory validate` announces for each card what the next pass does with it.
ValidateForetells ==
  \A r \in ToSet(tiers["entity"]) : _record_active(r) =>
    _cmd_memory_validate(r, tree) = _classify_entity(r, tree).verdict

\* What is stored was earned, what is shown is reliable, and what the trail and
\* `validate` say of it is so.
StoreSafe ==
  MemTypeOK /\ StoredEarned /\ PacketReliable /\ OneRecordPerId /\ TrailTrue /\ ValidateForetells

\* No pass that is alone loses a record, finished or stopped, and a restore gives back all.
NothingLost == []Recoverable /\ NothingLostByCleanup /\ RestoredWhole
=============================================================================
