------------------------ MODULE TaskLifecycleProofs ------------------------
(***************************************************************************)
(* For any number of tasks and any bounds: types, the single slot, the     *)
(* transition assertion, the ledger's records and the clean tree of a done *)
(* task. The four safety results need one another's invariants in part:    *)
(* where the executor stands (pc) says what the row of the task at hand    *)
(* must be, and that is what each of the parts below states.               *)
(***************************************************************************)
EXTENDS TaskLifecycle, TLAPS

\* From the drive to the terminal transition the pipeline holds the slot.
Piped == {"drive", "prepare", "ready", "seed", "engine", "fail", "handler", "cleanup", "explain",
          "clear", "transition"}

\* The slot is free, or held by the task at hand.
SlotInv ==
  /\ AtMostOneActive
  /\ pc = "validate" => row[cur].status = "new" /\ \A t \in Tasks : row[t].status \notin ACTIVE
  /\ pc \in Piped => row[cur].status = src /\ src \in ACTIVE

\* The status that each stage of the pipeline starts from.
StageInv ==
  /\ NoInvalidTransition
  /\ pc = "drive" => src = "validated"
  /\ pc \in {"prepare", "ready"} => src = "preparing"
  /\ pc \in {"seed", "engine"} => src = "running"
  /\ pc \in {"fail", "handler", "explain"} => goal # "done"
  /\ pc \in {"cleanup", "clear", "transition"} /\ goal = "done" => src = "running"

\* A checkpoint exists only once the task has run.
NodeInv ==
  /\ \A t \in Tasks : row[t].node => row[t].status \in {"running"} \cup TERMINAL
  /\ pc \in {"validate", "drive", "prepare", "ready"} => ~row[cur].node
  /\ pc = "gate" /\ via = "rerun" => ~row[cur].node

\* The tree was cleaned before the write that makes the task done.
CleanInv ==
  /\ pc \in {"clear", "transition"} /\ goal = "done" => row[cur].cleanup = "yes"
  /\ pc = "fstatus" => row[cur].cleanup = "yes"

Records(t) == ledger[t].run + ledger[t].manual

\* A record is owed while the executor is on its way to append one.
RecordInv ==
  /\ NoDoubleRecord
  /\ \A t \in Tasks : row[t].status \in TERMINAL => ends[t] > 0
  /\ pc \in {"move", "append", "frecord", "mrecord"} => Records(cur) < ends[cur]
  /\ pc = "crecord" => row[cur].status \in TERMINAL

IInv == TypeOK /\ SlotInv /\ StageInv /\ NodeInv /\ CleanInv /\ RecordInv

\* A step into done finds the tree cleaned.
CleanDone ==
  \A t \in Tasks : row'[t].status = "done" /\ row[t].status # "done" => row[t].cleanup = "yes"

-----------------------------------------------------------------------------
\* A write to one row leaves the others alone.
LEMMA SetRow ==
  ASSUME row \in [Tasks -> Rows], NEW t \in Tasks, NEW r \in Rows, Set(t, r)
  PROVE  /\ row' \in [Tasks -> Rows] /\ row'[t] = r
         /\ \A u \in Tasks : u # t => row'[u] = row[u]
  BY DEF Set

\* A write that spares status, node and cleanup is none that the invariants see.
LEMMA KeepRow ==
  ASSUME row \in [Tasks -> Rows], NEW t \in Tasks, NEW r \in Rows, Set(t, r),
         r.status = row[t].status, r.node = row[t].node, r.cleanup = row[t].cleanup
  PROVE  /\ row' \in [Tasks -> Rows]
         /\ \A u \in Tasks : /\ row'[u].status = row[u].status /\ row'[u].node = row[u].node
                               /\ row'[u].cleanup = row[u].cleanup
  BY SetRow

\* An appended record is the only change of the ledger.
LEMMA Appends ==
  ASSUME ledger \in [Tasks -> Entries], NEW t \in Tasks,
         NEW l \in {Run(ledger[t]), Reject(ledger[t]), Manual(ledger[t])},
         ledger' = [ledger EXCEPT ![t] = l]
  PROVE  /\ ledger' \in [Tasks -> Entries] /\ ledger'[t] = l
         /\ \A u \in Tasks : u # t => ledger'[u] = ledger[u]
         /\ l # Reject(ledger[t]) => l.run + l.manual = Records(t) + 1
         /\ l = Reject(ledger[t]) => l.run + l.manual = Records(t)
<1>1. ledger[t] \in Entries
  OBVIOUS
<1>2. /\ Run(ledger[t]) \in Entries /\ Run(ledger[t]).run + Run(ledger[t]).manual = Records(t) + 1
      /\ Reject(ledger[t]) \in Entries
      /\ Reject(ledger[t]).run + Reject(ledger[t]).manual = Records(t)
      /\ Manual(ledger[t]) \in Entries
      /\ Manual(ledger[t]).run + Manual(ledger[t]).manual = Records(t) + 1
  BY <1>1 DEF Entries, Run, Reject, Manual, Records
<1>3. QED
  BY <1>2

\* What is counted is a number.
LEMMA Counts == TypeOK => \A t \in Tasks : Records(t) \in Nat /\ ends[t] \in Nat
  BY DEF TypeOK, DurableOK, HistoryOK, Entries, Records


\* The process starts, is stopped or crashes.
LEMMA ProcessStep == IInv /\ (Start \/ Stop \/ Crash) => IInv' /\ CleanDone
<1> SUFFICES ASSUME IInv, Start \/ Stop \/ Crash PROVE IInv' /\ CleanDone
  OBVIOUS
<1> USE DEF IInv, TypeOK, DurableOK, ProcessOK, HistoryOK, TERMINAL, ACTIVE, SlotInv, StageInv,
      NodeInv, CleanInv, RecordInv, AtMostOneActive, NoInvalidTransition, NoDoubleRecord,
      Records, Piped, PCs, Statuses, BoundsOK, durable, process, bounds, history, CleanDone
<1>1. CASE Start
  BY <1>1 DEF Start, Exits
<1>2. CASE Stop
  BY <1>2, LifecycleAssumption DEF Stop, Exits
<1>3. CASE Crash
  <2>1. /\ row' \in [Tasks -> Rows]
        /\ \A u \in Tasks : /\ row'[u].status = row[u].status /\ row'[u].node = row[u].node
                              /\ row'[u].cleanup = row[u].cleanup
    <3>1. CASE UNCHANGED row
      BY <3>1
    <3>2. CASE pc = "engine" /\ Set(cur, [row[cur] EXCEPT !.torn = TRUE])
      <4>1. cur \in Tasks /\ row[cur] \in Rows
        BY <3>2 DEF IInv, TypeOK, DurableOK, ProcessOK
      <4>2. QED
        BY <3>2, <4>1, KeepRow DEF Rows
    <3>3. QED
      BY <1>3, <3>1, <3>2 DEF Crash
  <2>2. TypeOK'
    BY <1>3, <2>1, LifecycleAssumption DEF Crash, Exits
  <2>3. SlotInv' /\ StageInv'
    BY <1>3, <2>1 DEF Crash, Exits
  <2>4. NodeInv' /\ CleanInv'
    BY <1>3, <2>1 DEF Crash, Exits
  <2>5. RecordInv'
    BY <1>3, <2>1, Counts DEF Crash, Exits
  <2>6. CleanDone
    BY <1>3, <2>1 DEF Crash, Exits
  <2>7. QED
    BY <2>2, <2>3, <2>4, <2>5, <2>6
<1>4. QED
  BY <1>1, <1>2, <1>3

\* The recovery at the head of a tick.
LEMMA ResumeStep == IInv /\ Resume => IInv' /\ CleanDone
<1> SUFFICES ASSUME IInv, Resume PROVE IInv' /\ CleanDone
  OBVIOUS
<1> USE DEF IInv, TypeOK, DurableOK, ProcessOK, HistoryOK, TERMINAL, ACTIVE, SlotInv, StageInv,
      NodeInv, CleanInv, RecordInv, AtMostOneActive, NoInvalidTransition, NoDoubleRecord,
      Records, Piped, PCs, Statuses, BoundsOK, durable, process, bounds, history, CleanDone
<1>1. CASE ResumeManual
  BY <1>1 DEF ResumeManual, manual_task_ids, find_active_tasks
<1>2. CASE ManualStatus
  <2>1. PICK t \in todo : SetStatus(t, Stopped(row[t])) /\ cur' = t /\ todo' = todo \ {t}
    BY <1>2 DEF ManualStatus
  <2>2. t \in Tasks /\ row[t] \in Rows
    OBVIOUS
  <2> DEFINE r == Stopped(row[t])
  <2>3. r \in Rows /\ r.status = "manual" /\ r.node = row[t].node /\ r.cleanup = row[t].cleanup
    BY <2>2 DEF Rows, Stopped
  <2>4. /\ row' \in [Tasks -> Rows] /\ row'[t] = r
        /\ \A u \in Tasks : u # t => row'[u] = row[u]
    BY <2>1, <2>2, <2>3, SetRow DEF SetStatus
  <2>5. ends' = [ends EXCEPT ![t] = @ + 1] /\ UNCHANGED finished
    BY <2>1, <2>3 DEF SetStatus
  <2> HIDE DEF r
  <2>6. TypeOK'
    BY <1>2, <2>1, <2>2, <2>3, <2>4, <2>5 DEF ManualStatus
  <2>7. SlotInv' /\ StageInv'
    BY <1>2, <2>1, <2>2, <2>3, <2>4, <2>5 DEF ManualStatus
  <2>8. NodeInv' /\ CleanInv'
    BY <1>2, <2>1, <2>2, <2>3, <2>4, <2>5 DEF ManualStatus
  <2>9. RecordInv'
    BY <1>2, <2>1, <2>2, <2>3, <2>4, <2>5, Counts DEF ManualStatus
  <2>10. CleanDone
    BY <1>2, <2>1, <2>2, <2>3, <2>4, <2>5 DEF ManualStatus
  <2>11. QED
    BY <2>6, <2>7, <2>8, <2>9, <2>10
<1>3. CASE ManualRecord
  <2>1. cur \in Tasks /\ ledger \in [Tasks -> Entries]
    BY <1>3 DEF ManualRecord
  <2>2. /\ ledger' \in [Tasks -> Entries]
        /\ \A u \in Tasks : u # cur => ledger'[u] = ledger[u]
        /\ \/ ledger'[cur] = ledger[cur]
           \/ Records(cur) = 0 /\ ledger'[cur].run + ledger'[cur].manual = 1
    <3>1. CASE has_task_id(cur)
      BY <1>3, <2>1, <3>1 DEF ManualRecord, AppendIfNew
    <3>2. CASE ~has_task_id(cur)
      <4>1. ledger' = [ledger EXCEPT ![cur] = Run(ledger[cur])]
        BY <1>3, <2>1, <3>2 DEF ManualRecord, AppendIfNew
      <4>2. Records(cur) = 0
        BY <2>1, <3>2 DEF has_task_id, Records, Entries
      <4>3. Run(ledger[cur]) # Reject(ledger[cur])
        BY <2>1 DEF Entries, Run, Reject
      <4>4. /\ ledger' \in [Tasks -> Entries]
            /\ \A u \in Tasks : u # cur => ledger'[u] = ledger[u]
            /\ ledger'[cur].run + ledger'[cur].manual = Records(cur) + 1
        BY <2>1, <4>1, <4>3, Appends
      <4>5. QED
        BY <4>2, <4>4
    <3>3. QED
      BY <3>1, <3>2
  <2>3. TypeOK'
    BY <1>3, <2>1, <2>2 DEF ManualRecord, Goto
  <2>4. SlotInv' /\ StageInv'
    BY <1>3, <2>1, <2>2 DEF ManualRecord, Goto
  <2>5. NodeInv' /\ CleanInv'
    BY <1>3, <2>1, <2>2 DEF ManualRecord, Goto
  <2>6. RecordInv'
    BY <1>3, <2>1, <2>2, Counts DEF ManualRecord, Goto
  <2>7. CleanDone
    BY <1>3, <2>1, <2>2 DEF ManualRecord, Goto
  <2>8. QED
    BY <2>3, <2>4, <2>5, <2>6, <2>7
<1>4. ASSUME NEW t \in Tasks, ResumeCorrupt(t)
      PROVE  IInv' /\ CleanDone
  BY <1>4 DEF ResumeCorrupt, Resuming, Rebuilt, find_active_tasks
<1>5. ASSUME NEW t \in Tasks, ResumeCeiling(t)
      PROVE  IInv' /\ CleanDone
  BY <1>5 DEF ResumeCeiling, Resuming, Rebuilt, find_active_tasks
<1>6. ASSUME NEW t \in Tasks, ResumeFromTop(t)
      PROVE  IInv' /\ CleanDone
  <2>1. row[t] \in Rows
    OBVIOUS
  <2> DEFINE r == Redriven(row[t])
  <2>2. r \in Rows /\ r.status = "validated" /\ r.node = row[t].node /\ r.cleanup = row[t].cleanup
    BY <1>6, <2>1 DEF Rows, Redriven
  <2>3. Set(t, r)
    BY <1>6 DEF ResumeFromTop
  <2>4. /\ row' \in [Tasks -> Rows] /\ row'[t] = r
        /\ \A u \in Tasks : u # t => row'[u] = row[u]
    BY <2>1, <2>2, <2>3, SetRow
  <2> HIDE DEF r
  <2>5. TypeOK'
    BY <1>6, <2>1, <2>2, <2>4 DEF ResumeFromTop, Resuming, Rebuilt, find_active_tasks, Redriven
  <2>6. SlotInv' /\ StageInv'
    BY <1>6, <2>1, <2>2, <2>4 DEF ResumeFromTop, Resuming, Rebuilt, find_active_tasks, Redriven
  <2>7. NodeInv' /\ CleanInv'
    BY <1>6, <2>1, <2>2, <2>4 DEF ResumeFromTop, Resuming, Rebuilt, find_active_tasks, Redriven
  <2>8. RecordInv'
    BY <1>6, <2>1, <2>2, <2>4, Counts DEF ResumeFromTop, Resuming, Rebuilt,
       find_active_tasks, Redriven
  <2>9. CleanDone
    BY <1>6, <2>1, <2>2, <2>4 DEF ResumeFromTop, Resuming, Rebuilt, find_active_tasks, Redriven
  <2>10. QED
    BY <2>5, <2>6, <2>7, <2>8, <2>9
<1>7. ASSUME NEW t \in Tasks, ResumeFromNode(t)
      PROVE  IInv' /\ CleanDone
  <2>1. /\ row' \in [Tasks -> Rows]
        /\ \A u \in Tasks : /\ row'[u].status = row[u].status /\ row'[u].node = row[u].node
                              /\ row'[u].cleanup = row[u].cleanup
    <3>1. CASE Set(t, [row[t] EXCEPT !.branch = TRUE])
      <4>1. row[t] \in Rows
        OBVIOUS
      <4>2. QED
        BY <3>1, <4>1, KeepRow DEF Rows
    <3>2. CASE UNCHANGED row
      BY <3>2
    <3>3. QED
      BY <1>7, <3>1, <3>2 DEF ResumeFromNode
  <2>2. TypeOK'
    BY <1>7, <2>1 DEF ResumeFromNode, Resuming, Rebuilt, find_active_tasks
  <2>3. SlotInv' /\ StageInv'
    BY <1>7, <2>1 DEF ResumeFromNode, Resuming, Rebuilt, find_active_tasks
  <2>4. NodeInv' /\ CleanInv'
    BY <1>7, <2>1 DEF ResumeFromNode, Resuming, Rebuilt, find_active_tasks
  <2>5. RecordInv'
    BY <1>7, <2>1, Counts DEF ResumeFromNode, Resuming, Rebuilt, find_active_tasks
  <2>6. CleanDone
    BY <1>7, <2>1 DEF ResumeFromNode, Resuming, Rebuilt, find_active_tasks
  <2>7. QED
    BY <2>2, <2>3, <2>4, <2>5, <2>6
<1>8. ASSUME NEW t \in Tasks, NEW safe \in BOOLEAN, ResumeCleanup(t, safe)
      PROVE  IInv' /\ CleanDone
  <2>1. row[t] \in Rows
    OBVIOUS
  <2> DEFINE r == [row[t] EXCEPT !.cleanup = IF safe THEN "yes" ELSE "no"]
  <2>2. r \in Rows /\ r.status = row[t].status /\ r.node = row[t].node
    BY <1>8, <2>1 DEF Rows
  <2>3. Set(t, r)
    BY <1>8 DEF ResumeCleanup
  <2>4. /\ row' \in [Tasks -> Rows] /\ row'[t] = r
        /\ \A u \in Tasks : u # t => row'[u] = row[u]
    BY <2>1, <2>2, <2>3, SetRow
  <2> HIDE DEF r
  <2>5. TypeOK'
    BY <1>8, <2>1, <2>2, <2>4 DEF ResumeCleanup, find_incomplete_cleanup, find_active_tasks
  <2>6. SlotInv' /\ StageInv'
    BY <1>8, <2>1, <2>2, <2>4 DEF ResumeCleanup, find_incomplete_cleanup, find_active_tasks
  <2>7. NodeInv' /\ CleanInv'
    BY <1>8, <2>1, <2>2, <2>4 DEF ResumeCleanup, find_incomplete_cleanup, find_active_tasks
  <2>8. RecordInv'
    BY <1>8, <2>1, <2>2, <2>4, Counts DEF ResumeCleanup, find_incomplete_cleanup, find_active_tasks
  <2>9. CleanDone
    BY <1>8, <2>1, <2>2, <2>4 DEF ResumeCleanup, find_incomplete_cleanup, find_active_tasks
  <2>10. QED
    BY <2>5, <2>6, <2>7, <2>8, <2>9
<1>9. CASE CleanupRecord
  <2>1. cur \in Tasks /\ ledger \in [Tasks -> Entries]
    BY <1>9 DEF CleanupRecord
  <2>2. /\ ledger' \in [Tasks -> Entries]
        /\ \A u \in Tasks : u # cur => ledger'[u] = ledger[u]
        /\ \/ ledger'[cur] = ledger[cur]
           \/ Records(cur) = 0 /\ ledger'[cur].run + ledger'[cur].manual = 1
    <3>1. CASE has_task_id(cur)
      BY <1>9, <2>1, <3>1 DEF CleanupRecord, AppendIfNew
    <3>2. CASE ~has_task_id(cur)
      <4>1. ledger' = [ledger EXCEPT ![cur] = Run(ledger[cur])]
        BY <1>9, <2>1, <3>2 DEF CleanupRecord, AppendIfNew
      <4>2. Records(cur) = 0
        BY <2>1, <3>2 DEF has_task_id, Records, Entries
      <4>3. Run(ledger[cur]) # Reject(ledger[cur])
        BY <2>1 DEF Entries, Run, Reject
      <4>4. /\ ledger' \in [Tasks -> Entries]
            /\ \A u \in Tasks : u # cur => ledger'[u] = ledger[u]
            /\ ledger'[cur].run + ledger'[cur].manual = Records(cur) + 1
        BY <2>1, <4>1, <4>3, Appends
      <4>5. QED
        BY <4>2, <4>4
    <3>3. QED
      BY <3>1, <3>2
  <2>3. TypeOK'
    BY <1>9, <2>1, <2>2 DEF CleanupRecord, Goto, AfterCleanup
  <2>4. SlotInv' /\ StageInv'
    BY <1>9, <2>1, <2>2 DEF CleanupRecord, Goto, AfterCleanup
  <2>5. NodeInv' /\ CleanInv'
    BY <1>9, <2>1, <2>2 DEF CleanupRecord, Goto, AfterCleanup
  <2>6. RecordInv'
    BY <1>9, <2>1, <2>2, Counts DEF CleanupRecord, Goto, AfterCleanup
  <2>7. CleanDone
    BY <1>9, <2>1, <2>2 DEF CleanupRecord, Goto, AfterCleanup
  <2>8. QED
    BY <2>3, <2>4, <2>5, <2>6, <2>7
<1>10. CASE NothingToResume
  BY <1>10 DEF NothingToResume, Goto
<1>11. QED
  BY <1>1, <1>2, <1>3, <1>4, <1>5, <1>6, <1>7, <1>8, <1>9, <1>10 DEF Resume

\* The scan, the gate and the registration.
LEMMA AdmitStep == IInv /\ Admit => IInv' /\ CleanDone
<1> SUFFICES ASSUME IInv, Admit PROVE IInv' /\ CleanDone
  OBVIOUS
<1> USE DEF IInv, TypeOK, DurableOK, ProcessOK, HistoryOK, TERMINAL, ACTIVE, SlotInv, StageInv,
      NodeInv, CleanInv, RecordInv, AtMostOneActive, NoInvalidTransition, NoDoubleRecord,
      Records, Piped, PCs, Statuses, BoundsOK, durable, process, bounds, history, CleanDone
<1>1. CASE Claim
  BY <1>1 DEF Claim, find_active_tasks, Offered
<1>2. CASE EndScan
  BY <1>2 DEF EndScan, Goto
<1>3. CASE GateReject
  <2>1. cur \in Tasks /\ ledger \in [Tasks -> Entries]
    BY <1>3 DEF GateReject
  <2>2. /\ ledger' \in [Tasks -> Entries]
        /\ \A u \in Tasks : ledger'[u].run + ledger'[u].manual = Records(u)
    <3>1. CASE UNCHANGED ledger
      BY <2>1, <3>1
    <3>2. CASE ledger' = [ledger EXCEPT ![cur] = Reject(ledger[cur])]
      BY <2>1, <3>2, Appends
    <3>3. QED
      BY <1>3, <2>1, <3>1, <3>2 DEF GateReject
  <2>3. pend' \in [Tasks -> {"none", "own", "other"}] /\ filed' \in [Tasks -> BOOLEAN]
    <3>1. \/ Quarantine(cur)
          \/ UNCHANGED <<pend, filed>>
      BY <1>3 DEF GateReject
    <3>2. QED
      BY <2>1, <3>1 DEF Quarantine
  <2>4. /\ UNCHANGED <<row, bounds, history>> /\ pc = "gate"
        /\ pc' \in {"idle", "scan"} /\ UNCHANGED <<cur, src, goal, via, todo>>
    BY <1>3 DEF GateReject, AfterTask, Goto
  <2>5. TypeOK'
    BY <2>1, <2>2, <2>3, <2>4 DEF GateReject
  <2>6. SlotInv' /\ StageInv'
    BY <2>1, <2>2, <2>3, <2>4 DEF GateReject
  <2>7. NodeInv' /\ CleanInv'
    BY <2>1, <2>2, <2>3, <2>4 DEF GateReject
  <2>8. RecordInv'
    BY <2>1, <2>2, <2>3, <2>4, Counts DEF GateReject
  <2>9. CleanDone
    BY <2>1, <2>2, <2>3, <2>4 DEF GateReject
  <2>10. QED
    BY <2>5, <2>6, <2>7, <2>8, <2>9
<1>4. CASE Register
  <2>1. cur \in Tasks /\ row[cur] \in Rows
    BY <1>4 DEF Register
  <2> DEFINE r == [row[cur] EXCEPT !.status = "new"]
  <2>2. r \in Rows /\ r.status = "new" /\ r.node = row[cur].node /\ r.cleanup = row[cur].cleanup
    BY <1>4, <2>1 DEF Rows
  <2>3. Set(cur, r)
    BY <1>4 DEF Register
  <2>4. /\ row' \in [Tasks -> Rows] /\ row'[cur] = r
        /\ \A u \in Tasks : u # cur => row'[u] = row[u]
    BY <2>1, <2>2, <2>3, SetRow
  <2> HIDE DEF r
  <2>5. TypeOK'
    BY <1>4, <2>1, <2>2, <2>4 DEF Register, Goto, find_active_tasks, duplicate_task_id
  <2>6. SlotInv' /\ StageInv'
    BY <1>4, <2>1, <2>2, <2>4 DEF Register, Goto, find_active_tasks, duplicate_task_id
  <2>7. NodeInv' /\ CleanInv'
    BY <1>4, <2>1, <2>2, <2>4 DEF Register, Goto, find_active_tasks, duplicate_task_id
  <2>8. RecordInv'
    BY <1>4, <2>1, <2>2, <2>4, Counts DEF Register, Goto, find_active_tasks, duplicate_task_id
  <2>9. CleanDone
    BY <1>4, <2>1, <2>2, <2>4 DEF Register, Goto, find_active_tasks, duplicate_task_id
  <2>10. QED
    BY <2>5, <2>6, <2>7, <2>8, <2>9
<1>5. CASE Validate
  <2>1. cur \in Tasks /\ row[cur] \in Rows
    BY <1>5 DEF Validate
  <2> DEFINE r == [row[cur] EXCEPT !.status = "validated", !.artifact = TRUE]
  <2>2. r \in Rows /\ r.status = "validated" /\ r.node = row[cur].node /\ r.cleanup = row[cur].cleanup
    BY <1>5, <2>1 DEF Rows
  <2>3. Set(cur, r)
    BY <1>5 DEF Validate
  <2>4. /\ row' \in [Tasks -> Rows] /\ row'[cur] = r
        /\ \A u \in Tasks : u # cur => row'[u] = row[u]
    BY <2>1, <2>2, <2>3, SetRow
  <2> HIDE DEF r
  <2>5. TypeOK'
    BY <1>5, <2>1, <2>2, <2>4 DEF Validate
  <2>6. SlotInv' /\ StageInv'
    BY <1>5, <2>1, <2>2, <2>4 DEF Validate
  <2>7. NodeInv' /\ CleanInv'
    BY <1>5, <2>1, <2>2, <2>4 DEF Validate
  <2>8. RecordInv'
    BY <1>5, <2>1, <2>2, <2>4, Counts DEF Validate
  <2>9. CleanDone
    BY <1>5, <2>1, <2>2, <2>4 DEF Validate
  <2>10. QED
    BY <2>5, <2>6, <2>7, <2>8, <2>9
<1>6. QED
  BY <1>1, <1>2, <1>3, <1>4, <1>5 DEF Admit

\* The drive to the engine and what comes back from it.
LEMMA RunStep == IInv /\ RunTask => IInv' /\ CleanDone
<1> SUFFICES ASSUME IInv, RunTask PROVE IInv' /\ CleanDone
  OBVIOUS
<1> USE DEF IInv, TypeOK, DurableOK, ProcessOK, HistoryOK, TERMINAL, ACTIVE, SlotInv, StageInv,
      NodeInv, CleanInv, RecordInv, AtMostOneActive, NoInvalidTransition, NoDoubleRecord,
      Records, Piped, PCs, Statuses, BoundsOK, durable, process, bounds, history, CleanDone
<1>1. CASE DriveRefused
  BY <1>1 DEF DriveRefused, Raise
<1>2. CASE Drive
  <2>1. cur \in Tasks /\ row[cur] \in Rows
    BY <1>2 DEF Drive
  <2> DEFINE r == [row[cur] EXCEPT !.status = "preparing"]
  <2>2. r \in Rows /\ r.status = "preparing" /\ r.node = row[cur].node /\ r.cleanup = row[cur].cleanup
    BY <1>2, <2>1 DEF Rows
  <2>3. Set(cur, r)
    BY <1>2 DEF Drive, Transition, SetStatus, can_transition, BaseTransitions
  <2>4. /\ row' \in [Tasks -> Rows] /\ row'[cur] = r
        /\ \A u \in Tasks : u # cur => row'[u] = row[u]
    BY <2>1, <2>2, <2>3, SetRow
  <2>5. /\ pc = "drive" /\ pc' = "prepare" /\ src' = "preparing" /\ UNCHANGED <<cur, goal, via, todo>>
        /\ UNCHANGED history
        /\ UNCHANGED <<pend, filed, ledger, bounds>>
    BY <1>2, <2>2 DEF Drive, Transition, SetStatus, can_transition, BaseTransitions, r
  <2> HIDE DEF r
  <2>6. TypeOK'
    BY <2>1, <2>2, <2>4, <2>5 DEF Drive
  <2>7. SlotInv' /\ StageInv'
    BY <2>1, <2>2, <2>4, <2>5 DEF Drive
  <2>8. NodeInv' /\ CleanInv'
    BY <2>1, <2>2, <2>4, <2>5 DEF Drive
  <2>9. RecordInv'
    BY <2>1, <2>2, <2>4, <2>5, Counts DEF Drive
  <2>10. CleanDone
    BY <2>1, <2>2, <2>4, <2>5 DEF Drive
  <2>11. QED
    BY <2>6, <2>7, <2>8, <2>9, <2>10
<1>3. CASE PrepareBranch
  <2>1. /\ row' \in [Tasks -> Rows]
        /\ \A u \in Tasks : /\ row'[u].status = row[u].status /\ row'[u].node = row[u].node
                              /\ row'[u].cleanup = row[u].cleanup
    <3>1. cur \in Tasks /\ row[cur] \in Rows
      BY <1>3 DEF PrepareBranch
    <3>2. QED
      BY <1>3, <3>1, KeepRow DEF PrepareBranch, Rows
  <2>2. TypeOK'
    BY <1>3, <2>1 DEF PrepareBranch, Goto
  <2>3. SlotInv' /\ StageInv'
    BY <1>3, <2>1 DEF PrepareBranch, Goto
  <2>4. NodeInv' /\ CleanInv'
    BY <1>3, <2>1 DEF PrepareBranch, Goto
  <2>5. RecordInv'
    BY <1>3, <2>1, Counts DEF PrepareBranch, Goto
  <2>6. CleanDone
    BY <1>3, <2>1 DEF PrepareBranch, Goto
  <2>7. QED
    BY <2>2, <2>3, <2>4, <2>5, <2>6
<1>4. CASE Ready
  <2>1. cur \in Tasks /\ row[cur] \in Rows
    BY <1>4 DEF Ready
  <2> DEFINE r == [row[cur] EXCEPT !.status = "running"]
  <2>2. r \in Rows /\ r.status = "running" /\ r.node = row[cur].node /\ r.cleanup = row[cur].cleanup
    BY <1>4, <2>1 DEF Rows
  <2>3. Set(cur, r)
    BY <1>4 DEF Ready, Transition, SetStatus, can_transition, BaseTransitions
  <2>4. /\ row' \in [Tasks -> Rows] /\ row'[cur] = r
        /\ \A u \in Tasks : u # cur => row'[u] = row[u]
    BY <2>1, <2>2, <2>3, SetRow
  <2>5. /\ pc = "ready" /\ pc' = "seed" /\ src' = "running" /\ UNCHANGED <<cur, goal, via, todo>>
        /\ UNCHANGED history
        /\ UNCHANGED <<pend, filed, ledger, bounds>>
    BY <1>4, <2>2 DEF Ready, Transition, SetStatus, can_transition, BaseTransitions, r
  <2> HIDE DEF r
  <2>6. TypeOK'
    BY <2>1, <2>2, <2>4, <2>5 DEF Ready
  <2>7. SlotInv' /\ StageInv'
    BY <2>1, <2>2, <2>4, <2>5 DEF Ready
  <2>8. NodeInv' /\ CleanInv'
    BY <2>1, <2>2, <2>4, <2>5 DEF Ready
  <2>9. RecordInv'
    BY <2>1, <2>2, <2>4, <2>5, Counts DEF Ready
  <2>10. CleanDone
    BY <2>1, <2>2, <2>4, <2>5 DEF Ready
  <2>11. QED
    BY <2>6, <2>7, <2>8, <2>9, <2>10
<1>5. CASE SeedRefused
  BY <1>5 DEF SeedRefused
<1>6. CASE Seed
  <2>1. cur \in Tasks /\ row[cur] \in Rows
    BY <1>6 DEF Seed
  <2> DEFINE r == [row[cur] EXCEPT !.node = TRUE]
  <2>2. r \in Rows /\ r.status = row[cur].status /\ r.node = TRUE /\ r.cleanup = row[cur].cleanup
    BY <1>6, <2>1 DEF Rows
  <2>3. Set(cur, r)
    BY <1>6 DEF Seed
  <2>4. /\ row' \in [Tasks -> Rows] /\ row'[cur] = r
        /\ \A u \in Tasks : u # cur => row'[u] = row[u]
    BY <2>1, <2>2, <2>3, SetRow
  <2> HIDE DEF r
  <2>5. TypeOK'
    BY <1>6, <2>1, <2>2, <2>4 DEF Seed, Goto
  <2>6. SlotInv' /\ StageInv'
    BY <1>6, <2>1, <2>2, <2>4 DEF Seed, Goto
  <2>7. NodeInv' /\ CleanInv'
    BY <1>6, <2>1, <2>2, <2>4 DEF Seed, Goto
  <2>8. RecordInv'
    BY <1>6, <2>1, <2>2, <2>4, Counts DEF Seed, Goto
  <2>9. CleanDone
    BY <1>6, <2>1, <2>2, <2>4 DEF Seed, Goto
  <2>10. QED
    BY <2>5, <2>6, <2>7, <2>8, <2>9
<1>7. CASE EngineFinalize
  BY <1>7 DEF EngineFinalize, Goto, Relocate
<1>8. CASE EngineDone
  BY <1>8 DEF EngineDone
<1>9. CASE EngineStops
  BY <1>9 DEF EngineStops, Raise
<1>10. CASE EngineExhausted
  BY <1>10 DEF EngineExhausted
<1>11. CASE EnginePark
  <2>1. /\ row' \in [Tasks -> Rows]
        /\ \A u \in Tasks : /\ row'[u].status = row[u].status /\ row'[u].node = row[u].node
                              /\ row'[u].cleanup = row[u].cleanup
    <3>1. cur \in Tasks /\ row[cur] \in Rows
      BY <1>11 DEF EnginePark
    <3>2. PICK b \in {"since", "until"} : Set(cur, [row[cur] EXCEPT !.blocked = b])
      BY <1>11 DEF EnginePark
    <3>3. QED
      BY <3>1, <3>2, KeepRow DEF Rows
  <2>2. TypeOK'
    BY <1>11, <2>1, LifecycleAssumption DEF EnginePark, Goto
  <2>3. SlotInv' /\ StageInv'
    BY <1>11, <2>1 DEF EnginePark, Goto
  <2>4. NodeInv' /\ CleanInv'
    BY <1>11, <2>1 DEF EnginePark, Goto
  <2>5. RecordInv'
    BY <1>11, <2>1, Counts DEF EnginePark, Goto
  <2>6. CleanDone
    BY <1>11, <2>1 DEF EnginePark, Goto
  <2>7. QED
    BY <2>2, <2>3, <2>4, <2>5, <2>6
<1>12. QED
  BY <1>1, <1>2, <1>3, <1>4, <1>5, <1>6, <1>7, <1>8, <1>9, <1>10, <1>11 DEF RunTask

\* The terminal epilogue.
LEMMA TerminalStep == IInv /\ GoTerminal => IInv' /\ CleanDone
<1> SUFFICES ASSUME IInv, GoTerminal PROVE IInv' /\ CleanDone
  OBVIOUS
<1> USE DEF IInv, TypeOK, DurableOK, ProcessOK, HistoryOK, TERMINAL, ACTIVE, SlotInv, StageInv,
      NodeInv, CleanInv, RecordInv, AtMostOneActive, NoInvalidTransition, NoDoubleRecord,
      Records, Piped, PCs, Statuses, BoundsOK, durable, process, bounds, history, CleanDone
<1>1. CASE Fail
  BY <1>1 DEF Fail, Goto, Relocate
<1>2. ASSUME NEW safe \in BOOLEAN, Cleanup(safe)
      PROVE  IInv' /\ CleanDone
  <2>1. cur \in Tasks /\ row[cur] \in Rows
    BY <1>2 DEF Cleanup
  <2> DEFINE r == [row[cur] EXCEPT !.cleanup = IF safe THEN "yes" ELSE "no", !.blocked = "no"]
  <2>2. /\ r \in Rows /\ r.status = row[cur].status /\ r.node = row[cur].node
        /\ r.cleanup = (IF safe THEN "yes" ELSE "no")
    BY <1>2, <2>1 DEF Rows
  <2>3. Set(cur, r)
    BY <1>2 DEF Cleanup
  <2>4. /\ row' \in [Tasks -> Rows] /\ row'[cur] = r
        /\ \A u \in Tasks : u # cur => row'[u] = row[u]
    BY <2>1, <2>2, <2>3, SetRow
  <2> HIDE DEF r
  <2>5. TypeOK'
    BY <1>2, <2>1, <2>2, <2>4 DEF Cleanup, final_status
  <2>6. SlotInv' /\ StageInv'
    BY <1>2, <2>1, <2>2, <2>4 DEF Cleanup, final_status
  <2>7. NodeInv' /\ CleanInv'
    BY <1>2, <2>1, <2>2, <2>4 DEF Cleanup, final_status
  <2>8. RecordInv'
    BY <1>2, <2>1, <2>2, <2>4, Counts DEF Cleanup, final_status
  <2>9. CleanDone
    BY <1>2, <2>1, <2>2, <2>4 DEF Cleanup, final_status
  <2>10. QED
    BY <2>5, <2>6, <2>7, <2>8, <2>9
<1>3. CASE Explain
  BY <1>3 DEF Explain, Goto, Relocate
<1>4. CASE ClearCheckpoint
  <2>1. cur \in Tasks /\ row[cur] \in Rows
    BY <1>4 DEF ClearCheckpoint
  <2> DEFINE r == [row[cur] EXCEPT !.node = FALSE]
  <2>2. r \in Rows /\ r.status = row[cur].status /\ r.node = FALSE /\ r.cleanup = row[cur].cleanup
    BY <1>4, <2>1 DEF Rows
  <2>3. Set(cur, r)
    BY <1>4 DEF ClearCheckpoint
  <2>4. /\ row' \in [Tasks -> Rows] /\ row'[cur] = r
        /\ \A u \in Tasks : u # cur => row'[u] = row[u]
    BY <2>1, <2>2, <2>3, SetRow
  <2> HIDE DEF r
  <2>5. TypeOK'
    BY <1>4, <2>1, <2>2, <2>4 DEF ClearCheckpoint, Goto
  <2>6. SlotInv' /\ StageInv'
    BY <1>4, <2>1, <2>2, <2>4 DEF ClearCheckpoint, Goto
  <2>7. NodeInv' /\ CleanInv'
    BY <1>4, <2>1, <2>2, <2>4 DEF ClearCheckpoint, Goto
  <2>8. RecordInv'
    BY <1>4, <2>1, <2>2, <2>4, Counts DEF ClearCheckpoint, Goto
  <2>9. CleanDone
    BY <1>4, <2>1, <2>2, <2>4 DEF ClearCheckpoint, Goto
  <2>10. QED
    BY <2>5, <2>6, <2>7, <2>8, <2>9
<1>5. CASE Settle
  <2>1. cur \in Tasks /\ row[cur] \in Rows
    BY <1>5 DEF Settle
  <2> DEFINE r == [row[cur] EXCEPT !.status = goal]
  <2>2. r \in Rows /\ r.status = goal /\ r.node = row[cur].node /\ r.cleanup = row[cur].cleanup
    BY <1>5, <2>1 DEF Rows, Settle
  <2>3. Set(cur, r)
    BY <1>5 DEF Settle, Transition, SetStatus, can_transition, BaseTransitions
  <2>4. /\ row' \in [Tasks -> Rows] /\ row'[cur] = r
        /\ \A u \in Tasks : u # cur => row'[u] = row[u]
    BY <2>1, <2>2, <2>3, SetRow
  <2>5. /\ pc = "transition" /\ pc' = "move" /\ src' = goal /\ UNCHANGED <<cur, goal, via, todo>>
        /\ ends' = [ends EXCEPT ![cur] = @ + 1] /\ UNCHANGED finished
        /\ UNCHANGED <<pend, filed, ledger, bounds>>
    BY <1>5, <2>2 DEF Settle, Transition, SetStatus, can_transition, BaseTransitions, r
  <2> HIDE DEF r
  <2>6. TypeOK'
    BY <2>1, <2>2, <2>4, <2>5 DEF Settle
  <2>7. SlotInv' /\ StageInv'
    BY <2>1, <2>2, <2>4, <2>5 DEF Settle
  <2>8. NodeInv' /\ CleanInv'
    BY <2>1, <2>2, <2>4, <2>5 DEF Settle
  <2>9. RecordInv'
    BY <2>1, <2>2, <2>4, <2>5, Counts DEF Settle
  <2>10. CleanDone
    BY <2>1, <2>2, <2>4, <2>5 DEF Settle
  <2>11. QED
    BY <2>6, <2>7, <2>8, <2>9, <2>10
<1>6. CASE MoveTaskFile
  BY <1>6 DEF MoveTaskFile, Goto, Relocate
<1>7. CASE AppendLedger
  <2>1. cur \in Tasks /\ ledger \in [Tasks -> Entries]
    BY <1>7 DEF AppendLedger
  <2>2. /\ ledger' \in [Tasks -> Entries]
        /\ \A u \in Tasks : u # cur => ledger'[u] = ledger[u]
        /\ ledger'[cur].run + ledger'[cur].manual = Records(cur) + 1
    <3>1. ledger' = [ledger EXCEPT ![cur] = Run(ledger[cur])]
      BY <1>7, <2>1 DEF AppendLedger
    <3>2. Run(ledger[cur]) # Reject(ledger[cur])
      BY <2>1 DEF Entries, Run, Manual, Reject
    <3>3. QED
      BY <2>1, <3>1, <3>2, Appends
  <2>3. TypeOK'
    BY <1>7, <2>1, <2>2 DEF AppendLedger, Goto, AfterTask
  <2>4. SlotInv' /\ StageInv'
    BY <1>7, <2>1, <2>2 DEF AppendLedger, Goto, AfterTask
  <2>5. NodeInv' /\ CleanInv'
    BY <1>7, <2>1, <2>2 DEF AppendLedger, Goto, AfterTask
  <2>6. RecordInv'
    BY <1>7, <2>1, <2>2, Counts DEF AppendLedger, Goto, AfterTask
  <2>7. CleanDone
    BY <1>7, <2>1, <2>2 DEF AppendLedger, Goto, AfterTask
  <2>8. QED
    BY <2>3, <2>4, <2>5, <2>6, <2>7
<1>8. CASE FailRaises
  <2>1. CASE pc = "fail"
    BY <1>8, <2>1 DEF FailRaises, Relocate
  <2>2. CASE pc = "handler"
    BY <1>8, <2>2 DEF FailRaises, Exits, Relocate
  <2>3. QED
    BY <1>8, <2>1, <2>2 DEF FailRaises
<1>9. QED
  BY <1>1, <1>2, <1>3, <1>4, <1>5, <1>6, <1>7, <1>8 DEF GoTerminal

\* The operator's commands, the pending folder and the clock.
LEMMA OperatorStep ==
  IInv /\ (FinalizeStatus \/ FinalizeRecord \/ WindowOpens \/ Operator) => IInv' /\ CleanDone
<1> SUFFICES ASSUME IInv, FinalizeStatus \/ FinalizeRecord \/ WindowOpens \/ Operator PROVE IInv' /\ CleanDone
  OBVIOUS
<1> USE DEF IInv, TypeOK, DurableOK, ProcessOK, HistoryOK, TERMINAL, ACTIVE, SlotInv, StageInv,
      NodeInv, CleanInv, RecordInv, AtMostOneActive, NoInvalidTransition, NoDoubleRecord,
      Records, Piped, PCs, Statuses, BoundsOK, durable, process, bounds, history, CleanDone
<1>1. CASE FinalizeStatus
  <2>1. cur \in Tasks /\ row[cur] \in Rows
    BY <1>1 DEF FinalizeStatus
  <2> DEFINE r == [row[cur] EXCEPT !.status = goal]
  <2>2. r \in Rows /\ r.status = goal /\ r.node = row[cur].node /\ r.cleanup = row[cur].cleanup
    BY <1>1, <2>1 DEF Rows, FinalizeStatus
  <2>3. Set(cur, r)
    BY <1>1 DEF FinalizeStatus, SetStatus
  <2>4. /\ row' \in [Tasks -> Rows] /\ row'[cur] = r
        /\ \A u \in Tasks : u # cur => row'[u] = row[u]
    BY <2>1, <2>2, <2>3, SetRow
  <2>5. /\ pc = "fstatus" /\ pc' = "frecord" /\ UNCHANGED <<cur, src, goal, via, todo>>
        /\ ends' = [ends EXCEPT ![cur] = @ + 1] /\ UNCHANGED finished
        /\ UNCHANGED <<pend, filed, ledger, bounds>>
    BY <1>1, <2>2 DEF FinalizeStatus, Goto, SetStatus, r
  <2> HIDE DEF r
  <2>6. TypeOK'
    BY <2>1, <2>2, <2>4, <2>5 DEF FinalizeStatus
  <2>7. SlotInv' /\ StageInv'
    BY <2>1, <2>2, <2>4, <2>5 DEF FinalizeStatus
  <2>8. NodeInv' /\ CleanInv'
    BY <2>1, <2>2, <2>4, <2>5 DEF FinalizeStatus
  <2>9. RecordInv'
    BY <2>1, <2>2, <2>4, <2>5, Counts DEF FinalizeStatus
  <2>10. CleanDone
    BY <2>1, <2>2, <2>4, <2>5 DEF FinalizeStatus
  <2>11. QED
    BY <2>6, <2>7, <2>8, <2>9, <2>10
<1>2. CASE FinalizeRecord
  <2>1. cur \in Tasks /\ ledger \in [Tasks -> Entries]
    BY <1>2 DEF FinalizeRecord
  <2>2. /\ ledger' \in [Tasks -> Entries]
        /\ \A u \in Tasks : u # cur => ledger'[u] = ledger[u]
        /\ ledger'[cur].run + ledger'[cur].manual = Records(cur) + 1
    <3>1. ledger' = [ledger EXCEPT ![cur] = Manual(ledger[cur])]
      BY <1>2, <2>1 DEF FinalizeRecord
    <3>2. Manual(ledger[cur]) # Reject(ledger[cur])
      BY <2>1 DEF Entries, Run, Manual, Reject
    <3>3. QED
      BY <2>1, <3>1, <3>2, Appends
  <2>3. TypeOK'
    BY <1>2, <2>1, <2>2 DEF FinalizeRecord, Exits, Relocate
  <2>4. SlotInv' /\ StageInv'
    BY <1>2, <2>1, <2>2 DEF FinalizeRecord, Exits, Relocate
  <2>5. NodeInv' /\ CleanInv'
    BY <1>2, <2>1, <2>2 DEF FinalizeRecord, Exits, Relocate
  <2>6. RecordInv'
    BY <1>2, <2>1, <2>2, Counts DEF FinalizeRecord, Exits, Relocate
  <2>7. CleanDone
    BY <1>2, <2>1, <2>2 DEF FinalizeRecord, Exits, Relocate
  <2>8. QED
    BY <2>3, <2>4, <2>5, <2>6, <2>7
<1>3. CASE WindowOpens
  <2>1. /\ row' \in [Tasks -> Rows]
        /\ \A u \in Tasks : /\ row'[u].status = row[u].status /\ row'[u].node = row[u].node
                              /\ row'[u].cleanup = row[u].cleanup
    <3>1. PICK t \in Tasks : Set(t, [row[t] EXCEPT !.blocked = "since"])
      BY <1>3 DEF WindowOpens
    <3>2. row[t] \in Rows
      OBVIOUS
    <3>3. QED
      BY <3>1, <3>2, KeepRow DEF Rows
  <2>2. TypeOK'
    BY <1>3, <2>1 DEF WindowOpens
  <2>3. SlotInv' /\ StageInv'
    BY <1>3, <2>1 DEF WindowOpens
  <2>4. NodeInv' /\ CleanInv'
    BY <1>3, <2>1 DEF WindowOpens
  <2>5. RecordInv'
    BY <1>3, <2>1, Counts DEF WindowOpens
  <2>6. CleanDone
    BY <1>3, <2>1 DEF WindowOpens
  <2>7. QED
    BY <2>2, <2>3, <2>4, <2>5, <2>6
<1>4. ASSUME NEW t \in Tasks, Rerun(t)
      PROVE  IInv' /\ CleanDone
  <2>1. row[t] \in Rows
    OBVIOUS
  <2> DEFINE r == [NoRow EXCEPT !.status = row[t].status, !.blocked = row[t].blocked]
  <2>2. r \in Rows /\ r.status = row[t].status /\ r.node = FALSE
    BY <1>4, <2>1 DEF Rows, NoRow
  <2>3. Set(t, r)
    BY <1>4 DEF Rerun
  <2>4. /\ row' \in [Tasks -> Rows] /\ row'[t] = r
        /\ \A u \in Tasks : u # t => row'[u] = row[u]
    BY <2>1, <2>2, <2>3, SetRow
  <2> HIDE DEF r
  <2>5. DurableOK'
    BY <1>4, <2>1, <2>2, <2>4 DEF Rerun, RerunAllowed, find_active_tasks, RERUN_ELIGIBLE
  <2>6. ProcessOK'
    BY <1>4, <2>1, <2>2, <2>4 DEF Rerun, RerunAllowed, find_active_tasks, RERUN_ELIGIBLE
  <2>7. BoundsOK' /\ HistoryOK'
    BY <1>4, <2>1, <2>2, <2>4, LifecycleAssumption DEF Rerun, RerunAllowed, find_active_tasks, RERUN_ELIGIBLE
  <2>8. SlotInv' /\ StageInv'
    BY <1>4, <2>1, <2>2, <2>4 DEF Rerun, RerunAllowed, find_active_tasks, RERUN_ELIGIBLE
  <2>9. NodeInv' /\ CleanInv'
    BY <1>4, <2>1, <2>2, <2>4 DEF Rerun, RerunAllowed, find_active_tasks, RERUN_ELIGIBLE
  <2>10. RecordInv'
    BY <1>4, <2>1, <2>2, <2>4, Counts DEF Rerun, RerunAllowed, find_active_tasks, RERUN_ELIGIBLE
  <2>11. CleanDone
    BY <1>4, <2>1, <2>2, <2>4 DEF Rerun, RerunAllowed, find_active_tasks, RERUN_ELIGIBLE
  <2>12. QED
    BY <2>5, <2>6, <2>7, <2>8, <2>9, <2>10, <2>11
<1>5. ASSUME NEW t \in Tasks, Continue(t)
      PROVE  IInv' /\ CleanDone
  <2>1. row[t] \in Rows
    OBVIOUS
  <2> DEFINE r == [row[t] EXCEPT !.status = "running", !.cleanup = "null", !.blocked = IF @ = "until" THEN "since" ELSE @]
  <2>2. r \in Rows /\ r.status = "running" /\ r.node = row[t].node
    BY <1>5, <2>1 DEF Rows
  <2>3. Set(t, r)
    BY <1>5 DEF Continue
  <2>4. /\ row' \in [Tasks -> Rows] /\ row'[t] = r
        /\ \A u \in Tasks : u # t => row'[u] = row[u]
    BY <2>1, <2>2, <2>3, SetRow
  <2> HIDE DEF r
  <2>5. TypeOK'
    BY <1>5, <2>1, <2>2, <2>4, LifecycleAssumption DEF Continue, RerunAllowed, Exits, find_active_tasks, RERUN_ELIGIBLE
  <2>6. SlotInv' /\ StageInv'
    BY <1>5, <2>1, <2>2, <2>4 DEF Continue, RerunAllowed, Exits, find_active_tasks, RERUN_ELIGIBLE
  <2>7. NodeInv' /\ CleanInv'
    BY <1>5, <2>1, <2>2, <2>4 DEF Continue, RerunAllowed, Exits, find_active_tasks, RERUN_ELIGIBLE
  <2>8. RecordInv'
    BY <1>5, <2>1, <2>2, <2>4, Counts DEF Continue, RerunAllowed, Exits, find_active_tasks, RERUN_ELIGIBLE
  <2>9. CleanDone
    BY <1>5, <2>1, <2>2, <2>4 DEF Continue, RerunAllowed, Exits, find_active_tasks, RERUN_ELIGIBLE
  <2>10. QED
    BY <2>5, <2>6, <2>7, <2>8, <2>9
<1>6. ASSUME NEW t \in Tasks, Finalize(t)
      PROVE  IInv' /\ CleanDone
  <2>1. PICK c \in {"no", "yes"} :
          /\ Set(t, [row[t] EXCEPT !.cleanup = c])
          /\ \/ c = "no" /\ pc' = "down" /\ UNCHANGED <<cur, goal>>
             \/ c = "yes" /\ pc' = "fstatus" /\ cur' = t /\ goal' \in TERMINAL
    BY <1>6 DEF Finalize, cmd_finalize, plan_finalize
  <2> DEFINE r == [row[t] EXCEPT !.cleanup = c]
  <2>2. row[t] \in Rows
    OBVIOUS
  <2>3. r \in Rows /\ r.status = row[t].status /\ r.node = row[t].node /\ r.cleanup = c
    BY <2>2 DEF Rows
  <2>4. /\ row' \in [Tasks -> Rows] /\ row'[t] = r
        /\ \A u \in Tasks : u # t => row'[u] = row[u]
    BY <2>1, <2>2, <2>3, SetRow
  <2> HIDE DEF r
  <2>5. TypeOK'
    BY <1>6, <2>1, <2>3, <2>4, LifecycleAssumption DEF Finalize, cmd_finalize, plan_finalize
  <2>6. SlotInv' /\ StageInv'
    BY <1>6, <2>1, <2>3, <2>4 DEF Finalize, cmd_finalize, plan_finalize
  <2>7. NodeInv' /\ CleanInv'
    BY <1>6, <2>1, <2>3, <2>4 DEF Finalize, cmd_finalize, plan_finalize
  <2>8. RecordInv'
    BY <1>6, <2>1, <2>3, <2>4, Counts DEF Finalize, cmd_finalize, plan_finalize
  <2>9. CleanDone
    BY <1>6, <2>1, <2>3, <2>4 DEF Finalize, cmd_finalize, plan_finalize
  <2>10. QED
    BY <2>5, <2>6, <2>7, <2>8, <2>9
<1>7. CASE Submit
  BY <1>7, LifecycleAssumption DEF Submit
<1>8. QED
  BY <1>1, <1>2, <1>3, <1>4, <1>5, <1>6, <1>7 DEF Operator

-----------------------------------------------------------------------------
(* A settled task is left alone. That its status stays needs one fact that *)
(* the other results do not: the rows still to be stopped are active.      *)

TodoInv == pc \in {"mstatus", "mrecord"} => \A t \in todo : row[t].status \in ACTIVE

\* A settled task that no command of the operator works on.
Settled(t) ==
  /\ row[t].status \in TERMINAL /\ pc # "down"
  /\ ~(cur = t /\ via = "rerun") /\ ~(cur = t /\ pc \in {"fstatus", "frecord"})

\* What a step may not do to it.
StatusKept == \A t \in Tasks : Settled(t) => row'[t].status = row[t].status
RefusalsKept == \A t \in Tasks : Settled(t) => ledger'[t].reject = ledger[t].reject
FileKept == \A t \in Tasks : Settled(t) /\ pend[t] = "own" /\ pend'[t] = "none" => filed'[t]

SettledKept == StatusKept /\ RefusalsKept /\ FileKept

\* A recovery path's record is not a refusal.
LEMMA Recovered ==
  ASSUME TypeOK, cur \in Tasks, AppendIfNew(cur)
  PROVE  \A t \in Tasks : ledger'[t].reject = ledger[t].reject
<1>1. ledger \in [Tasks -> Entries] /\ ledger[cur] \in Entries
  BY DEF TypeOK, DurableOK
<1>2. Run(ledger[cur]).reject = ledger[cur].reject
  BY <1>1 DEF Run, Entries
<1>3. UNCHANGED ledger \/ ledger' = [ledger EXCEPT ![cur] = Run(ledger[cur])]
  BY <1>1 DEF AppendIfNew
<1>4. QED
  BY <1>1, <1>2, <1>3

\* The process starts, is stopped or crashes: a row loses at most its commit count.
LEMMA SettledProcess ==
  IInv /\ TodoInv /\ (Start \/ Stop \/ Crash) => TodoInv' /\ SettledKept
<1> SUFFICES ASSUME IInv, TodoInv, Start \/ Stop \/ Crash PROVE TodoInv' /\ SettledKept
  OBVIOUS
<1> USE DEF IInv, TypeOK, DurableOK, ProcessOK, TodoInv, Settled, StatusKept, RefusalsKept, FileKept,
      SettledKept, durable
<1>1. CASE Start
  BY <1>1 DEF Start, Exits
<1>2. CASE Stop
  BY <1>2 DEF Stop, Exits
<1>3. CASE Crash
  <2>1. UNCHANGED <<pend, ledger>> /\ pc' = "down"
    BY <1>3 DEF Crash
  <2>2. \A t \in Tasks : row'[t].status = row[t].status
    <3>1. CASE UNCHANGED row
      BY <3>1
    <3>2. CASE pc = "engine" /\ Set(cur, [row[cur] EXCEPT !.torn = TRUE])
      <4>1. cur \in Tasks /\ row[cur] \in Rows
        BY <3>2
      <4>2. QED
        BY <3>2, <4>1, KeepRow DEF Rows
    <3>3. QED
      BY <1>3, <3>1, <3>2 DEF Crash
  <2>3. QED
    BY <2>1, <2>2
<1>4. QED
  BY <1>1, <1>2, <1>3

\* The recovery: it stops and re-drives active rows only.
LEMMA SettledResume == IInv /\ TodoInv /\ Resume => TodoInv' /\ SettledKept
<1> SUFFICES ASSUME IInv, TodoInv, Resume PROVE TodoInv' /\ SettledKept
  OBVIOUS
<1> USE DEF IInv, TypeOK, DurableOK, ProcessOK, TodoInv, Settled, StatusKept, RefusalsKept, FileKept,
      SettledKept, durable, ACTIVE, TERMINAL
<1>1. CASE ResumeManual
  BY <1>1 DEF ResumeManual, manual_task_ids, find_active_tasks
<1>2. CASE ManualStatus
  <2>1. PICK t \in todo : SetStatus(t, Stopped(row[t])) /\ cur' = t /\ todo' = todo \ {t}
    BY <1>2 DEF ManualStatus
  <2>2. t \in Tasks /\ row[t].status \in ACTIVE /\ pc = "mstatus"
    BY <1>2, <2>1 DEF ManualStatus
  <2>3. \A u \in Tasks : u # t => row'[u] = row[u]
    BY <2>1, <2>2 DEF SetStatus, Set
  <2>4. UNCHANGED <<pend, ledger>>
    BY <1>2 DEF ManualStatus
  <2>5. QED
    BY <2>1, <2>2, <2>3, <2>4
<1>3. CASE ManualRecord
  <2>1. cur \in Tasks /\ UNCHANGED <<row, pend, todo>> /\ pc = "mrecord"
    BY <1>3 DEF ManualRecord, Goto
  <2>2. \A t \in Tasks : ledger'[t].reject = ledger[t].reject
    BY <1>3, <2>1, Recovered DEF ManualRecord
  <2>3. QED
    BY <1>3, <2>1, <2>2
<1>4. ASSUME NEW t \in Tasks, ResumeCorrupt(t)
      PROVE  TodoInv' /\ SettledKept
  BY <1>4 DEF ResumeCorrupt, Rebuilt
<1>5. ASSUME NEW t \in Tasks, ResumeCeiling(t)
      PROVE  TodoInv' /\ SettledKept
  BY <1>5 DEF ResumeCeiling, Rebuilt
<1>6. ASSUME NEW t \in Tasks, ResumeFromTop(t)
      PROVE  TodoInv' /\ SettledKept
  BY <1>6 DEF ResumeFromTop, Resuming, Rebuilt, find_active_tasks, Set
<1>7. ASSUME NEW t \in Tasks, ResumeFromNode(t)
      PROVE  TodoInv' /\ SettledKept
  BY <1>7 DEF ResumeFromNode, Resuming, Rebuilt, find_active_tasks, Set
<1>8. ASSUME NEW t \in Tasks, NEW safe \in BOOLEAN, ResumeCleanup(t, safe)
      PROVE  TodoInv' /\ SettledKept
  <2>1. row[t] \in Rows
    OBVIOUS
  <2>2. \A u \in Tasks : row'[u].status = row[u].status
    BY <1>8, <2>1 DEF ResumeCleanup, Set, Rows
  <2>3. QED
    BY <1>8, <2>2 DEF ResumeCleanup
<1>9. CASE CleanupRecord
  <2>1. cur \in Tasks /\ UNCHANGED <<row, pend>> /\ pc' \in {"idle", "scan"}
    BY <1>9 DEF CleanupRecord, Goto, AfterCleanup
  <2>2. \A t \in Tasks : ledger'[t].reject = ledger[t].reject
    BY <1>9, <2>1, Recovered DEF CleanupRecord
  <2>3. QED
    BY <2>1, <2>2
<1>10. CASE NothingToResume
  BY <1>10 DEF NothingToResume, Goto
<1>11. QED
  BY <1>1, <1>2, <1>3, <1>4, <1>5, <1>6, <1>7, <1>8, <1>9, <1>10 DEF Resume

\* The scan and the gate: only a rerun passes the duplicate-id gate over a settled
\* row, and a file of a settled task is quarantined only when its bytes are others.
LEMMA SettledAdmit == IInv /\ TodoInv /\ Admit => TodoInv' /\ SettledKept
<1> SUFFICES ASSUME IInv, TodoInv, Admit PROVE TodoInv' /\ SettledKept
  OBVIOUS
<1> USE DEF IInv, TypeOK, DurableOK, ProcessOK, TodoInv, Settled, StatusKept, RefusalsKept, FileKept,
      SettledKept, durable, ACTIVE, TERMINAL
<1>1. CASE Claim
  BY <1>1 DEF Claim
<1>2. CASE EndScan
  BY <1>2 DEF EndScan, Goto
<1>3. CASE GateReject
  <2>1. pc = "gate" /\ cur \in Tasks /\ UNCHANGED row /\ pc' \in {"idle", "scan"}
    BY <1>3 DEF GateReject, AfterTask, Goto
  <2>2. CASE classify_settled(cur) = "not_settled"
    <3>1. row[cur].status \notin TERMINAL
      BY <2>2 DEF classify_settled
    <3>2. \A t \in Tasks : t # cur => pend'[t] = pend[t] /\ ledger'[t] = ledger[t]
      BY <1>3, <2>1, <2>2 DEF GateReject, Quarantine
    <3>3. QED
      BY <2>1, <3>1, <3>2
  <2>3. CASE classify_settled(cur) = "foreign"
    <3>1. Source(cur) \notin {"own", "filed"} /\ Quarantine(cur) /\ UNCHANGED ledger
      BY <1>3, <2>3 DEF GateReject, classify_settled
    <3>2. Settled(cur) => pend[cur] # "own"
      BY <2>1, <3>1 DEF Source
    <3>3. \A t \in Tasks : t # cur => pend'[t] = pend[t]
      BY <2>1, <3>1 DEF Quarantine
    <3>4. QED
      BY <2>1, <3>1, <3>2, <3>3
  <2>4. CASE classify_settled(cur) \notin {"not_settled", "foreign"}
    <3>1. UNCHANGED <<pend, filed, ledger>>
      BY <1>3, <2>4 DEF GateReject
    <3>2. QED
      BY <2>1, <3>1
  <2>5. QED
    BY <2>2, <2>3, <2>4
<1>4. CASE Register
  <2>1. /\ cur \in Tasks /\ pc = "gate" /\ pc' = "validate" /\ UNCHANGED ledger
        /\ \A t \in Tasks : t # cur => row'[t] = row[t] /\ pend'[t] = pend[t]
        /\ pend'[cur] \in {"own", pend[cur]}
    BY <1>4 DEF Register, Goto, Set
  <2>2. ~Settled(cur)
    BY <1>4, <2>1 DEF Register, duplicate_task_id
  <2>3. QED
    BY <2>1, <2>2
<1>5. CASE Validate
  <2>1. /\ cur \in Tasks /\ pc' = "drive" /\ UNCHANGED <<pend, ledger>>
        /\ \A t \in Tasks : t # cur => row'[t] = row[t]
    BY <1>5 DEF Validate, Set
  <2>2. row[cur].status = "new"
    BY <1>5 DEF Validate, SlotInv
  <2>3. QED
    BY <2>1, <2>2
<1>6. QED
  BY <1>1, <1>2, <1>3, <1>4, <1>5 DEF Admit

\* The pipeline works on an active row.
LEMMA SettledRun == IInv /\ TodoInv /\ RunTask => TodoInv' /\ SettledKept
<1> SUFFICES ASSUME IInv, TodoInv, RunTask PROVE TodoInv' /\ SettledKept
  OBVIOUS
<1>1. /\ cur \in Tasks /\ row[cur].status \in ACTIVE
      /\ pc \in {"drive", "prepare", "ready", "seed", "engine"}
  BY DEF RunTask, IInv, TypeOK, ProcessOK, SlotInv, Piped, DriveRefused, Drive, PrepareBranch, Ready,
     SeedRefused, Seed, EngineFinalize, EngineDone, EngineStops, EngineExhausted, EnginePark
<1> USE DEF IInv, TypeOK, DurableOK, TodoInv, Settled, StatusKept, RefusalsKept, FileKept,
      SettledKept, durable, ACTIVE, TERMINAL
<1>2. /\ UNCHANGED ledger
      /\ \A t \in Tasks : t # cur => row'[t] = row[t] /\ pend'[t] = pend[t]
  <2>1. CASE Drive \/ Ready
    BY <1>1, <2>1 DEF Drive, Ready, Transition, SetStatus, Set
  <2>2. CASE EngineFinalize
    BY <1>1, <2>2 DEF EngineFinalize, Relocate
  <2>3. CASE PrepareBranch \/ Seed \/ EnginePark
    BY <1>1, <2>3 DEF PrepareBranch, Seed, EnginePark, Set
  <2>4. CASE DriveRefused \/ SeedRefused \/ EngineDone \/ EngineStops \/ EngineExhausted
    BY <2>4 DEF DriveRefused, SeedRefused, EngineDone, EngineStops, EngineExhausted
  <2>5. QED
    BY <2>1, <2>2, <2>3, <2>4 DEF RunTask
<1>3. pc' \notin {"mstatus", "mrecord"}
  <2>1. CASE Drive \/ Ready
    BY <2>1 DEF Drive, Ready, Transition
  <2>2. CASE EngineFinalize \/ PrepareBranch \/ Seed \/ EnginePark
    BY <2>2 DEF EngineFinalize, PrepareBranch, Seed, EnginePark, Goto
  <2>3. CASE DriveRefused \/ SeedRefused \/ EngineDone \/ EngineStops \/ EngineExhausted
    BY <2>3 DEF DriveRefused, SeedRefused, EngineDone, EngineStops, EngineExhausted, Raise
  <2>4. QED
    BY <2>1, <2>2, <2>3 DEF RunTask
<1>4. QED
  BY <1>1, <1>2, <1>3

\* The epilogue: the row it settles is active, and a file leaves pending/ for done/
\* or failed/ only.
LEMMA SettledTerminal == IInv /\ TodoInv /\ GoTerminal => TodoInv' /\ SettledKept
<1> SUFFICES ASSUME IInv, TodoInv, GoTerminal PROVE TodoInv' /\ SettledKept
  OBVIOUS
<1>1. /\ cur \in Tasks
      /\ pc \in {"fail", "handler", "cleanup", "explain", "clear", "transition", "move", "append"}
      /\ pc \notin {"move", "append"} => row[cur].status \in ACTIVE
  BY DEF GoTerminal, IInv, TypeOK, ProcessOK, SlotInv, Piped, Fail, FailRaises, Cleanup, Explain,
     ClearCheckpoint, Settle, MoveTaskFile, AppendLedger
<1> USE DEF IInv, TypeOK, DurableOK, TodoInv, Settled, StatusKept, RefusalsKept, FileKept,
      SettledKept, durable, ACTIVE, TERMINAL
<1>2. \A t \in Tasks : t # cur => row'[t] = row[t] /\ pend'[t] = pend[t] /\ ledger'[t] = ledger[t]
  <2>1. CASE Settle
    BY <1>1, <2>1 DEF Settle, Transition, SetStatus, Set
  <2>2. ASSUME NEW safe \in BOOLEAN, Cleanup(safe)
        PROVE  \A t \in Tasks : t # cur => /\ row'[t] = row[t] /\ pend'[t] = pend[t]
                                           /\ ledger'[t] = ledger[t]
    BY <1>1, <2>2 DEF Cleanup, Set
  <2>3. CASE ClearCheckpoint \/ AppendLedger
    BY <1>1, <2>3 DEF ClearCheckpoint, AppendLedger, Set
  <2>4. CASE Fail \/ FailRaises \/ Explain \/ MoveTaskFile
    BY <1>1, <2>4 DEF Fail, FailRaises, Explain, MoveTaskFile, Relocate
  <2>5. QED
    BY <2>1, <2>2, <2>3, <2>4 DEF GoTerminal
<1>3. pc' \notin {"mstatus", "mrecord"}
  <2>1. CASE Settle
    BY <2>1 DEF Settle, Transition
  <2>2. ASSUME NEW safe \in BOOLEAN, Cleanup(safe)
        PROVE  pc' \notin {"mstatus", "mrecord"}
    BY <2>2 DEF Cleanup
  <2>3. CASE ClearCheckpoint \/ AppendLedger
    BY <2>3 DEF ClearCheckpoint, AppendLedger, Goto, AfterTask
  <2>4. CASE Fail \/ FailRaises \/ Explain \/ MoveTaskFile
    BY <2>4 DEF Fail, FailRaises, Explain, MoveTaskFile, Goto
  <2>5. QED
    BY <2>1, <2>2, <2>3, <2>4 DEF GoTerminal
<1>4. CASE pc \in {"move", "append"}
  <2>1. UNCHANGED row
    BY <1>4 DEF GoTerminal, Fail, FailRaises, Cleanup, Explain, ClearCheckpoint, Settle, MoveTaskFile,
       AppendLedger
  <2>2. ledger'[cur].reject = ledger[cur].reject
    BY <1>1, <1>4 DEF GoTerminal, Fail, FailRaises, Cleanup, Explain, ClearCheckpoint, Settle,
       MoveTaskFile, AppendLedger, Run, Entries
  <2>3. UNCHANGED <<pend, filed>> \/ pend'[cur] = pend[cur] \/ filed'[cur]
    BY <1>1, <1>4 DEF GoTerminal, Fail, FailRaises, Cleanup, Explain, ClearCheckpoint, Settle,
       MoveTaskFile, AppendLedger, Relocate
  <2>4. QED
    BY <1>2, <1>3, <2>1, <2>2, <2>3
<1>5. QED
  BY <1>1, <1>2, <1>3, <1>4

\* The clock, finalize's two writes, and what the operator begins while no executor
\* is running.
LEMMA SettledOperator ==
  IInv /\ TodoInv /\ (FinalizeStatus \/ FinalizeRecord \/ WindowOpens \/ Operator)
    => TodoInv' /\ SettledKept
<1> SUFFICES ASSUME IInv, TodoInv, FinalizeStatus \/ FinalizeRecord \/ WindowOpens \/ Operator
             PROVE  TodoInv' /\ SettledKept
  OBVIOUS
<1> USE DEF IInv, TypeOK, DurableOK, ProcessOK, TodoInv, Settled, StatusKept, RefusalsKept, FileKept,
      SettledKept, durable, ACTIVE, TERMINAL
<1>1. CASE FinalizeStatus
  BY <1>1 DEF FinalizeStatus, SetStatus, Set, Goto
<1>2. CASE FinalizeRecord
  BY <1>2 DEF FinalizeRecord, Relocate, Exits
<1>3. CASE WindowOpens
  <2>1. PICK t \in Tasks : /\ row[t].blocked = "until" /\ Set(t, [row[t] EXCEPT !.blocked = "since"])
                           /\ UNCHANGED <<pend, filed, ledger, process>>
    BY <1>3 DEF WindowOpens
  <2>2. row[t] \in Rows
    OBVIOUS
  <2>3. \A u \in Tasks : row'[u].status = row[u].status
    BY <2>1, <2>2 DEF Set, Rows
  <2>4. QED
    BY <2>1, <2>3 DEF process
<1>4. CASE \E t \in Tasks : Rerun(t) \/ Continue(t) \/ Finalize(t)
  BY <1>4 DEF Rerun, Continue, Finalize, cmd_finalize, plan_finalize, RerunAllowed
<1>5. CASE Submit
  BY <1>5 DEF Submit, process
<1>6. QED
  BY <1>1, <1>2, <1>3, <1>4, <1>5 DEF Operator

-----------------------------------------------------------------------------
(* Together. *)

\* The invariant holds when no executor has run yet.
LEMMA Initially == Init => IInv
  BY LifecycleAssumption DEF Init, NoRow, Rows, Entries, IInv, TypeOK, DurableOK, ProcessOK, BoundsOK,
     HistoryOK, PCs, Statuses, TERMINAL, ACTIVE, SlotInv, StageInv, NodeInv, CleanInv, RecordInv,
     AtMostOneActive, NoInvalidTransition, NoDoubleRecord, Records, Piped

\* Every step keeps it, and makes a task done only over a clean tree.
LEMMA Inductive == IInv /\ [Next]_vars => IInv' /\ [CleanDone]_vars
<1>1. ASSUME IInv, UNCHANGED vars PROVE IInv'
  BY <1>1 DEF vars, durable, process, bounds, history, IInv, TypeOK, DurableOK, ProcessOK,
     BoundsOK, HistoryOK, SlotInv, StageInv, NodeInv, CleanInv, RecordInv, AtMostOneActive,
     NoInvalidTransition, NoDoubleRecord, Records
<1>2. ASSUME IInv, Next PROVE IInv' /\ CleanDone
  BY <1>2, ProcessStep, ResumeStep, AdmitStep, RunStep, TerminalStep, OperatorStep DEF Next, Step
<1>3. QED
  BY <1>1, <1>2

\* So it holds throughout every behaviour.
LEMMA Always == Spec => []IInv /\ [][CleanDone]_vars
  BY Initially, Inductive, PTL DEF Spec

\* The rows, files, records and the executor's registers stay within their types.
THEOREM LifecycleTypes == Spec => []TypeOK
<1>1. IInv => TypeOK
  BY DEF IInv
<1>2. QED
  BY <1>1, Always, PTL

\* The single slot: for any number of tasks, crashes and commands, at most one row
\* is in an active status (acquire_slot, the recovery, rerun).
THEOREM SingleSlot == Spec => []AtMostOneActive
<1>1. IInv => AtMostOneActive
  BY DEF IInv, SlotInv
<1>2. QED
  BY <1>1, Always, PTL

\* assert_transition never raises InvalidTransition.
THEOREM TransitionsLegal == Spec => []NoInvalidTransition
<1>1. IInv => NoInvalidTransition
  BY DEF IInv, StageInv
<1>2. QED
  BY <1>1, Always, PTL

\* No terminal transition is recorded twice in the ledger.
THEOREM RecordsOnce == Spec => []NoDoubleRecord
<1>1. IInv => NoDoubleRecord
  BY DEF IInv, RecordInv
<1>2. QED
  BY <1>1, Always, PTL

\* A task becomes done only over a cleaned working tree.
THEOREM DoneIsClean == Spec => DoneNeedsCleanTree
  BY Always, PTL DEF DoneNeedsCleanTree, CleanDone

\* The recovery's list stays a list of active rows, and a settled task is left alone.
LEMMA SettledInductive == IInv /\ TodoInv /\ [Next]_vars => TodoInv' /\ [SettledKept]_vars
<1>1. ASSUME TodoInv, UNCHANGED vars PROVE TodoInv'
  BY <1>1 DEF vars, durable, process, TodoInv
<1>2. ASSUME IInv, TodoInv, Next PROVE TodoInv' /\ SettledKept
  BY <1>2, SettledProcess, SettledResume, SettledAdmit, SettledRun, SettledTerminal, SettledOperator
     DEF Next, Step
<1>3. QED
  BY <1>1, <1>2

\* Until the operator takes it up again, a settled task keeps its status, gets no
\* refusal record and its own file is not quarantined (settled_own_file, the
\* duplicate-id gate, _reject), however many tasks, crashes and files there are.
THEOREM SettledTheorem == Spec => SettledStays
<1>1. Init => TodoInv
  BY DEF Init, TodoInv
<1>2. SettledKept => \A t \in Tasks :
        row[t].status \in TERMINAL /\ pc # "down" /\ ~(cur = t /\ via = "rerun")
                                  /\ ~(cur = t /\ pc \in {"fstatus", "frecord"})
          => /\ row'[t].status = row[t].status
             /\ ledger'[t].reject = ledger[t].reject
             /\ pend[t] = "own" /\ pend'[t] = "none" => filed'[t]
  BY DEF SettledKept, StatusKept, RefusalsKept, FileKept, Settled
<1>3. QED
  BY <1>1, <1>2, Always, SettledInductive, PTL DEF Spec, SettledStays
=============================================================================
