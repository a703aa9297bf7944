------------------------ MODULE ExecutorClaimProofs ------------------------
(***************************************************************************)
(* For any number of commands and of crashes, on either platform: types,   *)
(* and that starts which nothing races leave one process to drive the      *)
(* clone.  The second rests on what a marker says of its holder, on what   *)
(* a starting command has already ruled out, and on what a stop that is    *)
(* about to drop a marker knows of the daemon it names.  The third, that a *)
(* daemon leaves no agent behind, rests on where the handle of its last    *)
(* agent is from the launch to the kill.                                   *)
(*                                                                         *)
(* And for any plans, reviews, budgets, crashes and reruns of a split      *)
(* task: SplitSafe and CloseSafe of CloseOut, from an invariant that ties  *)
(* the tables, the index, the branch and the memory of the process to      *)
(* where it is.                                                            *)
(***************************************************************************)
EXTENDS ExecutorClaim, CloseOut, WellFoundedInduction, FiniteSetTheorems, TLAPS

\* A process between its claim and the removal of its marker.
Holding(p) ==
  pc[p] \in {"work", "clear_stop", "clear_children", "poll", "tick", "record", "running",
             "reaped", "reap", "kill_handle", "clear_handle", "unlink"}

\* An agent is recorded after it was launched.
Launched ==
  \A w \in Watchers : pc[w] \in {"record", "running", "reaped"} => spawned[w] >= 1

\* Every process that holds the clone is named by its marker.
MarkerNames ==
  \A p \in Executors : Holding(p) => holder[Kind(p)] = p /\ full[Kind(p)]

\* The file a process is about to write its line to is the one it created.
WriterOwns == \A p \in Executors : pc[p] = "write" => holder[Kind(p)] = p

OneHolds == \A p, q \in Executors : Holding(p) /\ Holding(q) => p = q

\* What a starting command has ruled out stays ruled out.
ChecksHold ==
  \A p \in Executors :
    /\ Starting(p) /\ pc[p] # "check_daemon" => \A w \in Watchers : ~Holding(w)
    /\ Starting(p) /\ pc[p] \notin {"check_daemon", "check_runner"} =>
         \A q \in Executors : ~Holding(q)

\* A stop at work knows the only daemon that can be holding the clone,
StopAims ==
  \A s \in Stoppers : is_running(s) /\ target[s] # Nobody =>
    \A w \in Watchers : Holding(w) => w = target[s]

\* and drops the marker of a daemon that it has read and that is gone.
StopSure ==
  \A s \in Stoppers :
    /\ pc[s] \in {"idle", "read"} => target[s] = Nobody
    /\ pc[s] \in {"probe_pid", "write_stop", "signal", "wait", "read_child", "kill", "kill_child",
                  "reap_pid"} => target[s] # Nobody
    /\ pc[s] \in {"kill_child", "reap_pid"} => ~is_running(target[s])
    /\ pc[s] = "read_child" /\ platform = "nt" => ~is_running(target[s])
    /\ pc[s] = "probe_pid" => level[s] = "soft"
    /\ pc[s] = "write_stop" /\ level[s] = "full" => platform = "posix"

Serial ==
  ~Racing /\ MarkerNames /\ WriterOwns /\ OneHolds /\ ChecksHold /\ StopAims /\ StopSure

IInv == TypeOK /\ Launched /\ (raced \/ Serial)

-----------------------------------------------------------------------------
\* The first state.
LEMMA InitInv == Init => IInv
<1> SUFFICES ASSUME Init PROVE IInv
  OBVIOUS
<1>1. TypeOK /\ Launched
  <2>1. ControlOK
    <3>1. "idle" \in PCs /\ 0 \in 0 .. MaxFaults
      BY BoundsAssumption DEF PCs
    <3>2. QED
      BY <3>1 DEF Init, ControlOK
  <2>2. FilesOK
    BY DEF Init, FilesOK, Handles
  <2>3. AgentsOK
    BY BoundsAssumption DEF Init, AgentsOK, Handles
  <2>4. StopsOK /\ Launched
    BY DEF Init, StopsOK, Launched, Procs, Executors
  <2>5. QED
    BY <2>1, <2>2, <2>3, <2>4 DEF TypeOK
<1>2. Serial
  BY DEF Init, Serial, Racing, Starting, MarkerNames, WriterOwns, OneHolds, ChecksHold, StopAims,
     StopSure, Holding, is_running, Procs, Executors
<1>3. QED
  BY <1>1, <1>2 DEF IInv

\* Types, while a command starts and when its marker goes.
LEMMA ClaimTypes ==
  ASSUME TypeOK, Launched, NEW p \in Executors,
         Start(p) \/ CheckDaemon(p) \/ CheckRunner(p) \/ Build(p)
         \/ CreateExclusively(p) \/ WritePayload(p) \/ ProbeHolder(p) \/ ReplaceAtomically(p)
         \/ Unlink(p)
  PROVE  TypeOK' /\ Launched'
<1> USE ProcsAssumption, BoundsAssumption DEF TypeOK, ControlOK, FilesOK, AgentsOK, StopsOK, Launched, Handles, PCs, Over, Handled, Procs,
      Executors, Goto, Moves, Kind, files, daemon, stops
<1>1. CASE Start(p)
  BY <1>1 DEF Start
<1>2. CASE CheckDaemon(p)
  BY <1>2 DEF CheckDaemon
<1>3. CASE CheckRunner(p)
  BY <1>3 DEF CheckRunner
<1>4. CASE Build(p)
  BY <1>4 DEF Build
<1>5. CASE CreateExclusively(p)
  <2>1. CASE holder[Kind(p)] = Nobody
    BY <1>5, <2>1 DEF CreateExclusively
  <2>2. CASE holder[Kind(p)] # Nobody
    BY <1>5, <2>2 DEF CreateExclusively
  <2>3. QED
    BY <2>1, <2>2
<1>6. CASE WritePayload(p)
  BY <1>6 DEF WritePayload, Claimed
<1>7. CASE ProbeHolder(p)
  BY <1>7 DEF ProbeHolder
<1>8. CASE ReplaceAtomically(p)
  BY <1>8 DEF ReplaceAtomically, Claimed
<1>9. CASE Unlink(p)
  BY <1>9 DEF Unlink
<1>10. QED
  BY <1>1, <1>2, <1>3, <1>4, <1>5, <1>6, <1>7, <1>8, <1>9

\* Types, in the daemon's loop and its cleanup.
LEMMA LoopTypes ==
  ASSUME TypeOK, Launched, NEW w \in Watchers,
         ClearStop(w) \/ ClearChildren(w) \/ Poll(w) \/ EndTick(w)
         \/ Spawn(w) \/ OnSpawn(w) \/ AgentEnds(w) \/ AgentSurvives(w)
         \/ OnReap(w) \/ ReadHandle(w) \/ KillHandle(w) \/ ClearHandle(w)
         \/ UnlinkStop(w) \/ Interrupt(w)
  PROVE  TypeOK' /\ Launched'
<1> USE ProcsAssumption, BoundsAssumption DEF TypeOK, ControlOK, FilesOK, AgentsOK, StopsOK, Launched, Handles, PCs, Over, Handled, Procs,
      Executors, Goto, Moves, Kind, files, daemon, stops
<1>1. CASE ClearStop(w)
  BY <1>1 DEF ClearStop
<1>2. CASE ClearChildren(w)
  BY <1>2 DEF ClearChildren
<1>3. CASE Poll(w)
  BY <1>3 DEF Poll
<1>4. CASE EndTick(w)
  BY <1>4 DEF EndTick
<1>5. CASE Spawn(w)
  BY <1>5 DEF Spawn
<1>6. CASE OnSpawn(w)
  BY <1>6 DEF OnSpawn
<1>7. CASE AgentEnds(w)
  BY <1>7 DEF AgentEnds
<1>8. CASE AgentSurvives(w)
  BY <1>8 DEF AgentSurvives
<1>9. CASE OnReap(w)
  BY <1>9 DEF OnReap
<1>10. CASE ReadHandle(w)
  BY <1>10 DEF ReadHandle
<1>11. CASE KillHandle(w)
  BY <1>11 DEF KillHandle
<1>12. CASE ClearHandle(w)
  BY <1>12 DEF ClearHandle
<1>13. CASE UnlinkStop(w)
  BY <1>13 DEF UnlinkStop
<1>14. CASE Interrupt(w)
  BY <1>14 DEF Interrupt
<1>15. QED
  BY <1>1, <1>2, <1>3, <1>4, <1>5, <1>6, <1>7, <1>8, <1>9, <1>10, <1>11, <1>12, <1>13, <1>14

\* Types, while a stop is at work.
LEMMA StopTypes ==
  ASSUME TypeOK, Launched, NEW s \in Stoppers,
         ReadPid(s) \/ ProbePid(s) \/ WriteStop(s) \/ Signal(s)
         \/ Confirm(s) \/ TimesOut(s) \/ ReadChild(s) \/ Kill(s)
         \/ KillChild(s) \/ ReapPid(s) \/ ReapStop(s) \/ ReapChildren(s)
  PROVE  TypeOK' /\ Launched'
<1> USE ProcsAssumption, BoundsAssumption DEF TypeOK, ControlOK, FilesOK, AgentsOK, StopsOK, Launched, Handles, PCs, Over, Handled, Procs,
      Executors, Goto, Moves, Kind, files, daemon, stops
<1>1. CASE ReadPid(s)
  BY <1>1 DEF ReadPid, Path, read_pid_record
<1>2. CASE ProbePid(s)
  BY <1>2 DEF ProbePid
<1>3. CASE WriteStop(s)
  BY <1>3 DEF WriteStop
<1>4. CASE Signal(s)
  BY <1>4 DEF Signal
<1>5. CASE Confirm(s)
  <2>1. \E to \in {"reap_pid", "reap_stop"} : Goto(s, to)
    BY <1>5 DEF Confirm
  <2>2. QED
    BY <1>5, <2>1 DEF Confirm
<1>6. CASE TimesOut(s)
  BY <1>6 DEF TimesOut
<1>7. CASE ReadChild(s)
  BY <1>7 DEF ReadChild
<1>8. CASE Kill(s)
  BY <1>8 DEF Kill, AgentsWithout
<1>9. CASE KillChild(s)
  BY <1>9 DEF KillChild
<1>10. CASE ReapPid(s)
  BY <1>10 DEF ReapPid
<1>11. CASE ReapStop(s)
  BY <1>11 DEF ReapStop
<1>12. CASE ReapChildren(s)
  BY <1>12 DEF ReapChildren
<1>13. QED
  BY <1>1, <1>2, <1>3, <1>4, <1>5, <1>6, <1>7, <1>8, <1>9, <1>10, <1>11, <1>12

\* One holder, while a command starts and when its marker goes: a command that reads a
\* marker meets its holder there, and one that passed the checks meets nobody.
LEMMA ClaimSerial ==
  ASSUME TypeOK, Serial, ~Racing', NEW p \in Executors,
         Start(p) \/ CheckDaemon(p) \/ CheckRunner(p) \/ Build(p)
         \/ CreateExclusively(p) \/ WritePayload(p) \/ ProbeHolder(p) \/ ReplaceAtomically(p)
         \/ Unlink(p)
  PROVE  Serial'
<1> USE ProcsAssumption, BoundsAssumption DEF Serial, Racing, Starting, MarkerNames, WriterOwns, OneHolds, ChecksHold, StopAims, StopSure,
      Holding, is_running, ControlOK, FilesOK, StopsOK, PCs, Over, Procs, Executors, Goto, Moves, Kind, files,
      daemon, stops
<1> ControlOK /\ FilesOK /\ StopsOK
  BY DEF TypeOK
<1>1. CASE Start(p)
  BY <1>1 DEF Start
<1>2. CASE CheckDaemon(p)
  <2>1. pc'[p] = "check_runner" => \A q \in Watchers : ~Holding(q)
    BY <1>2 DEF CheckDaemon, running_daemon_pid, read_pid_record
  <2>2. pc'[p] \in {"check_runner", "refused"} /\ pc' = [pc EXCEPT ![p] = pc'[p]]
    BY <1>2 DEF CheckDaemon
  <2>3. UNCHANGED <<platform, holder, full, target, level>> /\ pc[p] = "check_daemon"
    BY <1>2 DEF CheckDaemon
  <2>4. MarkerNames' /\ WriterOwns' /\ OneHolds'
    BY <2>2, <2>3
  <2>5. ChecksHold'
    BY <2>1, <2>2, <2>3
  <2>6. StopAims' /\ StopSure'
    BY <2>2, <2>3
  <2>7. QED
    BY <2>4, <2>5, <2>6
<1>3. CASE CheckRunner(p)
  <2>1. pc'[p] = "build" => \A q \in Executors : ~Holding(q)
    BY <1>3 DEF CheckRunner, running_daemon_pid, read_pid_record
  <2>2. pc'[p] \in {"build", "refused"} /\ pc' = [pc EXCEPT ![p] = pc'[p]]
    BY <1>3 DEF CheckRunner
  <2>3. UNCHANGED <<platform, holder, full, target, level>> /\ pc[p] = "check_runner"
    BY <1>3 DEF CheckRunner
  <2>4. MarkerNames' /\ WriterOwns' /\ OneHolds'
    BY <2>2, <2>3
  <2>5. ChecksHold'
    BY <2>1, <2>2, <2>3
  <2>6. StopAims' /\ StopSure'
    BY <2>2, <2>3
  <2>7. QED
    BY <2>4, <2>5, <2>6
<1>4. CASE Build(p)
  BY <1>4 DEF Build
<1>5. CASE CreateExclusively(p)
  BY <1>5 DEF CreateExclusively
<1>6. CASE WritePayload(p)
  <2>1. holder[Kind(p)] = p /\ full'[Kind(p)] /\ ~Starting(p)'
    BY <1>6 DEF WritePayload, Claimed
  <2>2. \A q \in Executors \ {p} : ~Holding(q)' /\ ~Starting(q)'
    BY <1>6 DEF WritePayload, Claimed
  <2>3. \A r \in Stoppers : ~is_running(r) /\ pc'[r] = pc[r]
    BY <1>6 DEF WritePayload, Claimed
  <2>4. MarkerNames' /\ WriterOwns' /\ OneHolds' /\ ChecksHold'
    BY <1>6, <2>1, <2>2 DEF WritePayload
  <2>5. StopAims' /\ StopSure'
    BY <1>6, <2>3 DEF WritePayload
  <2>6. QED
    BY <2>4, <2>5
<1>7. CASE ProbeHolder(p)
  BY <1>7 DEF ProbeHolder
<1>8. CASE ReplaceAtomically(p)
  BY <1>8 DEF ReplaceAtomically, Claimed
<1>9. CASE Unlink(p)
  BY <1>9 DEF Unlink
<1>10. QED
  BY <1>1, <1>2, <1>3, <1>4, <1>5, <1>6, <1>7, <1>8, <1>9

\* One holder, in the daemon's loop and its cleanup, where no marker is touched.
LEMMA LoopSerial ==
  ASSUME TypeOK, Serial, ~Racing', NEW w \in Watchers,
         ClearStop(w) \/ ClearChildren(w) \/ Poll(w) \/ EndTick(w)
         \/ Spawn(w) \/ OnSpawn(w) \/ AgentEnds(w) \/ AgentSurvives(w)
         \/ OnReap(w) \/ ReadHandle(w) \/ KillHandle(w) \/ ClearHandle(w)
         \/ UnlinkStop(w) \/ Interrupt(w)
  PROVE  Serial'
<1> USE ProcsAssumption, BoundsAssumption DEF Serial, Racing, Starting, MarkerNames, WriterOwns, OneHolds, ChecksHold, StopAims, StopSure,
      Holding, is_running, ControlOK, FilesOK, StopsOK, PCs, Over, Procs, Executors, Goto, Moves, Kind, files,
      daemon, stops
<1> ControlOK /\ FilesOK /\ StopsOK
  BY DEF TypeOK
<1>1. CASE ClearStop(w)
  BY <1>1 DEF ClearStop
<1>2. CASE ClearChildren(w)
  BY <1>2 DEF ClearChildren
<1>3. CASE Poll(w)
  BY <1>3 DEF Poll, stop_requested
<1>4. CASE EndTick(w)
  BY <1>4 DEF EndTick
<1>5. CASE Spawn(w)
  BY <1>5 DEF Spawn
<1>6. CASE OnSpawn(w)
  BY <1>6 DEF OnSpawn
<1>7. CASE AgentEnds(w)
  BY <1>7 DEF AgentEnds
<1>8. CASE AgentSurvives(w)
  BY <1>8 DEF AgentSurvives
<1>9. CASE OnReap(w)
  BY <1>9 DEF OnReap
<1>10. CASE ReadHandle(w)
  BY <1>10 DEF ReadHandle
<1>11. CASE KillHandle(w)
  BY <1>11 DEF KillHandle
<1>12. CASE ClearHandle(w)
  BY <1>12 DEF ClearHandle
<1>13. CASE UnlinkStop(w)
  BY <1>13 DEF UnlinkStop
<1>14. CASE Interrupt(w)
  BY <1>14 DEF Interrupt
<1>15. QED
  BY <1>1, <1>2, <1>3, <1>4, <1>5, <1>6, <1>7, <1>8, <1>9, <1>10, <1>11, <1>12, <1>13, <1>14

\* One holder, while a stop is at work: the marker it drops names the daemon it saw gone.
LEMMA StopSerial ==
  ASSUME TypeOK, Serial, ~Racing', NEW s \in Stoppers,
         ReadPid(s) \/ ProbePid(s) \/ WriteStop(s) \/ Signal(s)
         \/ Confirm(s) \/ TimesOut(s) \/ ReadChild(s) \/ Kill(s)
         \/ KillChild(s) \/ ReapPid(s) \/ ReapStop(s) \/ ReapChildren(s)
  PROVE  Serial'
<1> USE ProcsAssumption, BoundsAssumption DEF Serial, Racing, Starting, MarkerNames, WriterOwns, OneHolds, ChecksHold, StopAims, StopSure,
      Holding, is_running, ControlOK, FilesOK, StopsOK, PCs, Over, Procs, Executors, Goto, Moves, Kind, files,
      daemon, stops
<1> ControlOK /\ FilesOK /\ StopsOK
  BY DEF TypeOK
<1>1. CASE ReadPid(s)
  BY <1>1 DEF ReadPid, Path, read_pid_record
<1>2. CASE ProbePid(s)
  BY <1>2 DEF ProbePid
<1>3. CASE WriteStop(s)
  BY <1>3 DEF WriteStop
<1>4. CASE Signal(s)
  <2>1. pc[s] = "signal" /\ target[s] \in Watchers
    <3>1. pc[s] = "signal"
      BY <1>4 DEF Signal
    <3>2. QED
      BY <3>1
  <2>2. /\ \A p \in Procs \ {s} : pc'[p] = pc[p] \/ (p = target[s] /\ is_running(p) /\ pc'[p] \in Over)
        /\ pc'[s] = IF is_running(target[s]) THEN "wait" ELSE "reap_pid"
        /\ s # target[s]
    <3>1. s # target[s] /\ s \in Procs /\ target[s] \in Procs
      BY <2>1
    <3>2. pc' = [pc EXCEPT ![s] = IF is_running(target[s]) THEN "wait" ELSE "reap_pid",
                 ![target[s]] = IF is_running(target[s]) /\ pc[target[s]] \notin Handled
                                THEN "terminated" ELSE pc[target[s]]]
      BY <1>4, <3>1 DEF Signal
    <3>3. QED
      BY <3>1, <3>2
  <2>3. UNCHANGED <<platform, holder, full, target, level>>
    BY <1>4 DEF Signal
  <2>4. MarkerNames' /\ WriterOwns' /\ OneHolds' /\ ChecksHold'
    BY <2>2, <2>3
  <2>5. StopAims'
    BY <2>1, <2>2, <2>3
  <2>6. StopSure'
    BY <2>1, <2>2, <2>3
  <2>7. QED
    BY <2>4, <2>5, <2>6
<1>5. CASE Confirm(s)
  BY <1>5 DEF Confirm
<1>6. CASE TimesOut(s)
  BY <1>6 DEF TimesOut
<1>7. CASE ReadChild(s)
  BY <1>7 DEF ReadChild
<1>8. CASE Kill(s)
  <2>1. target[s] # Nobody /\ target[s] \in Watchers
    BY <1>8 DEF Kill
  <2>2. \A p \in Procs \ {s} : pc'[p] = pc[p] \/ (p = target[s] /\ is_running(p) /\ pc'[p] \in Over)
    BY <1>8, <2>1 DEF Kill, AgentsWithout
  <2>3. UNCHANGED <<platform, holder, full, target, level>>
    BY <1>8 DEF Kill
  <2>4. MarkerNames' /\ WriterOwns' /\ OneHolds' /\ ChecksHold'
    BY <2>2, <2>3
  <2>5. StopAims' /\ StopSure'
    BY <1>8, <2>1, <2>2, <2>3 DEF Kill
  <2>6. QED
    BY <2>4, <2>5
<1>9. CASE KillChild(s)
  BY <1>9 DEF KillChild
<1>10. CASE ReapPid(s)
  BY <1>10 DEF ReapPid
<1>11. CASE ReapStop(s)
  BY <1>11 DEF ReapStop
<1>12. CASE ReapChildren(s)
  BY <1>12 DEF ReapChildren
<1>13. QED
  BY <1>1, <1>2, <1>3, <1>4, <1>5, <1>6, <1>7, <1>8, <1>9, <1>10, <1>11, <1>12

\* A run that ends, a stop that is asked for and a process that dies keep the types
LEMMA OtherTypes ==
  ASSUME TypeOK, Launched,
         \/ \E r \in Runners : EndRun(r)
         \/ \E s \in Stoppers : \E l \in {"soft", "full"} : Ask(s, l)
         \/ \E p \in Procs : Crash(p)
  PROVE  TypeOK' /\ Launched'
<1> USE ProcsAssumption, BoundsAssumption DEF TypeOK, ControlOK, FilesOK, AgentsOK, StopsOK, Launched, Handles, PCs, Over, Handled, Procs,
      Executors, Goto, Moves, Kind, files, daemon, stops
<1>1. CASE \E r \in Runners : EndRun(r)
  BY <1>1 DEF EndRun
<1>2. CASE \E s \in Stoppers : \E l \in {"soft", "full"} : Ask(s, l)
  BY <1>2 DEF Ask
<1>3. CASE \E p \in Procs : Crash(p)
  BY <1>3 DEF Crash, AgentsWithout
<1>4. QED
  BY <1>1, <1>2, <1>3

\* and one holder.
LEMMA OtherSerial ==
  ASSUME TypeOK, Serial, ~Racing',
         \/ \E r \in Runners : EndRun(r)
         \/ \E s \in Stoppers : \E l \in {"soft", "full"} : Ask(s, l)
         \/ \E p \in Procs : Crash(p)
  PROVE  Serial'
<1> USE ProcsAssumption, BoundsAssumption DEF Serial, Racing, Starting, MarkerNames, WriterOwns, OneHolds, ChecksHold, StopAims, StopSure,
      Holding, is_running, ControlOK, FilesOK, StopsOK, PCs, Over, Procs, Executors, Goto, Moves, Kind, files,
      daemon, stops
<1> ControlOK /\ FilesOK /\ StopsOK
  BY DEF TypeOK
<1>1. CASE \E r \in Runners : EndRun(r)
  BY <1>1 DEF EndRun
<1>2. CASE \E s \in Stoppers : \E l \in {"soft", "full"} : Ask(s, l)
  BY <1>2 DEF Ask
<1>3. CASE \E p \in Procs : Crash(p)
  BY <1>3 DEF Crash
<1>4. QED
  BY <1>1, <1>2, <1>3

-----------------------------------------------------------------------------
\* Every step records whether commands are racing.
LEMMA RaceSeen == Next => raced' = (raced \/ Racing')
  BY DEF Next, Claims, Loops, StopSteps, Start, CheckDaemon, CheckRunner, Build, CreateExclusively,
     WritePayload, ProbeHolder, ReplaceAtomically, Unlink, EndRun, ClearStop, ClearChildren, Poll,
     EndTick, Spawn, OnSpawn, AgentEnds, AgentSurvives, OnReap, ReadHandle, KillHandle, ClearHandle,
     UnlinkStop, Interrupt, Ask, ReadPid, ProbePid, WriteStop, Signal, Confirm, TimesOut, ReadChild,
     Kill, KillChild, ReapPid, ReapStop, ReapChildren, Crash, Goto, Moves

\* The induction step.
LEMMA NextInv == IInv /\ [Next]_vars => IInv'
<1> SUFFICES ASSUME IInv, [Next]_vars PROVE IInv'
  OBVIOUS
<1>1. CASE UNCHANGED vars
  BY <1>1 DEF IInv, TypeOK, ControlOK, FilesOK, AgentsOK, StopsOK, Launched, Serial, Racing, Starting,
     MarkerNames, WriterOwns, OneHolds, ChecksHold, StopAims, StopSure, Holding, is_running, vars,
     files, daemon, stops
<1>2. CASE Next
  <2>1. TypeOK' /\ Launched'
    BY <1>2, ClaimTypes, LoopTypes, StopTypes, OtherTypes DEF IInv, Next, Claims, Loops, StopSteps
  <2>2. ASSUME ~raced' PROVE Serial'
    <3>1. TypeOK /\ Serial /\ ~Racing'
      BY <1>2, <2>2, RaceSeen DEF IInv, TypeOK, ControlOK
    <3>2. QED
      BY <1>2, <3>1, ClaimSerial, LoopSerial, StopSerial, OtherSerial DEF Next, Claims, Loops, StopSteps
  <2>3. QED
    BY <2>1, <2>2 DEF IInv
<1>3. QED
  BY <1>1, <1>2

\* At every moment each process, file, agent and stop is what it can be.
THEOREM Types == Spec => []TypeOK
<1>1. IInv => TypeOK
  BY DEF IInv
<1>2. QED
  BY InitInv, NextInv, <1>1, PTL DEF Spec

\* However many commands there are and wherever they die: if none was started beside
\* another start or a stop at work, at most one process drives the clone.
THEOREM Exclusion == Spec => []SerialExclusion
<1>1. IInv => SerialExclusion
  BY DEF IInv, Serial, OneHolds, Holding, SerialExclusion, Drives
<1>2. QED
  BY InitInv, NextInv, <1>1, PTL DEF Spec

\* Both of the above, as the run checks them.
THEOREM Claim == Spec => []ClaimSafe
  BY Types, Exclusion, PTL DEF ClaimSafe

-----------------------------------------------------------------------------
(* The agents a daemon leaves. *)

Last(w) == <<w, spawned[w]>>

\* An agent whose barrier did not fail is its daemon's last, and the daemon is
\* beside it, or was killed there.
Attended ==
  \A w \in Watchers, n \in 1 .. MaxAgents :
    <<w, n>> \in agents \ unproven => n = spawned[w] /\ pc[w] \in {"record", "running", "dead"}

\* A daemon that has not polled yet has launched nothing.
Fresh ==
  \A w \in Watchers :
    pc[w] = "idle" \/ Starting(w) \/ pc[w] \in {"clear_stop", "clear_children"} => spawned[w] = 0

\* The last agent is named by the file from its record until the cleanup has
\* read it, then by what the cleanup read, and then it is gone.
HandleKept ==
  \A w \in Watchers :
    /\ pc[w] = "running" => children = Last(w)
    /\ pc[w] \in {"poll", "tick", "reap"} /\ Last(w) \in agents => children = Last(w)
    /\ pc[w] = "kill_handle" /\ Last(w) \in agents => handle[w] = Last(w)
    /\ pc[w] \in {"reaped", "clear_handle", "unlink", "unlink_stop", "done"} => Last(w) \notin agents

\* A stop drops that file only where no daemon is left to need it.
StopSpares ==
  \A s \in Stoppers :
    /\ pc[s] \in {"signal", "wait"} => level[s] = "soft"
    /\ is_running(s) /\ pc[s] # "read" /\ target[s] = Nobody => \A w \in Watchers : ~Holding(w)
    /\ pc[s] \in {"reap_stop", "reap_children"} /\ level[s] = "full" /\ target[s] # Nobody
         => ~is_running(target[s])
    /\ pc[s] = "reap_children" => level[s] = "full" \/ target[s] = Nobody

Cared == Attended /\ Fresh /\ (raced \/ (HandleKept /\ StopSpares))

\* An agent stays attended, and a daemon fresh until it polls: while a command starts,
LEMMA ClaimLeft ==
  ASSUME TypeOK, Attended, Fresh, NEW p \in Executors,
         Start(p) \/ CheckDaemon(p) \/ CheckRunner(p) \/ Build(p)
         \/ CreateExclusively(p) \/ WritePayload(p) \/ ProbeHolder(p)
         \/ ReplaceAtomically(p) \/ Unlink(p)
  PROVE  Attended' /\ Fresh'
<1> USE ProcsAssumption, BoundsAssumption DEF Attended, Fresh, Starting, TypeOK, ControlOK, AgentsOK, StopsOK, Procs, Executors,
      Goto, Moves, Kind, files, daemon, stops
<1>1. CASE Start(p)
  BY <1>1 DEF Start
<1>2. CASE CheckDaemon(p)
  BY <1>2 DEF CheckDaemon
<1>3. CASE CheckRunner(p)
  BY <1>3 DEF CheckRunner
<1>4. CASE Build(p)
  BY <1>4 DEF Build
<1>5. CASE CreateExclusively(p)
  BY <1>5 DEF CreateExclusively
<1>6. CASE WritePayload(p)
  BY <1>6 DEF WritePayload, Claimed
<1>7. CASE ProbeHolder(p)
  BY <1>7 DEF ProbeHolder
<1>8. CASE ReplaceAtomically(p)
  BY <1>8 DEF ReplaceAtomically, Claimed
<1>9. CASE Unlink(p)
  BY <1>9 DEF Unlink
<1>10. QED
  BY <1>1, <1>2, <1>3, <1>4, <1>5, <1>6, <1>7, <1>8, <1>9

\* in the daemon's own loop,
LEMMA LoopLeft ==
  ASSUME TypeOK, Attended, Fresh, NEW w \in Watchers,
         ClearStop(w) \/ ClearChildren(w) \/ Poll(w) \/ EndTick(w) \/ Spawn(w)
         \/ OnSpawn(w) \/ AgentEnds(w) \/ AgentSurvives(w) \/ OnReap(w)
         \/ ReadHandle(w) \/ KillHandle(w) \/ ClearHandle(w) \/ UnlinkStop(w)
         \/ Interrupt(w)
  PROVE  Attended' /\ Fresh'
<1> USE ProcsAssumption, BoundsAssumption DEF Attended, Fresh, Starting, TypeOK, ControlOK, AgentsOK, StopsOK, Procs, Executors,
      Goto, Moves, Kind, files, daemon, stops
<1>1. CASE ClearStop(w)
  BY <1>1 DEF ClearStop
<1>2. CASE ClearChildren(w)
  BY <1>2 DEF ClearChildren
<1>3. CASE Poll(w)
  BY <1>3 DEF Poll
<1>4. CASE EndTick(w)
  BY <1>4 DEF EndTick
<1>5. CASE Spawn(w)
  BY <1>5 DEF Spawn
<1>6. CASE OnSpawn(w)
  BY <1>6 DEF OnSpawn
<1>7. CASE AgentEnds(w)
  BY <1>7 DEF AgentEnds
<1>8. CASE AgentSurvives(w)
  BY <1>8 DEF AgentSurvives
<1>9. CASE OnReap(w)
  BY <1>9 DEF OnReap
<1>10. CASE ReadHandle(w)
  BY <1>10 DEF ReadHandle
<1>11. CASE KillHandle(w)
  BY <1>11 DEF KillHandle
<1>12. CASE ClearHandle(w)
  BY <1>12 DEF ClearHandle
<1>13. CASE UnlinkStop(w)
  BY <1>13 DEF UnlinkStop
<1>14. CASE Interrupt(w)
  BY <1>14 DEF Interrupt
<1>15. QED
  BY <1>1, <1>2, <1>3, <1>4, <1>5, <1>6, <1>7, <1>8, <1>9, <1>10, <1>11, <1>12, <1>13, <1>14

\* while a stop is at work,
LEMMA StopLeft ==
  ASSUME TypeOK, Attended, Fresh, NEW s \in Stoppers,
         ReadPid(s) \/ ProbePid(s) \/ WriteStop(s) \/ Signal(s) \/ Confirm(s)
         \/ TimesOut(s) \/ ReadChild(s) \/ Kill(s) \/ KillChild(s) \/ ReapPid(s)
         \/ ReapStop(s) \/ ReapChildren(s)
  PROVE  Attended' /\ Fresh'
<1> USE ProcsAssumption, BoundsAssumption DEF Attended, Fresh, Starting, TypeOK, ControlOK, AgentsOK, StopsOK, Procs, Executors,
      Goto, Moves, Kind, files, daemon, stops
<1>1. CASE ReadPid(s)
  BY <1>1 DEF ReadPid, Path, read_pid_record
<1>2. CASE ProbePid(s)
  BY <1>2 DEF ProbePid
<1>3. CASE WriteStop(s)
  BY <1>3 DEF WriteStop
<1>4. CASE Signal(s)
  BY <1>4 DEF Signal, is_running, Over, Handled
<1>5. CASE Confirm(s)
  BY <1>5 DEF Confirm
<1>6. CASE TimesOut(s)
  BY <1>6 DEF TimesOut
<1>7. CASE ReadChild(s)
  BY <1>7 DEF ReadChild
<1>8. CASE Kill(s)
  BY <1>8 DEF Kill, AgentsWithout, Over, is_running
<1>9. CASE KillChild(s)
  BY <1>9 DEF KillChild
<1>10. CASE ReapPid(s)
  BY <1>10 DEF ReapPid
<1>11. CASE ReapStop(s)
  BY <1>11 DEF ReapStop
<1>12. CASE ReapChildren(s)
  BY <1>12 DEF ReapChildren
<1>13. QED
  BY <1>1, <1>2, <1>3, <1>4, <1>5, <1>6, <1>7, <1>8, <1>9, <1>10, <1>11, <1>12

\* and whoever else ends or dies.
LEMMA OtherLeft ==
  ASSUME TypeOK, Attended, Fresh,
         \/ \E r \in Runners : EndRun(r)
         \/ \E s \in Stoppers : \E l \in {"soft", "full"} : Ask(s, l)
         \/ \E p \in Procs : Crash(p)
  PROVE  Attended' /\ Fresh'
<1> USE ProcsAssumption, BoundsAssumption DEF Attended, Fresh, Starting, TypeOK, ControlOK, AgentsOK, StopsOK, Procs, Executors,
      Goto, Moves, Kind, files, daemon, stops
<1>1. CASE \E r \in Runners : EndRun(r)
  BY <1>1 DEF EndRun
<1>2. CASE \E s \in Stoppers : \E l \in {"soft", "full"} : Ask(s, l)
  BY <1>2 DEF Ask
<1>3. CASE \E p \in Procs : Crash(p)
  BY <1>3 DEF Crash, AgentsWithout, is_running, Over
<1>4. QED
  BY <1>1, <1>2, <1>3

\* The last agent's handle stays where its daemon finds it: while a command starts,
LEMMA ClaimKept ==
  ASSUME TypeOK, Launched, Serial, ~Racing', Fresh, HandleKept, StopSpares, NEW p \in Executors,
         Start(p) \/ CheckDaemon(p) \/ CheckRunner(p) \/ Build(p)
         \/ CreateExclusively(p) \/ WritePayload(p) \/ ProbeHolder(p)
         \/ ReplaceAtomically(p) \/ Unlink(p)
  PROVE  HandleKept' /\ StopSpares'
<1> USE ProcsAssumption, BoundsAssumption DEF HandleKept, StopSpares, Fresh, Last, Racing, Starting, Holding, is_running, Over,
      TypeOK, ControlOK, AgentsOK, StopsOK, Procs, Executors, Goto, Moves, Kind, files, daemon, stops
<1> ~Racing /\ MarkerNames /\ OneHolds /\ StopAims /\ StopSure
  BY DEF Serial
<1>1. CASE Start(p)
  BY <1>1 DEF Start
<1>2. CASE CheckDaemon(p)
  BY <1>2 DEF CheckDaemon
<1>3. CASE CheckRunner(p)
  BY <1>3 DEF CheckRunner
<1>4. CASE Build(p)
  BY <1>4 DEF Build
<1>5. CASE CreateExclusively(p)
  BY <1>5 DEF CreateExclusively
<1>6. CASE WritePayload(p)
  <2>1. /\ pc[p] = "write" /\ pc' = [pc EXCEPT ![p] = Claimed(p)] /\ Claimed(p) \in {"clear_stop", "work"}
        /\ UNCHANGED <<platform, children, agents, spawned, handle, target, level>>
    BY <1>6 DEF WritePayload, Claimed
  <2>2. p \in Watchers => spawned[p] = 0
    BY <2>1
  <2>3. \A s \in Stoppers : ~is_running(s) /\ pc'[s] = pc[s]
    BY <2>1
  <2>4. HandleKept'
    BY <2>1, <2>2
  <2>5. StopSpares'
    BY <2>1, <2>3
  <2>6. QED
    BY <2>4, <2>5
<1>7. CASE ProbeHolder(p)
  BY <1>7 DEF ProbeHolder
<1>8. CASE ReplaceAtomically(p)
  <2>1. /\ pc[p] = "replace" /\ pc' = [pc EXCEPT ![p] = Claimed(p)] /\ Claimed(p) \in {"clear_stop", "work"}
        /\ UNCHANGED <<platform, children, agents, spawned, handle, target, level>>
    BY <1>8 DEF ReplaceAtomically, Claimed
  <2>2. p \in Watchers => spawned[p] = 0
    BY <2>1
  <2>3. \A s \in Stoppers : ~is_running(s) /\ pc'[s] = pc[s]
    BY <2>1
  <2>4. HandleKept'
    BY <2>1, <2>2
  <2>5. StopSpares'
    BY <2>1, <2>3
  <2>6. QED
    BY <2>4, <2>5
<1>9. CASE Unlink(p)
  BY <1>9 DEF Unlink
<1>10. QED
  BY <1>1, <1>2, <1>3, <1>4, <1>5, <1>6, <1>7, <1>8, <1>9

\* in the loop of the one daemon that holds the clone,
LEMMA LoopKept ==
  ASSUME TypeOK, Launched, Serial, ~Racing', Fresh, HandleKept, StopSpares, NEW w \in Watchers,
         ClearStop(w) \/ ClearChildren(w) \/ Poll(w) \/ EndTick(w) \/ Spawn(w)
         \/ OnSpawn(w) \/ AgentEnds(w) \/ AgentSurvives(w) \/ OnReap(w)
         \/ ReadHandle(w) \/ KillHandle(w) \/ ClearHandle(w) \/ UnlinkStop(w)
         \/ Interrupt(w)
  PROVE  HandleKept' /\ StopSpares'
<1> USE ProcsAssumption, BoundsAssumption DEF HandleKept, StopSpares, Fresh, Last, Racing, Starting, Holding, is_running, Over,
      TypeOK, ControlOK, AgentsOK, StopsOK, Procs, Executors, Goto, Moves, Kind, files, daemon, stops
<1> MarkerNames /\ OneHolds /\ StopAims /\ StopSure
  BY DEF Serial
<1>1. CASE ClearStop(w)
  BY <1>1 DEF ClearStop
<1>2. CASE ClearChildren(w)
  BY <1>2 DEF ClearChildren, OneHolds
<1>3. CASE Poll(w)
  BY <1>3 DEF Poll
<1>4. CASE EndTick(w)
  BY <1>4 DEF EndTick
<1>5. CASE Spawn(w)
  BY <1>5 DEF Spawn, OneHolds
<1>6. CASE OnSpawn(w)
  BY <1>6 DEF OnSpawn, OneHolds
<1>7. CASE AgentEnds(w)
  BY <1>7 DEF AgentEnds
<1>8. CASE AgentSurvives(w)
  BY <1>8 DEF AgentSurvives
<1>9. CASE OnReap(w)
  BY <1>9 DEF OnReap, OneHolds
<1>10. CASE ReadHandle(w)
  BY <1>10 DEF ReadHandle
<1>11. CASE KillHandle(w)
  BY <1>11 DEF KillHandle
<1>12. CASE ClearHandle(w)
  BY <1>12 DEF ClearHandle, OneHolds
<1>13. CASE UnlinkStop(w)
  BY <1>13 DEF UnlinkStop
<1>14. CASE Interrupt(w)
  BY <1>14 DEF Interrupt
<1>15. QED
  BY <1>1, <1>2, <1>3, <1>4, <1>5, <1>6, <1>7, <1>8, <1>9, <1>10, <1>11, <1>12, <1>13, <1>14

\* while a stop is at work,
LEMMA StopKept ==
  ASSUME TypeOK, Launched, Serial, ~Racing', Fresh, HandleKept, StopSpares, NEW s \in Stoppers,
         ReadPid(s) \/ ProbePid(s) \/ WriteStop(s) \/ Signal(s) \/ Confirm(s)
         \/ TimesOut(s) \/ ReadChild(s) \/ Kill(s) \/ KillChild(s) \/ ReapPid(s)
         \/ ReapStop(s) \/ ReapChildren(s)
  PROVE  HandleKept' /\ StopSpares'
<1> USE ProcsAssumption, BoundsAssumption DEF HandleKept, StopSpares, Fresh, Last, Racing, Starting, Holding, is_running, Over,
      TypeOK, ControlOK, AgentsOK, StopsOK, Procs, Executors, Goto, Moves, Kind, files, daemon, stops
<1> MarkerNames /\ OneHolds /\ StopAims /\ StopSure
  BY DEF Serial
<1>1. CASE ReadPid(s)
  BY <1>1 DEF ReadPid, Path, read_pid_record, StopAims, MarkerNames
<1>2. CASE ProbePid(s)
  BY <1>2 DEF ProbePid
<1>3. CASE WriteStop(s)
  BY <1>3 DEF WriteStop
<1>4. CASE Signal(s)
  <2>1. pc[s] = "signal" /\ target[s] \in Watchers /\ s \in Procs /\ target[s] \in Procs /\ s # target[s]
    <3>1. pc[s] = "signal"
      BY <1>4 DEF Signal
    <3>2. QED
      BY <3>1 DEF StopSure
  <2>2. /\ \A p \in Procs \ {s} : pc'[p] = pc[p] \/ (p = target[s] /\ is_running(p) /\ pc'[p] = "terminated")
        /\ pc'[s] = IF is_running(target[s]) THEN "wait" ELSE "reap_pid"
    <3>1. pc' = [pc EXCEPT ![s] = IF is_running(target[s]) THEN "wait" ELSE "reap_pid",
                 ![target[s]] = IF is_running(target[s]) /\ pc[target[s]] \notin Handled
                                THEN "terminated" ELSE pc[target[s]]]
      BY <1>4, <2>1 DEF Signal
    <3>2. QED
      BY <2>1, <3>1
  <2>3. UNCHANGED <<platform, children, agents, spawned, handle, target, level>>
    BY <1>4 DEF Signal
  <2>4. HandleKept'
    BY <2>1, <2>2, <2>3
  <2>5. StopSpares'
    BY <2>1, <2>2, <2>3
  <2>6. QED
    BY <2>4, <2>5
<1>5. CASE Confirm(s)
  BY <1>5 DEF Confirm
<1>6. CASE TimesOut(s)
  BY <1>6 DEF TimesOut
<1>7. CASE ReadChild(s)
  BY <1>7 DEF ReadChild
<1>8. CASE Kill(s)
  BY <1>8 DEF Kill, AgentsWithout
<1>9. CASE KillChild(s)
  BY <1>9 DEF KillChild
<1>10. CASE ReapPid(s)
  BY <1>10 DEF ReapPid, StopSure
<1>11. CASE ReapStop(s)
  BY <1>11 DEF ReapStop, StopSure
<1>12. CASE ReapChildren(s)
  BY <1>12 DEF ReapChildren, StopAims
<1>13. QED
  BY <1>1, <1>2, <1>3, <1>4, <1>5, <1>6, <1>7, <1>8, <1>9, <1>10, <1>11, <1>12

\* and whoever else ends or dies.
LEMMA OtherKept ==
  ASSUME TypeOK, Launched, Serial, ~Racing', Fresh, HandleKept, StopSpares,
         \/ \E r \in Runners : EndRun(r)
         \/ \E s \in Stoppers : \E l \in {"soft", "full"} : Ask(s, l)
         \/ \E p \in Procs : Crash(p)
  PROVE  HandleKept' /\ StopSpares'
<1> USE ProcsAssumption, BoundsAssumption DEF HandleKept, StopSpares, Fresh, Last, Racing, Starting, Holding, is_running, Over,
      TypeOK, ControlOK, AgentsOK, StopsOK, Procs, Executors, Goto, Moves, Kind, files, daemon, stops
<1> MarkerNames /\ OneHolds /\ StopAims /\ StopSure
  BY DEF Serial
<1>1. CASE \E r \in Runners : EndRun(r)
  BY <1>1 DEF EndRun
<1>2. CASE \E s \in Stoppers : \E l \in {"soft", "full"} : Ask(s, l)
  BY <1>2 DEF Ask
<1>3. CASE \E p \in Procs : Crash(p)
  BY <1>3 DEF Crash, AgentsWithout
<1>4. QED
  BY <1>1, <1>2, <1>3

LEMMA InitCared == Init => Cared
  BY BoundsAssumption DEF Init, Cared, Attended, Fresh, HandleKept, StopSpares, Last, Holding, is_running, Over,
     Starting, Procs, Executors

\* The induction step of the agents' part.
LEMMA NextCared == IInv /\ Cared /\ [Next]_vars => Cared'
<1> SUFFICES ASSUME IInv, Cared, [Next]_vars PROVE Cared'
  OBVIOUS
<1>1. CASE UNCHANGED vars
  BY <1>1 DEF Cared, Attended, Fresh, HandleKept, StopSpares, Last, Holding, is_running, Starting, vars,
     files, daemon, stops
<1>2. CASE Next
  <2>1. Attended' /\ Fresh'
    BY <1>2, ClaimLeft, LoopLeft, StopLeft, OtherLeft DEF IInv, Cared, Next, Claims, Loops, StopSteps
  <2>2. ASSUME ~raced' PROVE HandleKept' /\ StopSpares'
    <3>1. TypeOK /\ Launched /\ Serial /\ ~Racing' /\ Fresh /\ HandleKept /\ StopSpares
      BY <1>2, <2>2, RaceSeen DEF IInv, Cared, TypeOK, ControlOK
    <3>2. QED
      BY <1>2, <3>1, ClaimKept, LoopKept, StopKept, OtherKept DEF Next, Claims, Loops, StopSteps
  <2>3. QED
    BY <2>1, <2>2 DEF Cared
<1>3. QED
  BY <1>1, <1>2

\* A daemon that left by itself, or in its own cleanup, leaves no agent behind but one
\* whose barrier failed, and after a whole cleanup that nothing raced not its last one.
THEOREM Graceful == Spec => []GracefulExit
<1>1. IInv /\ Cared => GracefulExit
  <2> SUFFICES ASSUME IInv, Cared, NEW a \in agents
               PROVE  /\ pc[a[1]] \in {"done", "terminated"} => a \in unproven
                      /\ pc[a[1]] = "done" /\ ~raced => a[2] < spawned[a[1]]
    BY DEF GracefulExit
  <2>1. PICK w \in Watchers, n \in 1 .. MaxAgents : a = <<w, n>>
    BY DEF IInv, TypeOK, AgentsOK
  <2>2. n <= spawned[w] /\ spawned[w] \in Nat /\ n \in Nat
    BY <2>1 DEF IInv, TypeOK, AgentsOK
  <2>3. pc[w] \in {"done", "terminated"} => a \in unproven
    BY <2>1 DEF Cared, Attended
  <2>4. pc[w] = "done" /\ ~raced => n < spawned[w]
    BY <2>1, <2>2 DEF Cared, HandleKept, Last
  <2>5. QED
    BY <2>1, <2>3, <2>4
<1>2. QED
  BY InitInv, NextInv, InitCared, NextCared, <1>1, PTL DEF Spec

-----------------------------------------------------------------------------
(* The close-out of a run of subtasks: what holds between any two steps.    *)

\* The run has not left its planning phase.
Pre == ckpt.node \in {"none", "planning"}

\* Where the process is before the first checkpoint after planning.
PrePhases == {"begin", "planning", "persist", "persist_index", "persist_rows", "leave"}

\* Where it is while it works on one unit of a split.
UnitPhases == {"enter", "implement", "review", "observe", "route", "commit", "op", "index", "row"}

\* Where it is inside a fix loop, of a unit or of the whole task.
LoopPhases == {"implement", "review", "observe", "route", "stuck"}

\* Where it writes what explains the end of the task.
ReportPhases == {"report", "report_md", "file"}

\* Where it is on the way to a pull request only.
DonePhases == {"finalize", "json", "md", "publish", "published"}

\* Every unit is behind it: the run is on the way to its pull request.
Closing == phase \in DonePhases \/ (phase \in ReportPhases /\ final = "done")

\* Every place of the process.
Phases == PrePhases \cup UnitPhases \cup LoopPhases \cup ReportPhases \cup DonePhases
            \cup {"fan_out", "next", "whole", "count", "down", "raised", "stopped"}

\* The orders with a row.
Planned == {o \in Orders : rows[o] # NoRow}

\* Rows that are not committed.
Pending == Planned \ CommittedRows

\* u is the next order to commit.
IsNext(u) == u \in Pending /\ \A v \in Pending : u <= v

\* What the saved checkpoint says of the place of the process, and what a
\* process that is stopped or stuck leaves on its budget.
PhaseInv ==
  /\ phase \in Phases
  /\ phase \in PrePhases => Pre
  /\ Pre => phase \in PrePhases \cup {"down"}
  /\ phase = "begin" => ckpt.node = "none"
  /\ phase = "planning" => ckpt.node = "planning"
  /\ phase = "implement" => ckpt.node = "implement"
  /\ phase \in {"review", "observe", "route", "stuck"} => ckpt.node = "review"
  /\ Closing => ckpt.node = "publish"
  /\ phase \in LoopPhases => ckpt.fix = fix
  /\ phase = "stopped" \/ (phase \in ReportPhases /\ final = "manual") =>
       ckpt.node = "publish" \/ ckpt.fix >= MaxFix
  /\ phase = "stuck" => fix >= MaxFix

\* What the process has in memory agrees with the tables at every place that
\* reads both.
MemInv ==
  /\ phase = "down" =>
       /\ plan = Single /\ ~operator /\ committed = {} /\ handed = {} /\ fix = 0
       /\ unit = Whole
  /\ phase # "down" => plan.accepted = task.accepted
  /\ phase \in {"fan_out", "next", "enter", "commit", "op", "index", "row", "count"}
       => task.accepted
  /\ phase = "whole" => ~task.accepted
  /\ phase \in LoopPhases /\ ~task.accepted => unit = Whole
  /\ operator => authored # NoPlan
  /\ phase = "persist" => todo \in DOMAIN Plans
  /\ phase = "persist" /\ ckpt.node = "none" => todo \in Authored
  /\ phase \in {"persist", "persist_index", "persist_rows"} /\ ckpt.node = "none" => operator
  /\ phase \in {"persist_index", "persist_rows"} =>
       /\ todo \in DOMAIN Plans /\ Accepted(Plans[todo])
       /\ task.accepted /\ task.count = Len(Plans[todo])
       /\ plan.units = 1..task.count

\* Before the run leaves planning, and without a split, no unit has committed
\* anything.
EarlyInv ==
  /\ Pre => /\ tree = {} /\ commits = <<{}>> /\ (\A o \in Orders : op[o] = 0)
            /\ CommittedRows = {} /\ committed = {} /\ fix = 0 /\ ckpt.fix = 0
  /\ ~task.accepted =>
       Len(commits) = 1 /\ (\A o \in Orders : op[o] = 0) /\ CommittedRows = {}

\* The decision was written whole: the index lists the accepted units, each
\* has a row.
Persisted ==
  /\ task.count \in 2..MaxSubtasks
  /\ \A o \in Orders : index[o] # NoRow <=> o <= task.count
  /\ 1..task.count \subseteq Planned

\* A crash left the accepted split without a row, and the planning node is
\* off.
Unwritten == Planned = {} /\ crashes > 0 /\ disabled

\* The decision in the tables is the one the run goes by from here.
Settled ==
  \/ ~Pre \/ phase = "leave"
  \/ phase \in {"begin", "planning", "down"} /\ (disabled \/ operator)

\* The rows are the first orders, what is written is whole once it is gone by,
\* and the index names the sha a committed row names.
RowsInv ==
  /\ \A o \in Planned : 1..o \subseteq Planned
  /\ phase = "persist_rows" => \A o \in Orders : index[o] # NoRow <=> o <= task.count
  /\ phase \in {"persist", "persist_index", "persist_rows"} /\ disabled => Planned = {}
  /\ phase = "persist" /\ disabled => ~task.accepted
  /\ task.accepted /\ Settled => Persisted \/ Unwritten
  /\ task.accepted /\ Settled /\ phase # "down" =>
       /\ plan.units \subseteq Planned /\ \A o \in plan.units : 1..o \subseteq plan.units
       /\ 1..task.count \subseteq plan.units \/ Planned = {}
  /\ \A u \in CommittedRows : index[u].sha = rows[u].sha
  /\ phase = "row" => index[unit].sha = sha /\ index[unit] # NoRow

\* What the fan-out has behind it is what the rows say is committed, and the
\* unit it works on is the next of its plan.
UnitInv ==
  /\ phase = "next" => plan.units \cap committed = plan.units \cap CommittedRows
  /\ task.accepted /\ phase \in UnitPhases \cup {"stuck"} =>
       /\ plan.units \cap committed = plan.units \cap CommittedRows
       /\ unit \in Left /\ \A v \in Left : unit <= v
       /\ handed = Landed(unit)
  /\ phase = "count" =>
       /\ plan.units \cap (committed \cup {unit}) = plan.units \cap CommittedRows
       /\ unit \in Left /\ \A v \in Left : unit <= v
  /\ task.accepted /\ Closing => plan.units \subseteq CommittedRows

\* Work of the next unit, which no operation has recorded.
Awaited(w) == IsNext(w.unit) /\ op[w.unit] = 0

\* The base is empty, a change names an order and a process run, an operation
\* names a commit.
BranchShape ==
  /\ Len(commits) >= 1 /\ commits[1] = {}
  /\ \A s \in DOMAIN commits : \A w \in commits[s] : w.unit \in Orders /\ w.run <= crashes
  /\ \A w \in tree : w.run <= crashes /\ (task.accepted => w.unit \in Orders)
  /\ \A v \in Orders : op[v] \in 0..Tip

\* The commit an operation records holds the work of the units recorded for it, and work
\* done again after a crash.
RecordedWork ==
  \A v \in Orders : op[v] # 0 =>
    \A w \in commits[op[v]] : op[w.unit] = op[v] \/ Late(w, op[v])

\* An operation whose row is still missing was recorded before the last crash.
Hidden(v) ==
  op[v] # 0 /\ rows[v].sha = 0 /\ ~(unit = v /\ phase \in {"index", "row", "raised"})

\* What an operation without a row has committed was done before the last
\* crash.
HiddenWork == \A v \in Orders : Hidden(v) => \A x \in commits[op[v]] : x.run < crashes

\* The uncommitted changes are the next unit's, or work done again.
TreeWork == task.accepted => \A w \in tree : Awaited(w) \/ Late(w, Tip + 1)

\* A tip no operation knows holds the next unit's work, or work done again.
TipWork ==
  ~Tracked(Tip) => /\ \E u \in Orders : IsNext(u) /\ op[u] = 0
                   /\ \A w \in commits[Tip] : Awaited(w) \/ Late(w, Tip)

\* At the writes of a commit: the tip is new at the operation, known at the
\* index and the row; the sha of a committed row is on the branch and known.
ShaKnown ==
  /\ phase = "op" => tree = {} /\ op[unit] = 0 /\ \A o \in Orders : op[o] # Tip
  /\ phase \in {"index", "row"} =>
       /\ tree = {} \/ op[unit] # 0
       /\ Tracked(Tip) /\ Tracked(sha) /\ sha \in 1..Tip
  /\ \A u \in CommittedRows : Tracked(rows[u].sha) /\ rows[u].sha \in 1..Tip

\* The branch, the uncommitted changes and the operations agree.
BranchInv ==
  BranchShape /\ RecordedWork /\ HiddenWork /\ TreeWork /\ TipWork /\ ShaKnown

\* The last evaluation is of the unit at hand where the process goes by it.
EvalInv ==
  /\ \A i \in DOMAIN evals : evals[i].verdict = "reset" <=> evals[i].unit = NoUnit
  /\ phase \in {"observe", "route", "stuck"} =>
       /\ Len(evals) > 0 /\ evals[Len(evals)].unit = unit /\ evals[Len(evals)].live
  /\ phase \in {"commit", "op", "index", "row"} =>
       /\ Len(evals) > 0 /\ evals[Len(evals)].unit = unit /\ Verdict = "accept"
  /\ phase = "stuck" => Verdict = "rework"
  /\ CommittedAccepted

\* The rework round the last review has asked for and the counter does not have yet.
Due == IF phase \in {"observe", "route", "stuck"} /\ Verdict = "rework" THEN 1 ELSE 0

\* What the counters hold has been asked for by reviews: of the whole task, or of the
\* next unit and those before it.
RoundsPaid ==
  /\ ~task.accepted =>
       ckpt.fix <= Reworks({Whole}) /\ fix + Due <= Reworks({Whole})
  /\ task.accepted => \A u \in Orders : IsNext(u) =>
       ckpt.fix <= Reworks(0..u) /\ fix + Due <= Reworks(0..u)

\* Without a crash each unit starts on a fresh budget.
FreshBudget ==
  crashes = 0 =>
    /\ phase \in {"enter", "whole"} => fix = 0
    /\ phase \in LoopPhases => fix + Due <= Reworks({unit})
    /\ phase = "down" => ckpt.fix = 0 \/ ckpt.node = "publish"
    /\ phase \in {"fan_out", "next"} => fix = 0 \/ plan.units \subseteq CommittedRows

\* What the loop's counters hold has been asked for.
BudgetInv == RoundsPaid /\ FreshBudget

\* Without a crash the decision is written once, and an operator's is the one.
FirstInv ==
  crashes = 0 =>
    /\ Pre => phase # "down"
    /\ phase \in {"persist", "persist_index", "persist_rows"} => Planned = {}
    /\ phase \in {"begin", "planning"} /\ ~operator => Planned = {}
    /\ task.accepted /\ Settled => Planned = 1..task.count
    /\ task.accepted /\ ckpt.node = "publish" => Planned \subseteq CommittedRows
    /\ authored # NoPlan =>
         /\ Pre => operator
         /\ phase \in {"persist", "persist_index", "persist_rows"} => todo = authored
         /\ Settled => task.accepted /\ task.count = Len(Plans[authored])
                       /\ \A o \in Planned : rows[o].plan = authored

\* These items are what the reviews left open, with debts of the supervisor's.
AllOpen(items) == Open \subseteq items /\ items \ Debts \subseteq Open

\* The summary on record is the one of a run that came to its finalize turn.
Fin == summary_md.by = "synthesis" \/ (summary_md.by = "report" /\ summary_md.degraded)

\* The plan holds an order past its accepted count: the run raises at its
\* index.
Doomed ==
  /\ task.accepted
  /\ \E o \in Planned : o > task.count /\ (phase \notin {"down", "stopped"} => o \in plan.units)

\* The follow-ups in memory, the summary's files and the follow-ups file, at
\* each step of the close-out.
TurnInv ==
  /\ phase \in {"json", "md"} => AllOpen(follow_ups)
  /\ phase \in ReportPhases /\ final = "done" =>
       /\ AllOpen(follow_ups)
       /\ phase = "report_md" \/ (phase = "report" /\ summary_md = NoBody) => degraded
  /\ phase \in ReportPhases /\ final = "manual" =>
       ~degraded /\ (phase = "report" => summary_md = NoBody)
  /\ phase \in {"file", "publish", "published"} => summary_md # NoBody
  /\ phase \in {"publish", "published"} /\ Open # {} => file # <<>> /\ Open \subseteq file[Len(file)]
  /\ phase = "published" => body = summary_md
  /\ summary_json = "full" /\ summary_md = NoBody =>
       crashes > 0 \/ (phase = "md" /\ clean_summary = "synthesis")

\* The summary on record is of a finished run and lists what is open, or an
\* earlier terminal of the task left it.
BodyInv ==
  /\ summary_md.by = "none" => summary_md = NoBody
  /\ summary_md.by = "synthesis" => ~summary_md.degraded
  /\ summary_md.by = "report" /\ ~summary_md.degraded =>
       reruns + crashes > 0 \/ phase = "stopped" \/ (phase = "file" /\ final = "manual")
  /\ Fin =>
       /\ ~Pre
       /\ ~task.accepted => ckpt.node = "publish" /\ (Closing \/ phase \in {"down", "stopped"})
       /\ task.accepted =>
            /\ 1..task.count \subseteq CommittedRows \/ Planned = {}
            /\ ~Closing /\ phase \notin {"down", "stopped"} => plan.units = Planned
       /\ AllOpen(summary_md.items) \/ Doomed

\* A step that sent its unit back, or accepted with its budget spent.
Deviating(i) == evals[i].verdict = "rework" \/ rework_exhausted(evals[i])

\* Deviations the supervisor was not shown.
Missed == {i \in DOMAIN evals : Deviating(i) /\ ~evals[i].seen /\ ~(i = Len(evals) /\ phase = "observe")}

\* Only a crash between the review and its observation leaves one of them.
SeenInv == SelectsRework => Cardinality(Missed) <= crashes

\* The inductive invariant of the close-out.
CloseInvariant == /\ CloseTypeOK /\ PhaseInv /\ MemInv /\ EarlyInv /\ RowsInv /\ UnitInv /\ BranchInv
        /\ EvalInv /\ BudgetInv /\ FirstInv /\ TurnInv /\ BodyInv /\ SeenInv

-----------------------------------------------------------------------------
(* The steps.                                                               *)

\* A step of the commit of a unit, with the variables none of them writes.
CommitStep(c) ==
  /\ c /\ UNCHANGED closeVars
  /\ UNCHANGED <<task, rows, index, todo, taskFile, memVars, ckpt, evals, unit, fix, crashes>>

\* A step is one of these.
LEMMA Cases ==
  ASSUME [CloseNext]_allVars
  PROVE
  \/ Begin /\ UNCHANGED closeVars
  \/ \E p \in DOMAIN Plans : Planning(p) /\ UNCHANGED closeVars
  \/ PersistTask /\ UNCHANGED closeVars
  \/ write_subtask_artifacts /\ UNCHANGED closeVars
  \/ insert_subtasks /\ UNCHANGED closeVars
  \/ LeavePre /\ UNCHANGED closeVars
  \/ FanOut /\ UNCHANGED closeVars
  \/ NextUnit /\ UNCHANGED closeVars
  \/ EnterUnit /\ UNCHANGED closeVars
  \/ \E c \in BOOLEAN : Implement(c) /\ UNCHANGED closeVars
  \/ \E fs \in Reports[unit] : Review(fs) /\ UNCHANGED closeVars
  \/ Rework /\ UNCHANGED closeVars
  \/ Stuck /\ UNCHANGED closeVars
  \/ Accept /\ UNCHANGED closeVars
  \/ CommitStep(CommitAgain)
  \/ CommitStep(CommitNothing)
  \/ CommitStep(CommitTree)
  \/ CommitStep(RecordOp)
  \/ update_subtask_index /\ UNCHANGED closeVars
  \/ set_subtask_commit /\ UNCHANGED closeVars
  \/ CountUnit /\ UNCHANGED closeVars
  \/ AllUnits /\ UNCHANGED closeVars
  \/ Resume /\ UNCHANGED closeVars
  \/ \E f \in BOOLEAN : _engine_post_node(f)
  \/ finalize
  \/ _write_summary_json
  \/ _engine_finalize
  \/ ReportJson
  \/ write_summary_report
  \/ SummaryStands
  \/ _append_follow_ups_file
  \/ PublishDone
  \/ PublishFailed
  \/ _explain_terminal
  \/ Die
  \/ ClearTree
  \/ \E r \in BOOLEAN : RerunContinue(r)
  \/ RerunFresh
  \/ UNCHANGED allVars
  BY DEF CloseNext, Fanning, SubStep, _commit, CommitStep

\* A set of numbers that is not empty has a least element.
LEMMA LeastOf ==
  ASSUME NEW S \in SUBSET Nat, S # {}
  PROVE  Least(S) \in S /\ \A v \in S : Least(S) <= v
<1>1. PICK x \in S : \A y \in S : ~(<<y, x>> \in OpToRel(<, Nat))
  BY WFMin, NatLessThanWellFounded
<1>2. ASSUME NEW y \in S PROVE x <= y
  <2>1. x \in Nat /\ y \in Nat
    OBVIOUS
  <2>2. y < x => <<y, x>> \in OpToRel(<, Nat)
    BY <2>1 DEF OpToRel
  <2>3. ~(y < x)
    BY <1>1, <2>2
  <2>4. QED
    BY <2>1, <2>3
<1>3. QED
  BY <1>2 DEF Least

\* A bounded one has a greatest.
LEMMA GreatestOf ==
  ASSUME NEW n \in Nat, NEW S \in SUBSET (0..n), S # {}
  PROVE  \E m \in S : \A q \in S : q <= m
<1> DEFINE T == {n - x : x \in S}
<1>1. T \in SUBSET Nat /\ T # {}
  <2>1. \A x \in S : n - x \in Nat
    OBVIOUS
  <2>2. \A k \in T : k \in Nat
    BY <2>1
  <2>3. PICK x : x \in S
    OBVIOUS
  <2>4. n - x \in T
    BY <2>3
  <2>5. QED
    BY <2>2, <2>4
<1>2. PICK k \in T : \A v \in T : k <= v
  BY <1>1, LeastOf
<1>3. PICK m \in S : k = n - m
  OBVIOUS
<1>4. ASSUME NEW q \in S PROVE q <= m
  <2>1. n - q \in T
    OBVIOUS
  <2>2. n - m <= n - q
    BY <1>2, <1>3, <2>1
  <2>3. QED
    BY <2>2
<1>5. QED
  BY <1>4

\* The row a review records is an evaluation.
LEMMA RowTyped ==
  ASSUME NEW u \in Units, NEW fs \in Reports[u], NEW v \in {"accept", "rework"}
  PROVE  EvaluationRow(u, v, fs) \in EvaluationRows
  BY DEF EvaluationRow, EvaluationRows

\* So is the row of an operator's reset.
LEMMA ResetTyped == ResetRow \in EvaluationRows
<1> DEFINE F == UNION {Reports[u] : u \in Units}
           e == <<>>
           U == Units \cup {NoUnit}
<1> HIDE DEF F, e, U
<1>1. [unit |-> NoUnit, verdict |-> "reset", findings |-> e, seen |-> FALSE, live |-> TRUE]
        \in [unit : U, verdict : {"accept", "rework", "reset"}, findings : {e} \cup F,
             seen : BOOLEAN, live : BOOLEAN]
  BY DEF U
<1>2. QED
  BY <1>1, Zenon DEF EvaluationRow, EvaluationRows, ResetRow, F, e, U

\* A mark on an evaluation leaves an evaluation.
LEMMA Marked ==
  ASSUME NEW r \in EvaluationRows
  PROVE  [r EXCEPT !.seen = TRUE] \in EvaluationRows /\ [r EXCEPT !.live = FALSE] \in EvaluationRows
<1> DEFINE U == Units \cup {NoUnit}
           V == {"accept", "rework", "reset"}
           F == {<<>>} \cup UNION {Reports[u] : u \in Units}
<1>1. r \in [unit : U, verdict : V, findings : F, seen : BOOLEAN, live : BOOLEAN]
  BY DEF EvaluationRows
<1> HIDE DEF U, V, F
<1>2. /\ [r EXCEPT !.seen = TRUE] \in [unit : U, verdict : V, findings : F, seen : BOOLEAN, live : BOOLEAN]
      /\ [r EXCEPT !.live = FALSE] \in [unit : U, verdict : V, findings : F, seen : BOOLEAN, live : BOOLEAN]
  BY <1>1
<1>3. QED
  BY <1>2 DEF EvaluationRows, U, V, F

\* So do the marks on the rows of a list.
LEMMA MarkedAll ==
  ASSUME NEW s \in Seq(EvaluationRows)
  PROVE  /\ [i \in DOMAIN s |-> [s[i] EXCEPT !.live = FALSE]] \in Seq(EvaluationRows)
         /\ [s EXCEPT ![Len(s)].seen = TRUE] \in Seq(EvaluationRows)
<1>1. \A i \in 1..Len(s) : s[i] \in EvaluationRows
  OBVIOUS
<1>2. \A i \in 1..Len(s) : /\ [s[i] EXCEPT !.live = FALSE] \in EvaluationRows
                          /\ [s[i] EXCEPT !.seen = TRUE] \in EvaluationRows
  BY <1>1, Marked
<1>3. DOMAIN s = 1..Len(s) /\ Len(s) \in Nat
  OBVIOUS
<1> DEFINE a == [i \in DOMAIN s |-> [s[i] EXCEPT !.live = FALSE]]
           b == [s EXCEPT ![Len(s)].seen = TRUE]
<1>4. a \in [1..Len(s) -> EvaluationRows]
  BY <1>2, <1>3
<1>5. b \in [1..Len(s) -> EvaluationRows]
  <2>1. b = [i \in 1..Len(s) |-> IF i = Len(s) THEN [s[i] EXCEPT !.seen = TRUE] ELSE s[i]]
    BY <1>3
  <2>2. QED
    BY <1>1, <1>2, <2>1
<1> HIDE DEF a, b
<1>6. a \in Seq(EvaluationRows) /\ b \in Seq(EvaluationRows)
  BY <1>3, <1>4, <1>5
<1>7. QED
  BY <1>6 DEF a, b

\* A sha recorded in a table leaves a table.
LEMMA Recorded ==
  ASSUME NEW t \in Table, NEW o, NEW n \in Nat
  PROVE  [t EXCEPT ![o].sha = n] \in Table
<1> DEFINE P == DOMAIN Plans \cup {NoPlan}
<1>1. t \in [Orders -> [plan : P, sha : Nat]]
  BY DEF Table
<1> HIDE DEF P
<1>2. \A q \in Orders : [t[q] EXCEPT !.sha = n] \in [plan : P, sha : Nat]
  BY <1>1
<1>3. [t EXCEPT ![o].sha = n] \in [Orders -> [plan : P, sha : Nat]]
  BY <1>1, <1>2
<1>4. QED
  BY <1>3 DEF Table, P

\* A run that is not split has a plan too.
LEMMA SingleTyped == Single \in [accepted : BOOLEAN, units : SUBSET Orders]
  BY DEF Single

\* Where a split is run, the unit at hand is one of its orders.
LEMMA UnitTyped ==
  ASSUME CloseInvariant
  PROVE  /\ task.accepted /\ phase \in UnitPhases \cup {"stuck"} => unit \in Orders
         /\ phase = "count" => unit \in Orders
  BY DEF CloseInvariant, CloseTypeOK, RunTypes, UnitInv, Left

\* Each step moves the process and saves the checkpoint together as PhaseInv
\* says.
LEMMA PhaseStep == ASSUME CloseInvariant, [CloseNext]_allVars PROVE PhaseInv'
<1> USE DEF PhaseInv, To, splitVars, taskFile, gitVars, memVars, closeVars, turnVars, summaryVars
<1>t. /\ ckpt \in [node : {"none", "planning", "implement", "review", "publish"}, fix : 0..MaxFix]
      /\ final \in {"done", "manual"} /\ fix \in 0..MaxFix
  BY DEF CloseInvariant, CloseTypeOK, TableTypes, RunTypes, TurnTypes
<1>i. PhaseInv /\ MemInv /\ EarlyInv
  BY DEF CloseInvariant
<1>1. CASE Begin /\ UNCHANGED closeVars
  BY <1>1, <1>t, <1>i DEF Begin, save_checkpoint, Pre, Phases, PrePhases, UnitPhases,
       LoopPhases, ReportPhases, DonePhases, Closing
<1>2. CASE \E p \in DOMAIN Plans : Planning(p) /\ UNCHANGED closeVars
  BY <1>2, <1>t, <1>i DEF Planning, Pre, Phases, PrePhases, UnitPhases, LoopPhases,
       ReportPhases, DonePhases, Closing
<1>3. CASE PersistTask /\ UNCHANGED closeVars
  BY <1>3, <1>t, <1>i DEF PersistTask, Pre, Phases, PrePhases, UnitPhases, LoopPhases,
       ReportPhases, DonePhases, Closing
<1>4. CASE write_subtask_artifacts /\ UNCHANGED closeVars
  BY <1>4, <1>t, <1>i DEF write_subtask_artifacts, Pre, Phases, PrePhases, UnitPhases,
       LoopPhases, ReportPhases, DonePhases, Closing
<1>5. CASE insert_subtasks /\ UNCHANGED closeVars
  BY <1>5, <1>t, <1>i DEF insert_subtasks, Pre, Phases, PrePhases, UnitPhases,
       LoopPhases, ReportPhases, DonePhases, Closing
<1>6. CASE LeavePre /\ UNCHANGED closeVars
  BY <1>6, <1>t, <1>i DEF LeavePre, save_checkpoint, Pre, Phases, PrePhases, UnitPhases,
       LoopPhases, ReportPhases, DonePhases, Closing
<1>7. CASE FanOut /\ UNCHANGED closeVars
  BY <1>7, <1>t, <1>i DEF FanOut, Pre, Phases, PrePhases, UnitPhases, LoopPhases,
       ReportPhases, DonePhases, Closing
<1>8. CASE NextUnit /\ UNCHANGED closeVars
  BY <1>8, <1>t, <1>i DEF NextUnit, Pre, Phases, PrePhases, UnitPhases, LoopPhases,
       ReportPhases, DonePhases, Closing
<1>9. CASE EnterUnit /\ UNCHANGED closeVars
  BY <1>9, <1>t, <1>i DEF EnterUnit, save_checkpoint, Pre, Phases, PrePhases,
       UnitPhases, LoopPhases, ReportPhases, DonePhases, Closing
<1>10. CASE \E c \in BOOLEAN : Implement(c) /\ UNCHANGED closeVars
  BY <1>10, <1>t, <1>i DEF Implement, save_checkpoint, Pre, Phases, PrePhases,
       UnitPhases, LoopPhases, ReportPhases, DonePhases, Closing
<1>11. CASE \E fs \in Reports[unit] : Review(fs) /\ UNCHANGED closeVars
  BY <1>11, <1>t, <1>i DEF Review, Pre, Phases, PrePhases, UnitPhases, LoopPhases,
       ReportPhases, DonePhases, Closing
<1>12. CASE Rework /\ UNCHANGED closeVars
  BY <1>12, <1>t, <1>i DEF Rework, save_checkpoint, Pre, Phases, PrePhases, UnitPhases,
       LoopPhases, ReportPhases, DonePhases, Closing, Verdict
<1>13. CASE Stuck /\ UNCHANGED closeVars
  BY <1>13, <1>t, <1>i DEF Stuck, Pre, Phases, PrePhases, UnitPhases, LoopPhases,
       ReportPhases, DonePhases, Closing
<1>14. CASE Accept /\ UNCHANGED closeVars
  BY <1>14, <1>t, <1>i DEF Accept, save_checkpoint, Pre, Phases, PrePhases, UnitPhases,
       LoopPhases, ReportPhases, DonePhases, Closing
<1>15. CASE CommitStep(CommitAgain)
  BY <1>15, <1>t, <1>i DEF CommitStep, CommitAgain, Pre, Phases, PrePhases, UnitPhases,
       LoopPhases, ReportPhases, DonePhases, Closing
<1>16. CASE CommitStep(CommitNothing)
  BY <1>16, <1>t, <1>i DEF CommitStep, CommitNothing, Pre, Phases, PrePhases,
       UnitPhases, LoopPhases, ReportPhases, DonePhases, Closing
<1>17. CASE CommitStep(CommitTree)
  BY <1>17, <1>t, <1>i DEF CommitStep, CommitTree, Pre, Phases, PrePhases, UnitPhases,
       LoopPhases, ReportPhases, DonePhases, Closing
<1>18. CASE CommitStep(RecordOp)
  BY <1>18, <1>t, <1>i DEF CommitStep, RecordOp, Pre, Phases, PrePhases, UnitPhases,
       LoopPhases, ReportPhases, DonePhases, Closing
<1>19. CASE update_subtask_index /\ UNCHANGED closeVars
  BY <1>19, <1>t, <1>i DEF update_subtask_index, Pre, Phases, PrePhases, UnitPhases,
       LoopPhases, ReportPhases, DonePhases, Closing
<1>20. CASE set_subtask_commit /\ UNCHANGED closeVars
  BY <1>20, <1>t, <1>i DEF set_subtask_commit, Pre, Phases, PrePhases, UnitPhases,
       LoopPhases, ReportPhases, DonePhases, Closing
<1>21. CASE CountUnit /\ UNCHANGED closeVars
  BY <1>21, <1>t, <1>i DEF CountUnit, Pre, Phases, PrePhases, UnitPhases, LoopPhases,
       ReportPhases, DonePhases, Closing
<1>22. CASE AllUnits /\ UNCHANGED closeVars
  BY <1>22, <1>t, <1>i DEF AllUnits, save_checkpoint, Pre, Phases, PrePhases,
       UnitPhases, LoopPhases, ReportPhases, DonePhases, Closing
<1>23. CASE Resume /\ UNCHANGED closeVars
  BY <1>23, <1>t, <1>i DEF Resume, ResumeAt, _rebuild_decomposition, Pre, Phases,
       PrePhases, UnitPhases, LoopPhases, ReportPhases, DonePhases, Closing
<1>24. CASE \E f \in BOOLEAN : _engine_post_node(f)
  BY <1>24, <1>t, <1>i DEF _engine_post_node, observe, Pre, Phases, PrePhases,
       UnitPhases, LoopPhases, ReportPhases, DonePhases, Closing
<1>25. CASE finalize
  BY <1>25, <1>t, <1>i DEF finalize, _finalize_turn, Stay, Pre, Phases, PrePhases,
       UnitPhases, LoopPhases, ReportPhases, DonePhases, Closing
<1>26. CASE _write_summary_json
  BY <1>26, <1>t, <1>i DEF _write_summary_json, Stay, Pre, Phases, PrePhases,
       UnitPhases, LoopPhases, ReportPhases, DonePhases, Closing
<1>27. CASE _engine_finalize
  BY <1>27, <1>t, <1>i DEF _engine_finalize, Stay, Pre, Phases, PrePhases, UnitPhases,
       LoopPhases, ReportPhases, DonePhases, Closing
<1>28. CASE ReportJson
  BY <1>28, <1>t, <1>i DEF ReportJson, Stay, Pre, Phases, PrePhases, UnitPhases,
       LoopPhases, ReportPhases, DonePhases, Closing
<1>29. CASE write_summary_report
  BY <1>29, <1>t, <1>i DEF write_summary_report, Stay, Pre, Phases, PrePhases,
       UnitPhases, LoopPhases, ReportPhases, DonePhases, Closing
<1>30. CASE SummaryStands
  BY <1>30, <1>t, <1>i DEF SummaryStands, Stay, Pre, Phases, PrePhases, UnitPhases,
       LoopPhases, ReportPhases, DonePhases, Closing
<1>31. CASE _append_follow_ups_file
  BY <1>31, <1>t, <1>i DEF _append_follow_ups_file, AfterFile, Stay, Pre, Phases,
       PrePhases, UnitPhases, LoopPhases, ReportPhases, DonePhases, Closing
<1>32. CASE PublishDone
  BY <1>32, <1>t, <1>i DEF PublishDone, Stay, Pre, Phases, PrePhases, UnitPhases,
       LoopPhases, ReportPhases, DonePhases, Closing
<1>33. CASE PublishFailed
  BY <1>33, <1>t, <1>i DEF PublishFailed, Stay, Pre, Phases, PrePhases, UnitPhases,
       LoopPhases, ReportPhases, DonePhases, Closing
<1>34. CASE _explain_terminal
  BY <1>34, <1>t, <1>i DEF _explain_terminal, Stay, Pre, Phases, PrePhases, UnitPhases,
       LoopPhases, ReportPhases, DonePhases, Closing
<1>35. CASE Die
  BY <1>35, <1>t, <1>i DEF Die, LoseMemory, ForgetTurn, Working, Pre, Phases, PrePhases,
       UnitPhases, LoopPhases, ReportPhases, DonePhases, Closing
<1>36. CASE ClearTree
  BY <1>36, <1>t, <1>i DEF ClearTree, Pre, Phases, PrePhases, UnitPhases, LoopPhases,
       ReportPhases, DonePhases, Closing
<1>37. CASE \E r \in BOOLEAN : RerunContinue(r)
  BY <1>37, <1>t, <1>i DEF RerunContinue, cmd_rerun, plan_rerun,
       _resolve_reset_fix_budget, _apply_continue_controls, LoseMemory, ForgetTurn, Pre,
       Phases, PrePhases, UnitPhases, LoopPhases, ReportPhases, DonePhases, Closing
<1>38. CASE RerunFresh
  BY <1>38, <1>t, <1>i DEF RerunFresh, cmd_rerun, plan_rerun, reset_task_for_rerun,
       ForgetTurn, Pre, Phases, PrePhases, UnitPhases, LoopPhases, ReportPhases,
       DonePhases, Closing
<1>39. CASE UNCHANGED allVars
  BY <1>39, <1>t, <1>i DEF allVars, subVars, Pre, Phases, PrePhases, UnitPhases,
       LoopPhases, ReportPhases, DonePhases, Closing
<1>q. QED
  BY <1>1, <1>2, <1>3, <1>4, <1>5, <1>6, <1>7, <1>8, <1>9, <1>10, <1>11, <1>12, <1>13,
       <1>14, <1>15, <1>16, <1>17, <1>18, <1>19, <1>20, <1>21, <1>22, <1>23, <1>24,
       <1>25, <1>26, <1>27, <1>28, <1>29, <1>30, <1>31, <1>32, <1>33, <1>34, <1>35,
       <1>36, <1>37, <1>38, <1>39, Cases

\* The tables keep their ranges.
LEMMA TableStep == ASSUME CloseInvariant, [CloseNext]_allVars PROVE TableTypes'
<1> USE RunRecordAssumption, SubtasksAssumption, CloseOutAssumption DEF TableTypes, To, splitVars, taskFile, gitVars, memVars, closeVars, turnVars, summaryVars
<1>i. TableTypes /\ BranchTypes /\ RunTypes
  BY DEF CloseInvariant, CloseTypeOK
<1>p. PhaseInv /\ MemInv
  BY DEF CloseInvariant
<1>u. /\ task.accepted /\ phase \in UnitPhases \cup {"stuck"} => unit \in Orders
      /\ phase = "count" => unit \in Orders
  BY UnitTyped
<1> USE DEF BranchTypes, RunTypes
<1>1. CASE Begin /\ UNCHANGED closeVars
  BY <1>1, <1>i DEF Begin, save_checkpoint, Units, Orders, Table, Whole
<1>2. CASE \E p \in DOMAIN Plans : Planning(p) /\ UNCHANGED closeVars
  BY <1>2, <1>i DEF Planning, Units, Orders, Table, Whole
<1>3. CASE PersistTask /\ UNCHANGED closeVars
  <2>1. /\ todo \in DOMAIN Plans
        /\ AcceptedTodo => Len(Plans[todo]) \in Units /\ 1 \in Units
    BY <1>3, <1>p DEF PersistTask, MemInv, AcceptedTodo, decide_decomposition, Accepted, Units, Orders, Whole
  <2>2. task' \in [accepted : BOOLEAN, count : Units, active : Units, completed : Units]
    BY <1>3, <1>i, <2>1 DEF PersistTask, Units, Whole
  <2>3. QED
    BY <1>3, <1>i, <2>2 DEF PersistTask, Table
<1>4. CASE write_subtask_artifacts /\ UNCHANGED closeVars
  <2>1. todo \in DOMAIN Plans
    BY <1>4, <1>p DEF write_subtask_artifacts, MemInv
  <2>2. [plan |-> todo, sha |-> 0] \in [plan : DOMAIN Plans \cup {NoPlan}, sha : Nat]
    BY <2>1
  <2>3. NoRow \in [plan : DOMAIN Plans \cup {NoPlan}, sha : Nat]
    BY DEF NoRow
  <2>4. index' \in Table
    BY <1>4, <2>2, <2>3 DEF write_subtask_artifacts, Table
  <2>5. QED
    BY <1>4, <1>i, <2>4 DEF write_subtask_artifacts, Table
<1>5. CASE insert_subtasks /\ UNCHANGED closeVars
  BY <1>5, <1>i DEF insert_subtasks, Units, Orders, Table, Whole, NoRow, NoPlan, MemInv
<1>6. CASE LeavePre /\ UNCHANGED closeVars
  BY <1>6, <1>i DEF LeavePre, save_checkpoint, Units, Orders, Table, Whole
<1>7. CASE FanOut /\ UNCHANGED closeVars
  BY <1>7, <1>i DEF FanOut, Units, Orders, Table, Whole
<1>8. CASE NextUnit /\ UNCHANGED closeVars
  BY <1>8, <1>i DEF NextUnit, Units, Orders, Table, Whole
<1>9. CASE EnterUnit /\ UNCHANGED closeVars
  BY <1>9, <1>i DEF EnterUnit, save_checkpoint, Units, Orders, Table, Whole
<1>10. CASE \E c \in BOOLEAN : Implement(c) /\ UNCHANGED closeVars
  BY <1>10, <1>i DEF Implement, save_checkpoint, Units, Orders, Table, Whole
<1>11. CASE \E fs \in Reports[unit] : Review(fs) /\ UNCHANGED closeVars
  <2>1. PICK fs \in Reports[unit] : Review(fs)
    BY <1>11
  <2> DEFINE v == verdict(evals, unit, fs, fix >= MaxFix)
  <2>2. v \in {"accept", "rework"}
    BY DEF verdict
  <2>3. EvaluationRow(unit, v, fs) \in EvaluationRows
    BY <1>i, <2>2, RowTyped
  <2>4. evals' = Append(evals, EvaluationRow(unit, v, fs))
    BY <2>1 DEF Review
  <2>5. evals' \in Seq(EvaluationRows)
    BY <1>i, <2>3, <2>4
  <2>6. QED
    BY <1>11, <1>i, <2>5, <2>1 DEF Review, Table
<1>12. CASE Rework /\ UNCHANGED closeVars
  BY <1>12, <1>i DEF Rework, save_checkpoint, Units, Orders, Table, Whole
<1>13. CASE Stuck /\ UNCHANGED closeVars
  BY <1>13, <1>i DEF Stuck, Units, Orders, Table, Whole
<1>14. CASE Accept /\ UNCHANGED closeVars
  <2>1. ckpt' \in [node : {"none", "planning", "implement", "review", "publish"}, fix : 0..MaxFix]
    BY <1>14, <1>i DEF Accept, save_checkpoint
  <2>2. QED
    BY <1>14, <1>i, <2>1 DEF Accept, Table
<1>15. CASE CommitStep(CommitAgain)
  BY <1>15, <1>i DEF CommitStep, CommitAgain, Units, Orders, Table, Whole
<1>16. CASE CommitStep(CommitNothing)
  <2>1. op' \in [Orders -> Nat]
    <3>1. Tip \in Nat
      BY <1>i DEF Tip
    <3>2. QED
      BY <1>16, <1>i, <3>1 DEF CommitStep, CommitNothing
  <2>2. QED
    BY <1>16, <1>i, <2>1 DEF CommitStep, CommitNothing, Table
<1>17. CASE CommitStep(CommitTree)
  BY <1>17, <1>i DEF CommitStep, CommitTree, Units, Orders, Table, Whole
<1>18. CASE CommitStep(RecordOp)
  <2>1. op' \in [Orders -> Nat]
    <3>1. Tip \in Nat
      BY <1>i DEF Tip
    <3>2. QED
      BY <1>18, <1>i, <3>1 DEF CommitStep, RecordOp
  <2>2. QED
    BY <1>18, <1>i, <2>1 DEF CommitStep, RecordOp, Table
<1>19. CASE update_subtask_index /\ UNCHANGED closeVars
  <2>1. index' \in Table
    <3>1. sha \in Nat /\ index \in Table
      BY <1>i
    <3>2. [index EXCEPT ![unit].sha = sha] \in Table
      BY <3>1, Recorded
    <3>3. index' = [index EXCEPT ![unit].sha = sha] \/ index' = index
      BY <1>19 DEF update_subtask_index
    <3>4. QED
      BY <3>1, <3>2, <3>3
  <2>2. QED
    BY <1>19, <1>i, <2>1 DEF update_subtask_index, Table
<1>20. CASE set_subtask_commit /\ UNCHANGED closeVars
  <2>1. rows' \in Table
    BY <1>20, <1>i, Recorded DEF set_subtask_commit
  <2>2. QED
    BY <1>20, <1>i, <2>1 DEF set_subtask_commit, Table
<1>21. CASE CountUnit /\ UNCHANGED closeVars
  <2>1. unit \in Orders
    BY <1>21, <1>u DEF CountUnit
  <2>2. IsLastUnit \/ unit + 1 \in Units
    <3>1. SUFFICES ASSUME unit = MaxSubtasks PROVE IsLastUnit
      BY <2>1 DEF Units, Orders, Whole
    <3>2. unit \in plan.units
      BY <1>21 DEF CountUnit, CloseInvariant, UnitInv, Left
    <3>3. \A v \in plan.units : v <= unit
      BY <1>i, <3>1 DEF Orders
    <3>4. \A o \in plan.units : (\A v \in plan.units : v <= o) => o = unit
      BY <1>i, <3>2, <3>3 DEF Orders
    <3>5. QED
      BY <3>2, <3>3, <3>4 DEF IsLastUnit
  <2>3. task' \in [accepted : BOOLEAN, count : Units, active : Units, completed : Units]
    BY <1>21, <1>i, <2>1, <2>2 DEF CountUnit, Units
  <2>4. QED
    BY <1>21, <1>i, <2>3 DEF CountUnit, Table
<1>22. CASE AllUnits /\ UNCHANGED closeVars
  BY <1>22, <1>i DEF AllUnits, save_checkpoint, Units, Orders, Table, Whole
<1>23. CASE Resume /\ UNCHANGED closeVars
  BY <1>23, <1>i DEF Resume, ResumeAt, _rebuild_decomposition, Units, Orders, Table,
       Whole
<1>24. CASE \E f \in BOOLEAN : _engine_post_node(f)
  <2>1. evals' \in Seq(EvaluationRows)
    <3>1. CASE evals' = evals
      BY <1>i, <3>1
    <3>2. CASE observe
      BY <1>i, <3>2, MarkedAll DEF observe
    <3>3. QED
      BY <1>24, <3>1, <3>2 DEF _engine_post_node
  <2>2. QED
    BY <1>24, <1>i, <2>1 DEF _engine_post_node, Table
<1>25. CASE finalize
  BY <1>25, <1>i DEF finalize, _finalize_turn, Stay, Units, Orders, Table, Whole
<1>26. CASE _write_summary_json
  BY <1>26, <1>i DEF _write_summary_json, Stay, Units, Orders, Table, Whole
<1>27. CASE _engine_finalize
  BY <1>27, <1>i DEF _engine_finalize, Stay, Units, Orders, Table, Whole
<1>28. CASE ReportJson
  BY <1>28, <1>i DEF ReportJson, Stay, Units, Orders, Table, Whole
<1>29. CASE write_summary_report
  BY <1>29, <1>i DEF write_summary_report, Stay, Units, Orders, Table, Whole
<1>30. CASE SummaryStands
  BY <1>30, <1>i DEF SummaryStands, Stay, Units, Orders, Table, Whole
<1>31. CASE _append_follow_ups_file
  BY <1>31, <1>i DEF _append_follow_ups_file, AfterFile, Stay, Units, Orders, Table,
       Whole
<1>32. CASE PublishDone
  BY <1>32, <1>i DEF PublishDone, Stay, Units, Orders, Table, Whole
<1>33. CASE PublishFailed
  BY <1>33, <1>i DEF PublishFailed, Stay, Units, Orders, Table, Whole
<1>34. CASE _explain_terminal
  BY <1>34, <1>i DEF _explain_terminal, Stay, Units, Orders, Table, Whole
<1>35. CASE Die
  BY <1>35, <1>i DEF Die, LoseMemory, ForgetTurn, Working, Units, Orders, Table, Whole
<1>36. CASE ClearTree
  BY <1>36, <1>i DEF ClearTree, Units, Orders, Table, Whole
<1>37. CASE \E r \in BOOLEAN : RerunContinue(r)
  <2>1. evals' \in Seq(EvaluationRows)
    <3>1. Append(evals, ResetRow) \in Seq(EvaluationRows)
      BY <1>i, ResetTyped
    <3>2. QED
      BY <1>37, <1>i, <3>1 DEF RerunContinue, _apply_continue_controls
  <2>2. ckpt' \in [node : {"none", "planning", "implement", "review", "publish"}, fix : 0..MaxFix]
    BY <1>37, <1>i DEF RerunContinue, _apply_continue_controls
  <2>3. QED
    BY <1>37, <1>i, <2>1, <2>2 DEF RerunContinue, Table
<1>38. CASE RerunFresh
  <2>1. evals' \in Seq(EvaluationRows)
    BY <1>38, <1>i, MarkedAll DEF RerunFresh, reset_task_for_rerun
  <2>2. NoRow \in [plan : DOMAIN Plans \cup {NoPlan}, sha : Nat]
    BY DEF NoRow
  <2>3. rows' \in Table /\ index' \in Table /\ op' \in [Orders -> Nat]
    BY <1>38, <2>2 DEF RerunFresh, reset_task_for_rerun, Table
  <2>4. /\ task' \in [accepted : BOOLEAN, count : Units, active : Units, completed : Units]
        /\ ckpt' \in [node : {"none", "planning", "implement", "review", "publish"}, fix : 0..MaxFix]
    BY <1>38 DEF RerunFresh, reset_task_for_rerun, Units, Whole
  <2>5. QED
    BY <1>38, <1>i, <2>1, <2>3, <2>4 DEF RerunFresh, reset_task_for_rerun
<1>39. CASE UNCHANGED allVars
  BY <1>39, <1>i DEF allVars, subVars, Units, Orders, Table, Whole
<1>q. QED
  BY <1>1, <1>2, <1>3, <1>4, <1>5, <1>6, <1>7, <1>8, <1>9, <1>10, <1>11, <1>12, <1>13,
       <1>14, <1>15, <1>16, <1>17, <1>18, <1>19, <1>20, <1>21, <1>22, <1>23, <1>24,
       <1>25, <1>26, <1>27, <1>28, <1>29, <1>30, <1>31, <1>32, <1>33, <1>34, <1>35,
       <1>36, <1>37, <1>38, <1>39, Cases

\* So does the branch.
LEMMA BranchTypeStep == ASSUME CloseInvariant, [CloseNext]_allVars PROVE BranchTypes'
<1> USE RunRecordAssumption, SubtasksAssumption, CloseOutAssumption DEF BranchTypes, RunTypes, To, splitVars, taskFile, gitVars, memVars, closeVars, turnVars, summaryVars
<1>i. BranchTypes /\ RunTypes /\ op \in [Orders -> Nat]
  BY DEF CloseInvariant, CloseTypeOK, TableTypes
<1>u. /\ task.accepted /\ phase \in UnitPhases \cup {"stuck"} => unit \in Orders
      /\ phase = "count" => unit \in Orders
  BY UnitTyped
<1>1. CASE Begin /\ UNCHANGED closeVars
  BY <1>1, <1>i DEF Begin, save_checkpoint, Units, Orders, Work
<1>2. CASE \E p \in DOMAIN Plans : Planning(p) /\ UNCHANGED closeVars
  BY <1>2, <1>i DEF Planning, Units, Orders, Work
<1>3. CASE PersistTask /\ UNCHANGED closeVars
  BY <1>3, <1>i DEF PersistTask, Units, Orders, Work
<1>4. CASE write_subtask_artifacts /\ UNCHANGED closeVars
  BY <1>4, <1>i DEF write_subtask_artifacts, Units, Orders, Work
<1>5. CASE insert_subtasks /\ UNCHANGED closeVars
  BY <1>5, <1>i DEF insert_subtasks, Units, Orders, Work
<1>6. CASE LeavePre /\ UNCHANGED closeVars
  BY <1>6, <1>i DEF LeavePre, save_checkpoint, Units, Orders, Work
<1>7. CASE FanOut /\ UNCHANGED closeVars
  BY <1>7, <1>i DEF FanOut, Units, Orders, Work
<1>8. CASE NextUnit /\ UNCHANGED closeVars
  BY <1>8, <1>i DEF NextUnit, Units, Orders, Work
<1>9. CASE EnterUnit /\ UNCHANGED closeVars
  BY <1>9, <1>i DEF EnterUnit, save_checkpoint, Units, Orders, Work
<1>10. CASE \E c \in BOOLEAN : Implement(c) /\ UNCHANGED closeVars
  BY <1>10, <1>i DEF Implement, save_checkpoint, Units, Orders, Work
<1>11. CASE \E fs \in Reports[unit] : Review(fs) /\ UNCHANGED closeVars
  BY <1>11, <1>i DEF Review, Units, Orders, Work
<1>12. CASE Rework /\ UNCHANGED closeVars
  BY <1>12, <1>i DEF Rework, save_checkpoint, Units, Orders, Work
<1>13. CASE Stuck /\ UNCHANGED closeVars
  BY <1>13, <1>i DEF Stuck, Units, Orders, Work
<1>14. CASE Accept /\ UNCHANGED closeVars
  BY <1>14, <1>i DEF Accept, save_checkpoint, Units, Orders, Work
<1>15. CASE CommitStep(CommitAgain)
  <2>1. unit \in Orders
    BY <1>15, <1>u DEF CommitStep, CommitAgain, UnitPhases, CloseInvariant, MemInv
  <2>2. QED
    BY <1>15, <1>i, <2>1 DEF CommitStep, CommitAgain
<1>16. CASE CommitStep(CommitNothing)
  BY <1>16, <1>i DEF CommitStep, CommitNothing, Units, Orders, Work, Tip
<1>17. CASE CommitStep(CommitTree)
  BY <1>17, <1>i DEF CommitStep, CommitTree, Units, Orders, Work
<1>18. CASE CommitStep(RecordOp)
  BY <1>18, <1>i DEF CommitStep, RecordOp, Units, Orders, Work, Tip
<1>19. CASE update_subtask_index /\ UNCHANGED closeVars
  BY <1>19, <1>i DEF update_subtask_index, Units, Orders, Work
<1>20. CASE set_subtask_commit /\ UNCHANGED closeVars
  BY <1>20, <1>i DEF set_subtask_commit, Units, Orders, Work
<1>21. CASE CountUnit /\ UNCHANGED closeVars
  BY <1>21, <1>i DEF CountUnit, Units, Orders, Work
<1>22. CASE AllUnits /\ UNCHANGED closeVars
  BY <1>22, <1>i DEF AllUnits, save_checkpoint, Units, Orders, Work
<1>23. CASE Resume /\ UNCHANGED closeVars
  BY <1>23, <1>i DEF Resume, ResumeAt, _rebuild_decomposition, Units, Orders, Work
<1>24. CASE \E f \in BOOLEAN : _engine_post_node(f)
  BY <1>24, <1>i DEF _engine_post_node, observe, Units, Orders, Work
<1>25. CASE finalize
  BY <1>25, <1>i DEF finalize, _finalize_turn, Stay, Units, Orders, Work
<1>26. CASE _write_summary_json
  BY <1>26, <1>i DEF _write_summary_json, Stay, Units, Orders, Work
<1>27. CASE _engine_finalize
  BY <1>27, <1>i DEF _engine_finalize, Stay, Units, Orders, Work
<1>28. CASE ReportJson
  BY <1>28, <1>i DEF ReportJson, Stay, Units, Orders, Work
<1>29. CASE write_summary_report
  BY <1>29, <1>i DEF write_summary_report, Stay, Units, Orders, Work
<1>30. CASE SummaryStands
  BY <1>30, <1>i DEF SummaryStands, Stay, Units, Orders, Work
<1>31. CASE _append_follow_ups_file
  BY <1>31, <1>i DEF _append_follow_ups_file, AfterFile, Stay, Units, Orders, Work
<1>32. CASE PublishDone
  BY <1>32, <1>i DEF PublishDone, Stay, Units, Orders, Work
<1>33. CASE PublishFailed
  BY <1>33, <1>i DEF PublishFailed, Stay, Units, Orders, Work
<1>34. CASE _explain_terminal
  BY <1>34, <1>i DEF _explain_terminal, Stay, Units, Orders, Work
<1>35. CASE Die
  BY <1>35, <1>i DEF Die, LoseMemory, ForgetTurn, Working, Units, Orders, Work
<1>36. CASE ClearTree
  BY <1>36, <1>i DEF ClearTree, Units, Orders, Work
<1>37. CASE \E r \in BOOLEAN : RerunContinue(r)
  BY <1>37, <1>i DEF RerunContinue, cmd_rerun, plan_rerun, _resolve_reset_fix_budget,
       _apply_continue_controls, LoseMemory, ForgetTurn, Units, Orders, Work
<1>38. CASE RerunFresh
  BY <1>38, <1>i DEF RerunFresh, cmd_rerun, plan_rerun, reset_task_for_rerun,
       ForgetTurn, Units, Orders, Work
<1>39. CASE UNCHANGED allVars
  BY <1>39, <1>i DEF allVars, subVars, Units, Orders, Work
<1>q. QED
  BY <1>1, <1>2, <1>3, <1>4, <1>5, <1>6, <1>7, <1>8, <1>9, <1>10, <1>11, <1>12, <1>13,
       <1>14, <1>15, <1>16, <1>17, <1>18, <1>19, <1>20, <1>21, <1>22, <1>23, <1>24,
       <1>25, <1>26, <1>27, <1>28, <1>29, <1>30, <1>31, <1>32, <1>33, <1>34, <1>35,
       <1>36, <1>37, <1>38, <1>39, Cases

\* So does what the process has in memory.
LEMMA RunTypeStep == ASSUME CloseInvariant, [CloseNext]_allVars PROVE RunTypes'
<1> USE RunRecordAssumption, SubtasksAssumption, CloseOutAssumption DEF RunTypes, To, splitVars, taskFile, gitVars, memVars, closeVars, turnVars, summaryVars
<1>i. RunTypes /\ TableTypes
  BY DEF CloseInvariant, CloseTypeOK
<1>u. /\ task.accepted /\ phase \in UnitPhases \cup {"stuck"} => unit \in Orders
      /\ phase = "count" => unit \in Orders
  BY UnitTyped
<1>1. CASE Begin /\ UNCHANGED closeVars
  BY <1>1, <1>i DEF Begin, save_checkpoint, Units, Orders, Whole
<1>2. CASE \E p \in DOMAIN Plans : Planning(p) /\ UNCHANGED closeVars
  BY <1>2, <1>i DEF Planning, Units, Orders, Whole
<1>3. CASE PersistTask /\ UNCHANGED closeVars
  <2>1. todo \in DOMAIN Plans
    BY <1>3 DEF PersistTask, CloseInvariant, MemInv
  <2>2. AcceptedTodo => 1..Len(Plans[todo]) \subseteq Orders
    BY DEF AcceptedTodo, decide_decomposition, Accepted, Orders
  <2>3. plan' \in [accepted : BOOLEAN, units : SUBSET Orders]
    BY <1>3, <2>2 DEF PersistTask, Single
  <2>4. QED
    BY <1>3, <1>i, <2>3 DEF PersistTask
<1>4. CASE write_subtask_artifacts /\ UNCHANGED closeVars
  BY <1>4, <1>i DEF write_subtask_artifacts, Units, Orders, Whole
<1>5. CASE insert_subtasks /\ UNCHANGED closeVars
  BY <1>5, <1>i DEF insert_subtasks, Units, Orders, Whole
<1>6. CASE LeavePre /\ UNCHANGED closeVars
  BY <1>6, <1>i DEF LeavePre, save_checkpoint, Units, Orders, Whole
<1>7. CASE FanOut /\ UNCHANGED closeVars
  BY <1>7, <1>i DEF FanOut, Units, Orders, Whole, CommittedRows
<1>8. CASE NextUnit /\ UNCHANGED closeVars
  <2>1. Left \in SUBSET Nat /\ Left # {}
    BY <1>8, <1>i DEF NextUnit, Left, Orders
  <2>2. unit' \in Orders
    BY <1>8, <1>i, <2>1, LeastOf DEF NextUnit, Left
  <2>3. handed' \subseteq Orders
    BY <1>8 DEF NextUnit, Landed, CommittedRows
  <2>4. QED
    BY <1>8, <1>i, <2>2, <2>3 DEF NextUnit, Units
<1>9. CASE EnterUnit /\ UNCHANGED closeVars
  BY <1>9, <1>i DEF EnterUnit, save_checkpoint, Units, Orders, Whole
<1>10. CASE \E c \in BOOLEAN : Implement(c) /\ UNCHANGED closeVars
  BY <1>10, <1>i DEF Implement, save_checkpoint, Units, Orders, Whole
<1>11. CASE \E fs \in Reports[unit] : Review(fs) /\ UNCHANGED closeVars
  BY <1>11, <1>i DEF Review, Units, Orders, Whole
<1>12. CASE Rework /\ UNCHANGED closeVars
  BY <1>12, <1>i DEF Rework, save_checkpoint, Units, Orders, Whole
<1>13. CASE Stuck /\ UNCHANGED closeVars
  BY <1>13, <1>i DEF Stuck, Units, Orders, Whole
<1>14. CASE Accept /\ UNCHANGED closeVars
  BY <1>14, <1>i DEF Accept, save_checkpoint, Units, Orders, Whole
<1>15. CASE CommitStep(CommitAgain)
  BY <1>15, <1>i DEF CommitStep, CommitAgain, Units, Orders, Whole
<1>16. CASE CommitStep(CommitNothing)
  BY <1>16, <1>i DEF CommitStep, CommitNothing, Units, Orders, Whole
<1>17. CASE CommitStep(CommitTree)
  BY <1>17, <1>i DEF CommitStep, CommitTree, Units, Orders, Whole
<1>18. CASE CommitStep(RecordOp)
  BY <1>18, <1>i DEF CommitStep, RecordOp, Units, Orders, Whole
<1>19. CASE update_subtask_index /\ UNCHANGED closeVars
  BY <1>19, <1>i DEF update_subtask_index, Units, Orders, Whole
<1>20. CASE set_subtask_commit /\ UNCHANGED closeVars
  BY <1>20, <1>i DEF set_subtask_commit, Units, Orders, Whole
<1>21. CASE CountUnit /\ UNCHANGED closeVars
  <2>1. unit \in Orders /\ fix' \in 0..MaxFix
    BY <1>21, <1>u, <1>i DEF CountUnit, NextBudget
  <2>2. QED
    BY <1>21, <1>i, <2>1 DEF CountUnit
<1>22. CASE AllUnits /\ UNCHANGED closeVars
  BY <1>22, <1>i DEF AllUnits, save_checkpoint, Units, Orders, Whole
<1>23. CASE Resume /\ UNCHANGED closeVars
  BY <1>23, <1>i DEF Resume, ResumeAt, _rebuild_decomposition, Units, Orders, Whole,
       TableTypes, Single
<1>24. CASE \E f \in BOOLEAN : _engine_post_node(f)
  BY <1>24, <1>i DEF _engine_post_node, observe, Units, Orders, Whole
<1>25. CASE finalize
  BY <1>25, <1>i DEF finalize, _finalize_turn, Stay, Units, Orders, Whole
<1>26. CASE _write_summary_json
  BY <1>26, <1>i DEF _write_summary_json, Stay, Units, Orders, Whole
<1>27. CASE _engine_finalize
  BY <1>27, <1>i DEF _engine_finalize, Stay, Units, Orders, Whole
<1>28. CASE ReportJson
  BY <1>28, <1>i DEF ReportJson, Stay, Units, Orders, Whole
<1>29. CASE write_summary_report
  BY <1>29, <1>i DEF write_summary_report, Stay, Units, Orders, Whole
<1>30. CASE SummaryStands
  BY <1>30, <1>i DEF SummaryStands, Stay, Units, Orders, Whole
<1>31. CASE _append_follow_ups_file
  BY <1>31, <1>i DEF _append_follow_ups_file, AfterFile, Stay, Units, Orders, Whole
<1>32. CASE PublishDone
  BY <1>32, <1>i DEF PublishDone, Stay, Units, Orders, Whole
<1>33. CASE PublishFailed
  BY <1>33, <1>i DEF PublishFailed, Stay, Units, Orders, Whole
<1>34. CASE _explain_terminal
  BY <1>34, <1>i DEF _explain_terminal, Stay, Units, Orders, Whole
<1>35. CASE Die
  <2>1. crashes' \in 0..MaxCrashes
    BY <1>35, <1>i DEF Die
  <2>2. plan' \in [accepted : BOOLEAN, units : SUBSET Orders]
    BY <1>35, SingleTyped DEF Die, LoseMemory
  <2>3. unit' \in Units /\ fix' \in 0..MaxFix
    BY <1>35 DEF Die, LoseMemory, Units
  <2>4. /\ operator' \in BOOLEAN /\ todo' \in DOMAIN Plans \cup {NoPlan}
        /\ committed' \subseteq Orders /\ handed' \subseteq Orders /\ reruns' \in 0..MaxReruns
    BY <1>35, <1>i DEF Die, LoseMemory
  <2>5. QED
    BY <2>1, <2>2, <2>3, <2>4
<1>36. CASE ClearTree
  BY <1>36, <1>i DEF ClearTree, Units, Orders, Whole
<1>37. CASE \E r \in BOOLEAN : RerunContinue(r)
  <2>1. reruns' \in 0..MaxReruns
    BY <1>37, <1>i DEF RerunContinue, cmd_rerun
  <2>2. plan' \in [accepted : BOOLEAN, units : SUBSET Orders]
    BY <1>37, SingleTyped DEF RerunContinue, LoseMemory
  <2>3. unit' \in Units /\ fix' \in 0..MaxFix
    BY <1>37 DEF RerunContinue, LoseMemory, Units
  <2>4. /\ operator' \in BOOLEAN /\ todo' \in DOMAIN Plans \cup {NoPlan}
        /\ committed' \subseteq Orders /\ handed' \subseteq Orders /\ crashes' \in 0..MaxCrashes
    BY <1>37, <1>i DEF RerunContinue, LoseMemory
  <2>5. QED
    BY <2>1, <2>2, <2>3, <2>4
<1>38. CASE RerunFresh
  <2>1. authored \in DOMAIN Plans \cup {NoPlan} /\ reruns' \in 0..MaxReruns
    BY <1>38, <1>i DEF TableTypes, RerunFresh, cmd_rerun
  <2>2. QED
    BY <1>38, <1>i, <2>1 DEF RerunFresh, Single, Units, Whole
<1>39. CASE UNCHANGED allVars
  BY <1>39, <1>i DEF allVars, subVars, Units, Orders, Whole
<1>q. QED
  BY <1>1, <1>2, <1>3, <1>4, <1>5, <1>6, <1>7, <1>8, <1>9, <1>10, <1>11, <1>12, <1>13,
       <1>14, <1>15, <1>16, <1>17, <1>18, <1>19, <1>20, <1>21, <1>22, <1>23, <1>24,
       <1>25, <1>26, <1>27, <1>28, <1>29, <1>30, <1>31, <1>32, <1>33, <1>34, <1>35,
       <1>36, <1>37, <1>38, <1>39, Cases

\* What is left open are findings.
LEMMA OpenItems == ASSUME TableTypes PROVE Open \subseteq Findings
<1>1. ASSUME NEW i \in DOMAIN evals PROVE Elements(evals[i].findings) \subseteq Findings
  <2>1. evals[i] \in EvaluationRows
    BY DEF TableTypes
  <2>a. evals[i].findings \in {<<>>} \cup UNION {Reports[u] : u \in Units}
    BY <2>1 DEF EvaluationRows
  <2>b. \A u \in Units : \A r \in Reports[u] : r \in Seq(Findings)
    BY SubtasksAssumption, RunRecordAssumption DEF Units, Orders, Whole
  <2>d. <<>> \in Seq(Findings)
    OBVIOUS
  <2> DEFINE fs == evals[i].findings
             F == Seq(Findings)
  <2> HIDE DEF fs, F
  <2>e. fs \in UNION {Reports[u] : u \in Units} \/ fs = <<>>
    BY <2>a, Zenon DEF fs
  <2>f. fs \in F
    BY <2>b, <2>d, <2>e, Zenon DEF F
  <2>c. evals[i].findings \in Seq(Findings)
    BY <2>f DEF fs, F
  <2>2. QED
    BY <2>c DEF Elements
<1>2. QED
  BY <1>1 DEF Open, evaluator_finding_follow_ups, FinalRows

\* So does what the close-out writes.
LEMMA TurnTypeStep == ASSUME CloseInvariant, [CloseNext]_allVars PROVE TurnTypes'
<1> USE RunRecordAssumption, SubtasksAssumption, CloseOutAssumption DEF TurnTypes, To, splitVars, taskFile, gitVars, memVars, closeVars, turnVars, summaryVars
<1>i. TurnTypes
  BY DEF CloseInvariant, CloseTypeOK
<1>o. Open \subseteq Findings
  BY OpenItems DEF CloseInvariant, CloseTypeOK
<1>1. CASE Begin /\ UNCHANGED closeVars
  BY <1>1, <1>i DEF Begin, save_checkpoint, NoBody
<1>2. CASE \E p \in DOMAIN Plans : Planning(p) /\ UNCHANGED closeVars
  BY <1>2, <1>i DEF Planning, NoBody
<1>3. CASE PersistTask /\ UNCHANGED closeVars
  BY <1>3, <1>i DEF PersistTask, NoBody
<1>4. CASE write_subtask_artifacts /\ UNCHANGED closeVars
  BY <1>4, <1>i DEF write_subtask_artifacts, NoBody
<1>5. CASE insert_subtasks /\ UNCHANGED closeVars
  BY <1>5, <1>i DEF insert_subtasks, NoBody
<1>6. CASE LeavePre /\ UNCHANGED closeVars
  BY <1>6, <1>i DEF LeavePre, save_checkpoint, NoBody
<1>7. CASE FanOut /\ UNCHANGED closeVars
  BY <1>7, <1>i DEF FanOut, NoBody
<1>8. CASE NextUnit /\ UNCHANGED closeVars
  BY <1>8, <1>i DEF NextUnit, NoBody
<1>9. CASE EnterUnit /\ UNCHANGED closeVars
  BY <1>9, <1>i DEF EnterUnit, save_checkpoint, NoBody
<1>10. CASE \E c \in BOOLEAN : Implement(c) /\ UNCHANGED closeVars
  BY <1>10, <1>i DEF Implement, save_checkpoint, NoBody
<1>11. CASE \E fs \in Reports[unit] : Review(fs) /\ UNCHANGED closeVars
  BY <1>11, <1>i DEF Review, NoBody
<1>12. CASE Rework /\ UNCHANGED closeVars
  BY <1>12, <1>i DEF Rework, save_checkpoint, NoBody
<1>13. CASE Stuck /\ UNCHANGED closeVars
  BY <1>13, <1>i DEF Stuck, NoBody
<1>14. CASE Accept /\ UNCHANGED closeVars
  BY <1>14, <1>i DEF Accept, save_checkpoint, NoBody
<1>15. CASE CommitStep(CommitAgain)
  BY <1>15, <1>i DEF CommitStep, CommitAgain, NoBody
<1>16. CASE CommitStep(CommitNothing)
  BY <1>16, <1>i DEF CommitStep, CommitNothing, NoBody
<1>17. CASE CommitStep(CommitTree)
  BY <1>17, <1>i DEF CommitStep, CommitTree, NoBody
<1>18. CASE CommitStep(RecordOp)
  BY <1>18, <1>i DEF CommitStep, RecordOp, NoBody
<1>19. CASE update_subtask_index /\ UNCHANGED closeVars
  BY <1>19, <1>i DEF update_subtask_index, NoBody
<1>20. CASE set_subtask_commit /\ UNCHANGED closeVars
  BY <1>20, <1>i DEF set_subtask_commit, NoBody
<1>21. CASE CountUnit /\ UNCHANGED closeVars
  BY <1>21, <1>i DEF CountUnit, NoBody
<1>22. CASE AllUnits /\ UNCHANGED closeVars
  BY <1>22, <1>i DEF AllUnits, save_checkpoint, NoBody
<1>23. CASE Resume /\ UNCHANGED closeVars
  BY <1>23, <1>i DEF Resume, ResumeAt, _rebuild_decomposition, NoBody
<1>24. CASE \E f \in BOOLEAN : _engine_post_node(f)
  BY <1>24, <1>i DEF _engine_post_node, observe, NoBody
<1>25. CASE finalize
  <2>1. follow_ups' \subseteq Items
    BY <1>25, <1>o DEF finalize, _finalize_turn, merge_follow_ups, Open, Items
  <2>2. QED
    BY <1>25, <1>i, <2>1 DEF finalize, _finalize_turn
<1>26. CASE _write_summary_json
  BY <1>26, <1>i DEF _write_summary_json, Stay, NoBody
<1>27. CASE _engine_finalize
  <2>1. summary_md' \in Bodies
    BY <1>27, <1>i DEF _engine_finalize, Bodies
  <2>2. degraded' \in BOOLEAN
    BY <1>27 DEF _engine_finalize
  <2>3. QED
    BY <1>27, <1>i, <2>1, <2>2 DEF _engine_finalize
<1>28. CASE ReportJson
  <2>1. follow_ups' \subseteq Items
    BY <1>28, <1>i, <1>o DEF ReportJson, merge_follow_ups, Open, Items
  <2>2. QED
    BY <1>28, <1>i, <2>1 DEF ReportJson
<1>29. CASE write_summary_report
  <2>1. summary_md' \in Bodies
    BY <1>29, <1>i DEF write_summary_report, Bodies
  <2>2. QED
    BY <1>29, <1>i, <2>1 DEF write_summary_report
<1>30. CASE SummaryStands
  BY <1>30, <1>i DEF SummaryStands, Stay, NoBody
<1>31. CASE _append_follow_ups_file
  BY <1>31, <1>i DEF _append_follow_ups_file, AfterFile, Stay, NoBody
<1>32. CASE PublishDone
  BY <1>32, <1>i DEF PublishDone, Stay, NoBody
<1>33. CASE PublishFailed
  BY <1>33, <1>i DEF PublishFailed, Stay, NoBody
<1>34. CASE _explain_terminal
  BY <1>34, <1>i DEF _explain_terminal, Stay, NoBody
<1>35. CASE Die
  BY <1>35, <1>i DEF Die, LoseMemory, ForgetTurn, Working, NoBody
<1>36. CASE ClearTree
  BY <1>36, <1>i DEF ClearTree, NoBody
<1>37. CASE \E r \in BOOLEAN : RerunContinue(r)
  BY <1>37, <1>i DEF RerunContinue, cmd_rerun, plan_rerun, _resolve_reset_fix_budget,
       _apply_continue_controls, LoseMemory, ForgetTurn, NoBody
<1>38. CASE RerunFresh
  <2>1. NoBody \in Bodies
    BY DEF NoBody, Bodies
  <2>2. QED
    BY <1>38, <1>i, <2>1 DEF RerunFresh, ForgetTurn
<1>39. CASE UNCHANGED allVars
  BY <1>39, <1>i DEF allVars, subVars, NoBody
<1>q. QED
  BY <1>1, <1>2, <1>3, <1>4, <1>5, <1>6, <1>7, <1>8, <1>9, <1>10, <1>11, <1>12, <1>13,
       <1>14, <1>15, <1>16, <1>17, <1>18, <1>19, <1>20, <1>21, <1>22, <1>23, <1>24,
       <1>25, <1>26, <1>27, <1>28, <1>29, <1>30, <1>31, <1>32, <1>33, <1>34, <1>35,
       <1>36, <1>37, <1>38, <1>39, Cases

\* No step parts the memory of the process from the tables.
LEMMA MemStep == ASSUME CloseInvariant, [CloseNext]_allVars PROVE MemInv'
<1> USE DEF MemInv, To, splitVars, taskFile, gitVars, memVars, closeVars, turnVars, summaryVars
<1>i. /\ PhaseInv /\ MemInv /\ authored \in Authored \cup {NoPlan}
      /\ final \in {"done", "manual"} /\ task.accepted \in BOOLEAN
      /\ ckpt.node \in {"none", "planning", "implement", "review", "publish"}
  BY DEF CloseInvariant, CloseTypeOK, TableTypes, TurnTypes
<1>1. CASE Begin /\ UNCHANGED closeVars
  BY <1>1, <1>i DEF Begin, save_checkpoint, LoopPhases
<1>2. CASE \E p \in DOMAIN Plans : Planning(p) /\ UNCHANGED closeVars
  BY <1>2, <1>i DEF Planning, LoopPhases, PhaseInv
<1>3. CASE PersistTask /\ UNCHANGED closeVars
  <2>1. task'.accepted = plan'.accepted
    BY <1>3 DEF PersistTask, Single
  <2>2. AcceptedTodo => /\ task'.accepted /\ task'.count = Len(Plans[todo]) /\ plan'.units = 1..task'.count
                        /\ Accepted(Plans[todo])
    BY <1>3, <1>i DEF PersistTask, AcceptedTodo, decide_decomposition, CloseInvariant, CloseTypeOK, TableTypes
  <2>3. phase = "persist" /\ phase' \in {"persist_index", "leave"}
    BY <1>3 DEF PersistTask
  <2>4. phase' = "persist_index" => AcceptedTodo /\ todo' = todo /\ todo \in DOMAIN Plans
    BY <1>3, <1>i DEF PersistTask
  <2>5. operator' = operator /\ authored' = authored /\ ckpt' = ckpt
    BY <1>3 DEF PersistTask
  <2>6. QED
    BY <1>i, <2>1, <2>2, <2>3, <2>4, <2>5 DEF LoopPhases
<1>4. CASE write_subtask_artifacts /\ UNCHANGED closeVars
  BY <1>4, <1>i DEF write_subtask_artifacts, LoopPhases
<1>5. CASE insert_subtasks /\ UNCHANGED closeVars
  BY <1>5, <1>i DEF insert_subtasks, LoopPhases
<1>6. CASE LeavePre /\ UNCHANGED closeVars
  BY <1>6, <1>i DEF LeavePre, save_checkpoint, LoopPhases
<1>7. CASE FanOut /\ UNCHANGED closeVars
  BY <1>7, <1>i DEF FanOut, LoopPhases
<1>8. CASE NextUnit /\ UNCHANGED closeVars
  BY <1>8, <1>i DEF NextUnit, LoopPhases
<1>9. CASE EnterUnit /\ UNCHANGED closeVars
  BY <1>9, <1>i DEF EnterUnit, save_checkpoint, LoopPhases
<1>10. CASE \E c \in BOOLEAN : Implement(c) /\ UNCHANGED closeVars
  BY <1>10, <1>i DEF Implement, save_checkpoint, LoopPhases
<1>11. CASE \E fs \in Reports[unit] : Review(fs) /\ UNCHANGED closeVars
  BY <1>11, <1>i DEF Review, LoopPhases
<1>12. CASE Rework /\ UNCHANGED closeVars
  BY <1>12, <1>i DEF Rework, save_checkpoint, LoopPhases, PhaseInv
<1>13. CASE Stuck /\ UNCHANGED closeVars
  BY <1>13, <1>i DEF Stuck, LoopPhases
<1>14. CASE Accept /\ UNCHANGED closeVars
  BY <1>14, <1>i DEF Accept, save_checkpoint, LoopPhases
<1>15. CASE CommitStep(CommitAgain)
  BY <1>15, <1>i DEF CommitStep, CommitAgain, LoopPhases
<1>16. CASE CommitStep(CommitNothing)
  BY <1>16, <1>i DEF CommitStep, CommitNothing, LoopPhases
<1>17. CASE CommitStep(CommitTree)
  BY <1>17, <1>i DEF CommitStep, CommitTree, LoopPhases
<1>18. CASE CommitStep(RecordOp)
  BY <1>18, <1>i DEF CommitStep, RecordOp, LoopPhases
<1>19. CASE update_subtask_index /\ UNCHANGED closeVars
  BY <1>19, <1>i DEF update_subtask_index, LoopPhases
<1>20. CASE set_subtask_commit /\ UNCHANGED closeVars
  BY <1>20, <1>i DEF set_subtask_commit, LoopPhases
<1>21. CASE CountUnit /\ UNCHANGED closeVars
  BY <1>21, <1>i DEF CountUnit, LoopPhases
<1>22. CASE AllUnits /\ UNCHANGED closeVars
  BY <1>22, <1>i DEF AllUnits, save_checkpoint, LoopPhases
<1>23. CASE Resume /\ UNCHANGED closeVars
  <2>1. plan'.accepted = task'.accepted
    BY <1>23, <1>i DEF Resume, _rebuild_decomposition, Single
  <2>2. phase' = ResumeAt
    BY <1>23 DEF Resume
  <2>3. /\ ResumeAt \in {"begin", "planning", "fan_out", "finalize", "implement", "review"}
        /\ ResumeAt = "fan_out" => task.accepted
    BY <1>i DEF ResumeAt
  <2>4. unit' = Whole /\ task' = task /\ operator' = operator /\ authored' = authored
    BY <1>23, <1>i DEF Resume
  <2>5. QED
    BY <1>i, <2>1, <2>2, <2>3, <2>4
<1>24. CASE \E f \in BOOLEAN : _engine_post_node(f)
  BY <1>24, <1>i DEF _engine_post_node, observe, LoopPhases
<1>25. CASE finalize
  BY <1>25, <1>i DEF finalize, _finalize_turn, Stay, LoopPhases
<1>26. CASE _write_summary_json
  BY <1>26, <1>i DEF _write_summary_json, Stay, LoopPhases
<1>27. CASE _engine_finalize
  BY <1>27, <1>i DEF _engine_finalize, Stay, LoopPhases
<1>28. CASE ReportJson
  BY <1>28, <1>i DEF ReportJson, Stay, LoopPhases
<1>29. CASE write_summary_report
  BY <1>29, <1>i DEF write_summary_report, Stay, LoopPhases
<1>30. CASE SummaryStands
  BY <1>30, <1>i DEF SummaryStands, Stay, LoopPhases
<1>31. CASE _append_follow_ups_file
  BY <1>31, <1>i DEF _append_follow_ups_file, AfterFile, Stay, LoopPhases
<1>32. CASE PublishDone
  BY <1>32, <1>i DEF PublishDone, Stay, LoopPhases
<1>33. CASE PublishFailed
  BY <1>33, <1>i DEF PublishFailed, Stay, LoopPhases
<1>34. CASE _explain_terminal
  BY <1>34, <1>i DEF _explain_terminal, Stay, LoopPhases
<1>35. CASE Die
  BY <1>35, <1>i DEF Die, LoseMemory, ForgetTurn, Working, LoopPhases, Single, NoPlan
<1>36. CASE ClearTree
  BY <1>36, <1>i DEF ClearTree, LoopPhases
<1>37. CASE \E r \in BOOLEAN : RerunContinue(r)
  BY <1>37, <1>i DEF RerunContinue, cmd_rerun, plan_rerun, _resolve_reset_fix_budget,
       _apply_continue_controls, LoseMemory, ForgetTurn, LoopPhases, Single
<1>38. CASE RerunFresh
  <2>1. plan'.accepted = FALSE /\ task'.accepted = FALSE
    BY <1>38 DEF RerunFresh, reset_task_for_rerun, Single
  <2>2. phase' = (IF authored # NoPlan THEN "persist" ELSE "begin") /\ todo' = authored
    BY <1>38 DEF RerunFresh
  <2>3. operator' = (authored # NoPlan) /\ authored' = authored
    BY <1>38 DEF RerunFresh
  <2>4. authored # NoPlan => authored \in Authored /\ authored \in DOMAIN Plans
    BY <1>i, SubtasksAssumption
  <2>5. unit' = Whole
    BY <1>38 DEF RerunFresh
  <2>6. QED
    BY <2>1, <2>2, <2>3, <2>4, <2>5
<1>39. CASE UNCHANGED allVars
  BY <1>39, <1>i DEF allVars, subVars, LoopPhases
<1>q. QED
  BY <1>1, <1>2, <1>3, <1>4, <1>5, <1>6, <1>7, <1>8, <1>9, <1>10, <1>11, <1>12, <1>13,
       <1>14, <1>15, <1>16, <1>17, <1>18, <1>19, <1>20, <1>21, <1>22, <1>23, <1>24,
       <1>25, <1>26, <1>27, <1>28, <1>29, <1>30, <1>31, <1>32, <1>33, <1>34, <1>35,
       <1>36, <1>37, <1>38, <1>39, Cases

\* No step commits a unit before the run has left planning.
LEMMA EarlyStep == ASSUME CloseInvariant, [CloseNext]_allVars PROVE EarlyInv'
<1> USE DEF EarlyInv, Pre, To, splitVars, taskFile, gitVars, memVars, closeVars, turnVars, summaryVars
<1>i. /\ PhaseInv /\ MemInv /\ EarlyInv
  BY DEF CloseInvariant
<1>t. /\ rows \in Table /\ op \in [Orders -> Nat] /\ unit \in Units /\ sha \in Nat
      /\ ckpt.node \in {"none", "planning", "implement", "review", "publish"}
      /\ ckpt \in [node : {"none", "planning", "implement", "review", "publish"}, fix : 0..MaxFix]
      /\ commits \in Seq(SUBSET Work) /\ task.accepted \in BOOLEAN
  BY DEF CloseInvariant, CloseTypeOK, TableTypes, BranchTypes, RunTypes
<1>1. CASE Begin /\ UNCHANGED closeVars
  BY <1>1, <1>i, <1>t DEF Begin, save_checkpoint, CommittedRows, MemInv, PhaseInv,
       PrePhases
<1>2. CASE \E p \in DOMAIN Plans : Planning(p) /\ UNCHANGED closeVars
  BY <1>2, <1>i, <1>t DEF Planning, CommittedRows, MemInv, PhaseInv, PrePhases
<1>3. CASE PersistTask /\ UNCHANGED closeVars
  BY <1>3, <1>i, <1>t DEF PersistTask, CommittedRows, MemInv, PhaseInv, PrePhases
<1>4. CASE write_subtask_artifacts /\ UNCHANGED closeVars
  BY <1>4, <1>i, <1>t DEF write_subtask_artifacts, CommittedRows, MemInv, PhaseInv,
       PrePhases
<1>5. CASE insert_subtasks /\ UNCHANGED closeVars
  BY <1>5, <1>i, <1>t DEF insert_subtasks, CommittedRows, MemInv, PhaseInv, PrePhases
<1>6. CASE LeavePre /\ UNCHANGED closeVars
  BY <1>6, <1>i, <1>t DEF LeavePre, save_checkpoint, CommittedRows, MemInv, PhaseInv,
       PrePhases
<1>7. CASE FanOut /\ UNCHANGED closeVars
  BY <1>7, <1>i, <1>t DEF FanOut, CommittedRows, MemInv, PhaseInv, PrePhases
<1>8. CASE NextUnit /\ UNCHANGED closeVars
  BY <1>8, <1>i, <1>t DEF NextUnit, CommittedRows, MemInv, PhaseInv, PrePhases
<1>9. CASE EnterUnit /\ UNCHANGED closeVars
  BY <1>9, <1>i, <1>t DEF EnterUnit, save_checkpoint, CommittedRows, MemInv, PhaseInv,
       PrePhases
<1>10. CASE \E c \in BOOLEAN : Implement(c) /\ UNCHANGED closeVars
  BY <1>10, <1>i, <1>t DEF Implement, save_checkpoint, CommittedRows, MemInv, PhaseInv,
       PrePhases
<1>11. CASE \E fs \in Reports[unit] : Review(fs) /\ UNCHANGED closeVars
  BY <1>11, <1>i, <1>t DEF Review, CommittedRows, MemInv, PhaseInv, PrePhases
<1>12. CASE Rework /\ UNCHANGED closeVars
  BY <1>12, <1>i, <1>t DEF Rework, save_checkpoint, CommittedRows, MemInv, PhaseInv,
       PrePhases
<1>13. CASE Stuck /\ UNCHANGED closeVars
  BY <1>13, <1>i, <1>t DEF Stuck, CommittedRows, MemInv, PhaseInv, PrePhases
<1>14. CASE Accept /\ UNCHANGED closeVars
  BY <1>14, <1>i, <1>t DEF Accept, save_checkpoint, CommittedRows, MemInv, PhaseInv,
       PrePhases
<1>15. CASE CommitStep(CommitAgain)
  BY <1>15, <1>i, <1>t DEF CommitStep, CommitAgain, CommittedRows, MemInv, PhaseInv,
       PrePhases
<1>16. CASE CommitStep(CommitNothing)
  BY <1>16, <1>i, <1>t DEF CommitStep, CommitNothing, CommittedRows, MemInv, PhaseInv,
       PrePhases
<1>17. CASE CommitStep(CommitTree)
  BY <1>17, <1>i, <1>t DEF CommitStep, CommitTree, CommittedRows, MemInv, PhaseInv,
       PrePhases
<1>18. CASE CommitStep(RecordOp)
  BY <1>18, <1>i, <1>t DEF CommitStep, RecordOp, CommittedRows, MemInv, PhaseInv,
       PrePhases
<1>19. CASE update_subtask_index /\ UNCHANGED closeVars
  BY <1>19, <1>i, <1>t DEF update_subtask_index, CommittedRows, MemInv, PhaseInv,
       PrePhases
<1>20. CASE set_subtask_commit /\ UNCHANGED closeVars
  BY <1>20, <1>i, <1>t DEF set_subtask_commit, CommittedRows, MemInv, PhaseInv,
       PrePhases
<1>21. CASE CountUnit /\ UNCHANGED closeVars
  BY <1>21, <1>i, <1>t DEF CountUnit, CommittedRows, MemInv, PhaseInv, PrePhases
<1>22. CASE AllUnits /\ UNCHANGED closeVars
  BY <1>22, <1>i, <1>t DEF AllUnits, save_checkpoint, CommittedRows, MemInv, PhaseInv,
       PrePhases
<1>23. CASE Resume /\ UNCHANGED closeVars
  BY <1>23, <1>i, <1>t DEF Resume, ResumeAt, _rebuild_decomposition, CommittedRows,
       MemInv, PhaseInv, PrePhases
<1>24. CASE \E f \in BOOLEAN : _engine_post_node(f)
  BY <1>24, <1>i, <1>t DEF _engine_post_node, observe, CommittedRows, MemInv, PhaseInv,
       PrePhases
<1>25. CASE finalize
  BY <1>25, <1>i, <1>t DEF finalize, _finalize_turn, Stay, CommittedRows, MemInv,
       PhaseInv, PrePhases
<1>26. CASE _write_summary_json
  BY <1>26, <1>i, <1>t DEF _write_summary_json, Stay, CommittedRows, MemInv, PhaseInv,
       PrePhases
<1>27. CASE _engine_finalize
  BY <1>27, <1>i, <1>t DEF _engine_finalize, Stay, CommittedRows, MemInv, PhaseInv,
       PrePhases
<1>28. CASE ReportJson
  BY <1>28, <1>i, <1>t DEF ReportJson, Stay, CommittedRows, MemInv, PhaseInv, PrePhases
<1>29. CASE write_summary_report
  BY <1>29, <1>i, <1>t DEF write_summary_report, Stay, CommittedRows, MemInv, PhaseInv,
       PrePhases
<1>30. CASE SummaryStands
  BY <1>30, <1>i, <1>t DEF SummaryStands, Stay, CommittedRows, MemInv, PhaseInv,
       PrePhases
<1>31. CASE _append_follow_ups_file
  BY <1>31, <1>i, <1>t DEF _append_follow_ups_file, AfterFile, Stay, CommittedRows,
       MemInv, PhaseInv, PrePhases
<1>32. CASE PublishDone
  BY <1>32, <1>i, <1>t DEF PublishDone, Stay, CommittedRows, MemInv, PhaseInv, PrePhases
<1>33. CASE PublishFailed
  BY <1>33, <1>i, <1>t DEF PublishFailed, Stay, CommittedRows, MemInv, PhaseInv,
       PrePhases
<1>34. CASE _explain_terminal
  BY <1>34, <1>i, <1>t DEF _explain_terminal, Stay, CommittedRows, MemInv, PhaseInv,
       PrePhases
<1>35. CASE Die
  BY <1>35, <1>i, <1>t DEF Die, LoseMemory, ForgetTurn, Working, CommittedRows, MemInv,
       PhaseInv, PrePhases
<1>36. CASE ClearTree
  BY <1>36, <1>i, <1>t DEF ClearTree, CommittedRows, MemInv, PhaseInv, PrePhases
<1>37. CASE \E r \in BOOLEAN : RerunContinue(r)
  BY <1>37, <1>i, <1>t DEF RerunContinue, cmd_rerun, plan_rerun,
       _resolve_reset_fix_budget, _apply_continue_controls, LoseMemory, ForgetTurn,
       CommittedRows, MemInv, PhaseInv, PrePhases
<1>38. CASE RerunFresh
  <2>1. (\A o \in Orders : op'[o] = 0) /\ (\A o \in Orders : rows'[o].sha = 0)
    BY <1>38 DEF RerunFresh, reset_task_for_rerun, NoRow
  <2>2. tree' = {} /\ commits' = <<{}>> /\ committed' = {} /\ fix' = 0 /\ ckpt'.fix = 0
    BY <1>38 DEF RerunFresh, plan_rerun, reset_task_for_rerun
  <2>3. Len(commits') = 1
    BY <2>2
  <2>4. QED
    BY <2>1, <2>2, <2>3 DEF CommittedRows
<1>39. CASE UNCHANGED allVars
  BY <1>39, <1>i, <1>t DEF allVars, subVars, CommittedRows, MemInv, PhaseInv, PrePhases
<1>q. QED
  BY <1>1, <1>2, <1>3, <1>4, <1>5, <1>6, <1>7, <1>8, <1>9, <1>10, <1>11, <1>12, <1>13,
       <1>14, <1>15, <1>16, <1>17, <1>18, <1>19, <1>20, <1>21, <1>22, <1>23, <1>24,
       <1>25, <1>26, <1>27, <1>28, <1>29, <1>30, <1>31, <1>32, <1>33, <1>34, <1>35,
       <1>36, <1>37, <1>38, <1>39, Cases

\* The ranges the later lemmas cite.
LEMMA Typed ==
  ASSUME CloseInvariant
  PROVE  /\ rows \in Table /\ index \in Table /\ unit \in Units /\ sha \in Nat
         /\ ckpt.node \in {"none", "planning", "implement", "review", "publish"}
         /\ ckpt.fix \in Nat /\ fix \in Nat /\ op \in [Orders -> Nat]
         /\ commits \in Seq(SUBSET Work) /\ tree \in SUBSET Work
         /\ task.accepted \in BOOLEAN /\ disabled \in BOOLEAN /\ operator \in BOOLEAN
         /\ todo \in DOMAIN Plans \cup {NoPlan} /\ NoPlan \notin DOMAIN Plans
         /\ crashes \in Nat /\ reruns \in Nat /\ plan.units \subseteq Orders
         /\ committed \subseteq Orders /\ evals \in Seq(EvaluationRows)
         /\ final \in {"done", "manual"} /\ task.count \in Nat /\ Len(commits) \in Nat
<1>1. TableTypes /\ BranchTypes /\ RunTypes /\ TurnTypes
  BY DEF CloseInvariant, CloseTypeOK
<1>2. MaxFix \in Nat /\ MaxCrashes \in Nat /\ MaxReruns \in Nat /\ MaxSubtasks \in Nat
      /\ NoPlan \notin DOMAIN Plans
  BY RunRecordAssumption, SubtasksAssumption, CloseOutAssumption
<1>3. /\ rows \in Table /\ index \in Table /\ op \in [Orders -> Nat]
      /\ evals \in Seq(EvaluationRows)
  BY <1>1 DEF TableTypes
<1>4. /\ ckpt.node \in {"none", "planning", "implement", "review", "publish"}
      /\ ckpt.fix \in Nat /\ task.accepted \in BOOLEAN /\ task.count \in Nat
  BY <1>1, <1>2 DEF TableTypes, Units, Orders, Whole
<1>5. disabled \in BOOLEAN
  BY <1>1 DEF TableTypes
<1>6. commits \in Seq(SUBSET Work) /\ tree \in SUBSET Work /\ sha \in Nat /\ Len(commits) \in Nat
  BY <1>1 DEF BranchTypes
<1>7. unit \in Units /\ plan.units \subseteq Orders /\ committed \subseteq Orders
  BY <1>1 DEF RunTypes
<1>8. operator \in BOOLEAN
  BY <1>1 DEF RunTypes
<1>9. todo \in DOMAIN Plans \cup {NoPlan} /\ fix \in Nat /\ crashes \in Nat /\ reruns \in Nat
  BY <1>1, <1>2 DEF RunTypes
<1>10. final \in {"done", "manual"}
  BY <1>1 DEF TurnTypes
<1>11. QED
  BY <1>2, <1>3, <1>4, <1>5, <1>6, <1>7, <1>8, <1>9, <1>10

\* The unit at hand is of the plan and not committed.
LEMMA UnitNext ==
  ASSUME CloseInvariant, task.accepted,
         phase \in UnitPhases \cup {"stuck"} \/ phase = "count"
  PROVE  /\ unit \in plan.units /\ unit \in Orders /\ unit \notin committed
         /\ phase # "count" => unit \notin CommittedRows
         /\ \A v \in plan.units : v < unit => v \in CommittedRows
<1>1. UnitInv /\ plan.units \subseteq Orders
  BY Typed DEF CloseInvariant
<1>2. unit \in Left /\ \A v \in Left : unit <= v
  BY <1>1 DEF UnitInv
<1>3. unit \in plan.units /\ unit \in Orders /\ unit \notin committed
  BY <1>1, <1>2 DEF Left
<1>4. \A v \in plan.units : v < unit => v \in committed
  BY <1>1, <1>2, <1>3 DEF Left, Orders
<1>5. \A v \in plan.units : v < unit => v \in CommittedRows
  BY <1>1, <1>3, <1>4 DEF UnitInv, Orders
<1>6. phase # "count" => unit \notin CommittedRows
  BY <1>1, <1>3 DEF UnitInv
<1>7. QED
  BY <1>3, <1>5, <1>6

\* No step leaves the rows or the index of the decision torn once it is gone
\* by.
LEMMA RowsStep == ASSUME CloseInvariant, [CloseNext]_allVars PROVE RowsInv'
<1> USE DEF To, splitVars, taskFile, gitVars, memVars, closeVars, turnVars, summaryVars
<1>i. /\ PhaseInv /\ MemInv /\ EarlyInv /\ RowsInv
  BY DEF CloseInvariant
<1>t. /\ rows \in Table /\ index \in Table /\ unit \in Units /\ sha \in Nat
      /\ ckpt.node \in {"none", "planning", "implement", "review", "publish"}
      /\ task.accepted \in BOOLEAN /\ disabled \in BOOLEAN /\ operator \in BOOLEAN
      /\ todo \in DOMAIN Plans \cup {NoPlan} /\ NoPlan \notin DOMAIN Plans
      /\ crashes \in Nat /\ plan.units \subseteq Orders /\ task.count \in Nat
  BY Typed
<1>1. CASE Begin /\ UNCHANGED closeVars
  BY <1>1, <1>i, <1>t DEF Begin, save_checkpoint, RowsInv, Settled, Persisted,
       Unwritten, Planned, CommittedRows, Pre, MemInv, PhaseInv, PrePhases, EarlyInv
<1>2. CASE \E p \in DOMAIN Plans : Planning(p) /\ UNCHANGED closeVars
  BY <1>2, <1>i, <1>t DEF Planning, RowsInv, Settled, Persisted, Unwritten, Planned,
       CommittedRows, Pre, MemInv, PhaseInv, PrePhases, EarlyInv
<1>3. CASE PersistTask /\ UNCHANGED closeVars
  BY <1>3, <1>i, <1>t DEF PersistTask, RowsInv, Settled, Persisted, Unwritten, Planned,
       CommittedRows, Pre, MemInv, PhaseInv, PrePhases, EarlyInv
<1>4. CASE write_subtask_artifacts /\ UNCHANGED closeVars
  <2>1. /\ todo \in DOMAIN Plans /\ task.count = Len(Plans[todo]) /\ task.accepted
        /\ task.count \in 2..MaxSubtasks /\ plan.units = 1..task.count
    BY <1>4, <1>i DEF write_subtask_artifacts, MemInv, Accepted
  <2>2. \A o \in Orders : index'[o] # NoRow <=> o <= task.count
    BY <1>4, <1>t, <2>1 DEF write_subtask_artifacts, NoRow
  <2>3. Pre /\ CommittedRows = {}
    BY <1>4, <1>i DEF write_subtask_artifacts, PhaseInv, PrePhases, EarlyInv
  <2>4. /\ phase = "persist_index" /\ phase' = "persist_rows"
        /\ UNCHANGED <<task, rows, ckpt, plan, unit, sha, disabled, operator, crashes>>
    BY <1>4 DEF write_subtask_artifacts
  <2>5. CommittedRows' = {} /\ Planned' = Planned /\ Pre' /\ ~Settled'
    BY <2>3, <2>4 DEF CommittedRows, Planned, Pre, Settled
  <2>6. QED
    BY <1>i, <2>2, <2>4, <2>5 DEF RowsInv
<1>5. CASE insert_subtasks /\ UNCHANGED closeVars
  <2>1. /\ todo \in DOMAIN Plans /\ task.count = Len(Plans[todo]) /\ task.accepted
        /\ task.count \in 2..MaxSubtasks /\ plan.units = 1..task.count
    BY <1>5, <1>i DEF insert_subtasks, MemInv, Accepted
  <2>2. \A o \in Orders : index[o] # NoRow <=> o <= task.count
    BY <1>5, <1>i DEF insert_subtasks, RowsInv
  <2>3. Pre /\ CommittedRows = {}
    BY <1>5, <1>i DEF insert_subtasks, PhaseInv, PrePhases, EarlyInv
  <2>4. /\ phase = "persist_rows" /\ phase' \in {"begin", "leave"}
        /\ UNCHANGED <<task, index, ckpt, plan, unit, sha, disabled, operator, crashes>>
    BY <1>5 DEF insert_subtasks
  <2>5. \A o \in Orders : rows[o].sha = 0
    BY <2>3 DEF CommittedRows
  <2>6. \A o \in Orders : rows'[o] = IF o <= task.count THEN [plan |-> todo, sha |-> 0] ELSE rows[o]
    BY <1>5, <2>1, <2>5 DEF insert_subtasks
  <2>7. [plan |-> todo, sha |-> 0] # NoRow
    BY <1>t, <2>1 DEF NoRow
  <2>8. 1..task.count \subseteq Orders
    BY <2>1, RunRecordAssumption DEF Orders
  <2>9. \A o \in Orders : o \in Planned' <=> o \in Planned \/ o <= task.count
    BY <2>6, <2>7 DEF Planned
  <2>10. CommittedRows' = {}
    BY <2>5, <2>6 DEF CommittedRows
  <2>11. \A o \in Planned' : 1..o \subseteq Planned'
    BY <1>i, <2>1, <2>8, <2>9 DEF RowsInv, Orders, Planned
  <2>12. 1..task.count \subseteq Planned'
    BY <2>8, <2>9 DEF Orders
  <2>13. Persisted'
    BY <2>1, <2>2, <2>4, <2>12 DEF Persisted
  <2>14. plan'.units \subseteq Planned' /\ (\A o \in plan'.units : 1..o \subseteq plan'.units)
         /\ 1..task'.count \subseteq plan'.units
    BY <2>1, <2>4, <2>12
  <2>15. QED
    BY <2>4, <2>10, <2>11, <2>13, <2>14 DEF RowsInv
<1>6. CASE LeavePre /\ UNCHANGED closeVars
  BY <1>6, <1>i, <1>t DEF LeavePre, save_checkpoint, RowsInv, Settled, Persisted,
       Unwritten, Planned, CommittedRows, Pre, MemInv, PhaseInv, PrePhases, EarlyInv
<1>7. CASE FanOut /\ UNCHANGED closeVars
  BY <1>7, <1>i, <1>t DEF FanOut, RowsInv, Settled, Persisted, Unwritten, Planned,
       CommittedRows, Pre, MemInv, PhaseInv, PrePhases, EarlyInv
<1>8. CASE NextUnit /\ UNCHANGED closeVars
  BY <1>8, <1>i, <1>t DEF NextUnit, RowsInv, Settled, Persisted, Unwritten, Planned,
       CommittedRows, Pre, MemInv, PhaseInv, PrePhases, EarlyInv
<1>9. CASE EnterUnit /\ UNCHANGED closeVars
  BY <1>9, <1>i, <1>t DEF EnterUnit, save_checkpoint, RowsInv, Settled, Persisted,
       Unwritten, Planned, CommittedRows, Pre, MemInv, PhaseInv, PrePhases, EarlyInv
<1>10. CASE \E c \in BOOLEAN : Implement(c) /\ UNCHANGED closeVars
  BY <1>10, <1>i, <1>t DEF Implement, save_checkpoint, RowsInv, Settled, Persisted,
       Unwritten, Planned, CommittedRows, Pre, MemInv, PhaseInv, PrePhases, EarlyInv
<1>11. CASE \E fs \in Reports[unit] : Review(fs) /\ UNCHANGED closeVars
  BY <1>11, <1>i, <1>t DEF Review, RowsInv, Settled, Persisted, Unwritten, Planned,
       CommittedRows, Pre, MemInv, PhaseInv, PrePhases, EarlyInv
<1>12. CASE Rework /\ UNCHANGED closeVars
  BY <1>12, <1>i, <1>t DEF Rework, save_checkpoint, RowsInv, Settled, Persisted,
       Unwritten, Planned, CommittedRows, Pre, MemInv, PhaseInv, PrePhases, EarlyInv
<1>13. CASE Stuck /\ UNCHANGED closeVars
  BY <1>13, <1>i, <1>t DEF Stuck, RowsInv, Settled, Persisted, Unwritten, Planned,
       CommittedRows, Pre, MemInv, PhaseInv, PrePhases, EarlyInv
<1>14. CASE Accept /\ UNCHANGED closeVars
  BY <1>14, <1>i, <1>t DEF Accept, save_checkpoint, RowsInv, Settled, Persisted,
       Unwritten, Planned, CommittedRows, Pre, MemInv, PhaseInv, PrePhases, EarlyInv
<1>15. CASE CommitStep(CommitAgain)
  BY <1>15, <1>i, <1>t DEF CommitStep, CommitAgain, RowsInv, Settled, Persisted,
       Unwritten, Planned, CommittedRows, Pre, MemInv, PhaseInv, PrePhases, EarlyInv
<1>16. CASE CommitStep(CommitNothing)
  BY <1>16, <1>i, <1>t DEF CommitStep, CommitNothing, RowsInv, Settled, Persisted,
       Unwritten, Planned, CommittedRows, Pre, MemInv, PhaseInv, PrePhases, EarlyInv
<1>17. CASE CommitStep(CommitTree)
  BY <1>17, <1>i, <1>t DEF CommitStep, CommitTree, RowsInv, Settled, Persisted,
       Unwritten, Planned, CommittedRows, Pre, MemInv, PhaseInv, PrePhases, EarlyInv
<1>18. CASE CommitStep(RecordOp)
  BY <1>18, <1>i, <1>t DEF CommitStep, RecordOp, RowsInv, Settled, Persisted, Unwritten,
       Planned, CommittedRows, Pre, MemInv, PhaseInv, PrePhases, EarlyInv
<1>19. CASE update_subtask_index /\ UNCHANGED closeVars
  <2>1. task.accepted /\ sha \in 1..Tip /\ phase = "index"
    BY <1>19 DEF update_subtask_index, CloseInvariant, MemInv, BranchInv, ShaKnown
  <2>2. unit \in Orders /\ unit \notin CommittedRows
    BY <2>1, UnitNext DEF UnitPhases
  <2>3. sha # 0
    BY <2>1, <1>t
  <2>4. /\ phase' \in {"row", "raised"}
        /\ UNCHANGED <<task, rows, ckpt, plan, unit, sha, disabled, operator, crashes>>
        /\ phase' = "row" => index[unit] # NoRow /\ index' = [index EXCEPT ![unit].sha = sha]
        /\ phase' # "row" => index' = index
    BY <1>19 DEF update_subtask_index
  <2>5. /\ \A o \in Orders \ {unit} : index'[o] = index[o]
        /\ phase' = "row" => index'[unit].sha = sha /\ index'[unit] # NoRow
    BY <1>t, <2>2, <2>3, <2>4 DEF Table, NoRow
  <2>6. \A o \in Orders : index'[o] # NoRow <=> index[o] # NoRow
    BY <2>4, <2>5
  <2>7. Planned' = Planned /\ CommittedRows' = CommittedRows /\ (Pre' <=> Pre) /\ Settled
    BY <2>1, <2>4, <1>i DEF Planned, CommittedRows, Pre, Settled, PhaseInv, PrePhases
  <2>8. \A u \in CommittedRows' : index'[u].sha = rows'[u].sha
    BY <1>i, <2>2, <2>4, <2>5, <2>7 DEF RowsInv, CommittedRows
  <2>9. (Persisted <=> Persisted') /\ (Unwritten <=> Unwritten')
    BY <2>4, <2>6, <2>7 DEF Persisted, Unwritten
  <2>10. QED
    BY <1>i, <2>1, <2>4, <2>5, <2>7, <2>8, <2>9 DEF RowsInv
<1>20. CASE set_subtask_commit /\ UNCHANGED closeVars
  <2>1. task.accepted /\ sha \in 1..Tip /\ phase = "row" /\ phase' = "count"
    BY <1>20 DEF set_subtask_commit, CloseInvariant, MemInv, BranchInv, ShaKnown
  <2>2. unit \in Orders /\ unit \in plan.units
    BY <2>1, UnitNext DEF UnitPhases
  <2>3. sha # 0
    BY <2>1, <1>t
  <2>4. /\ rows' = [rows EXCEPT ![unit].sha = sha]
        /\ UNCHANGED <<task, index, ckpt, plan, unit, sha, disabled, operator, crashes>>
    BY <1>20 DEF set_subtask_commit
  <2>5. /\ \A o \in Orders \ {unit} : rows'[o] = rows[o]
        /\ rows'[unit].sha = sha /\ rows'[unit] # NoRow
    BY <1>t, <2>2, <2>3, <2>4 DEF Table, NoRow
  <2>6. (Pre' <=> Pre) /\ ~Pre /\ Settled
    BY <2>1, <2>4, <1>i DEF Pre, Settled, PhaseInv, PrePhases
  <2>7. unit \in Planned
    BY <1>i, <2>1, <2>2, <2>6 DEF RowsInv
  <2>8. Planned' = Planned
    BY <2>5, <2>7 DEF Planned
  <2>9. \A u \in CommittedRows' : index'[u].sha = rows'[u].sha
    BY <1>i, <2>1, <2>4, <2>5 DEF RowsInv, CommittedRows
  <2>10. (Persisted <=> Persisted') /\ (Unwritten <=> Unwritten')
    BY <2>4, <2>8 DEF Persisted, Unwritten
  <2>11. QED
    BY <1>i, <2>1, <2>4, <2>6, <2>8, <2>9, <2>10 DEF RowsInv
<1>21. CASE CountUnit /\ UNCHANGED closeVars
  BY <1>21, <1>i, <1>t DEF CountUnit, RowsInv, Settled, Persisted, Unwritten, Planned,
       CommittedRows, Pre, MemInv, PhaseInv, PrePhases, EarlyInv
<1>22. CASE AllUnits /\ UNCHANGED closeVars
  BY <1>22, <1>i, <1>t DEF AllUnits, save_checkpoint, RowsInv, Settled, Persisted,
       Unwritten, Planned, CommittedRows, Pre, MemInv, PhaseInv, PrePhases, EarlyInv
<1>23. CASE Resume /\ UNCHANGED closeVars
  BY <1>23, <1>i, <1>t DEF Resume, ResumeAt, _rebuild_decomposition, RowsInv, Settled,
       Persisted, Unwritten, Planned, CommittedRows, Pre, MemInv, PhaseInv, PrePhases,
       EarlyInv
<1>24. CASE \E f \in BOOLEAN : _engine_post_node(f)
  BY <1>24, <1>i, <1>t DEF _engine_post_node, observe, RowsInv, Settled, Persisted,
       Unwritten, Planned, CommittedRows, Pre, MemInv, PhaseInv, PrePhases, EarlyInv
<1>25. CASE finalize
  BY <1>25, <1>i, <1>t DEF finalize, _finalize_turn, Stay, RowsInv, Settled, Persisted,
       Unwritten, Planned, CommittedRows, Pre, MemInv, PhaseInv, PrePhases, EarlyInv
<1>26. CASE _write_summary_json
  BY <1>26, <1>i, <1>t DEF _write_summary_json, Stay, RowsInv, Settled, Persisted,
       Unwritten, Planned, CommittedRows, Pre, MemInv, PhaseInv, PrePhases, EarlyInv
<1>27. CASE _engine_finalize
  BY <1>27, <1>i, <1>t DEF _engine_finalize, Stay, RowsInv, Settled, Persisted,
       Unwritten, Planned, CommittedRows, Pre, MemInv, PhaseInv, PrePhases, EarlyInv
<1>28. CASE ReportJson
  BY <1>28, <1>i, <1>t DEF ReportJson, Stay, RowsInv, Settled, Persisted, Unwritten,
       Planned, CommittedRows, Pre, MemInv, PhaseInv, PrePhases, EarlyInv
<1>29. CASE write_summary_report
  BY <1>29, <1>i, <1>t DEF write_summary_report, Stay, RowsInv, Settled, Persisted,
       Unwritten, Planned, CommittedRows, Pre, MemInv, PhaseInv, PrePhases, EarlyInv
<1>30. CASE SummaryStands
  BY <1>30, <1>i, <1>t DEF SummaryStands, Stay, RowsInv, Settled, Persisted, Unwritten,
       Planned, CommittedRows, Pre, MemInv, PhaseInv, PrePhases, EarlyInv
<1>31. CASE _append_follow_ups_file
  BY <1>31, <1>i, <1>t DEF _append_follow_ups_file, AfterFile, Stay, RowsInv, Settled,
       Persisted, Unwritten, Planned, CommittedRows, Pre, MemInv, PhaseInv, PrePhases,
       EarlyInv
<1>32. CASE PublishDone
  BY <1>32, <1>i, <1>t DEF PublishDone, Stay, RowsInv, Settled, Persisted, Unwritten,
       Planned, CommittedRows, Pre, MemInv, PhaseInv, PrePhases, EarlyInv
<1>33. CASE PublishFailed
  BY <1>33, <1>i, <1>t DEF PublishFailed, Stay, RowsInv, Settled, Persisted, Unwritten,
       Planned, CommittedRows, Pre, MemInv, PhaseInv, PrePhases, EarlyInv
<1>34. CASE _explain_terminal
  BY <1>34, <1>i, <1>t DEF _explain_terminal, Stay, RowsInv, Settled, Persisted,
       Unwritten, Planned, CommittedRows, Pre, MemInv, PhaseInv, PrePhases, EarlyInv
<1>35. CASE Die
  BY <1>35, <1>i, <1>t DEF Die, LoseMemory, ForgetTurn, Working, RowsInv, Settled,
       Persisted, Unwritten, Planned, CommittedRows, Pre, MemInv, PhaseInv, PrePhases,
       EarlyInv
<1>36. CASE ClearTree
  BY <1>36, <1>i, <1>t DEF ClearTree, RowsInv, Settled, Persisted, Unwritten, Planned,
       CommittedRows, Pre, MemInv, PhaseInv, PrePhases, EarlyInv
<1>37. CASE \E r \in BOOLEAN : RerunContinue(r)
  BY <1>37, <1>i, <1>t DEF RerunContinue, cmd_rerun, plan_rerun,
       _resolve_reset_fix_budget, _apply_continue_controls, LoseMemory, ForgetTurn,
       RowsInv, Settled, Persisted, Unwritten, Planned, CommittedRows, Pre, MemInv,
       PhaseInv, PrePhases, EarlyInv
<1>38. CASE RerunFresh
  BY <1>38, <1>i, <1>t DEF RerunFresh, cmd_rerun, plan_rerun, reset_task_for_rerun,
       ForgetTurn, RowsInv, Settled, Persisted, Unwritten, Planned, CommittedRows, Pre,
       MemInv, PhaseInv, PrePhases, EarlyInv
<1>39. CASE UNCHANGED allVars
  BY <1>39, <1>i, <1>t DEF allVars, subVars, RowsInv, Settled, Persisted, Unwritten,
       Planned, CommittedRows, Pre, MemInv, PhaseInv, PrePhases, EarlyInv
<1>q. QED
  BY <1>1, <1>2, <1>3, <1>4, <1>5, <1>6, <1>7, <1>8, <1>9, <1>10, <1>11, <1>12, <1>13,
       <1>14, <1>15, <1>16, <1>17, <1>18, <1>19, <1>20, <1>21, <1>22, <1>23, <1>24,
       <1>25, <1>26, <1>27, <1>28, <1>29, <1>30, <1>31, <1>32, <1>33, <1>34, <1>35,
       <1>36, <1>37, <1>38, <1>39, Cases

\* The fan-out's own list and the committed rows stay in step.
LEMMA UnitStep == ASSUME CloseInvariant, [CloseNext]_allVars PROVE UnitInv'
<1> USE DEF To, splitVars, taskFile, gitVars, memVars, closeVars, turnVars, summaryVars
<1>i. /\ PhaseInv /\ MemInv /\ EarlyInv /\ RowsInv /\ UnitInv
  BY DEF CloseInvariant
<1>t. /\ rows \in Table /\ unit \in Units
      /\ ckpt.node \in {"none", "planning", "implement", "review", "publish"}
      /\ task.accepted \in BOOLEAN /\ plan.units \subseteq Orders /\ committed \subseteq Orders
      /\ final \in {"done", "manual"}
  BY Typed
<1>1. CASE Begin /\ UNCHANGED closeVars
  BY <1>1, <1>i, <1>t DEF Begin, save_checkpoint, UnitInv, UnitPhases, Left, Landed,
       CommittedRows, Closing, DonePhases, ReportPhases, Planned
<1>2. CASE \E p \in DOMAIN Plans : Planning(p) /\ UNCHANGED closeVars
  BY <1>2, <1>i, <1>t DEF Planning, UnitInv, UnitPhases, Left, Landed, CommittedRows,
       Closing, DonePhases, ReportPhases, Planned, PhaseInv
<1>3. CASE PersistTask /\ UNCHANGED closeVars
  BY <1>3, <1>i, <1>t DEF PersistTask, UnitInv, UnitPhases, Left, Landed, CommittedRows,
       Closing, DonePhases, ReportPhases, Planned
<1>4. CASE write_subtask_artifacts /\ UNCHANGED closeVars
  BY <1>4, <1>i, <1>t DEF write_subtask_artifacts, UnitInv, UnitPhases, Left, Landed,
       CommittedRows, Closing, DonePhases, ReportPhases, Planned
<1>5. CASE insert_subtasks /\ UNCHANGED closeVars
  BY <1>5, <1>i, <1>t DEF insert_subtasks, UnitInv, UnitPhases, Left, Landed,
       CommittedRows, Closing, DonePhases, ReportPhases, Planned
<1>6. CASE LeavePre /\ UNCHANGED closeVars
  BY <1>6, <1>i, <1>t DEF LeavePre, save_checkpoint, UnitInv, UnitPhases, Left, Landed,
       CommittedRows, Closing, DonePhases, ReportPhases, Planned
<1>7. CASE FanOut /\ UNCHANGED closeVars
  BY <1>7, <1>i, <1>t DEF FanOut, UnitInv, UnitPhases, Left, Landed, CommittedRows,
       Closing, DonePhases, ReportPhases, Planned
<1>8. CASE NextUnit /\ UNCHANGED closeVars
  <2>1. Left \in SUBSET Nat /\ Left # {}
    BY <1>8, <1>t DEF NextUnit, Left, Orders
  <2>2. unit' \in Left /\ \A v \in Left : unit' <= v
    BY <1>8, <2>1, LeastOf DEF NextUnit
  <2>3. /\ phase = "next" /\ phase' = "enter" /\ handed' = Landed(unit')
        /\ UNCHANGED <<rows, plan, committed, task>>
    BY <1>8 DEF NextUnit
  <2>4. Left' = Left /\ CommittedRows' = CommittedRows /\ Landed(unit)' = Landed(unit')
    BY <2>3 DEF Left, CommittedRows, Landed
  <2>5. plan.units \cap committed = plan.units \cap CommittedRows
    BY <1>i, <2>3 DEF UnitInv
  <2>6. QED
    BY <2>2, <2>3, <2>4, <2>5 DEF UnitInv, UnitPhases, Closing, DonePhases, ReportPhases
<1>9. CASE EnterUnit /\ UNCHANGED closeVars
  BY <1>9, <1>i, <1>t DEF EnterUnit, save_checkpoint, UnitInv, UnitPhases, Left, Landed,
       CommittedRows, Closing, DonePhases, ReportPhases, Planned, MemInv
<1>10. CASE \E c \in BOOLEAN : Implement(c) /\ UNCHANGED closeVars
  BY <1>10, <1>i, <1>t DEF Implement, save_checkpoint, UnitInv, UnitPhases, Left,
       Landed, CommittedRows, Closing, DonePhases, ReportPhases, Planned
<1>11. CASE \E fs \in Reports[unit] : Review(fs) /\ UNCHANGED closeVars
  BY <1>11, <1>i, <1>t DEF Review, UnitInv, UnitPhases, Left, Landed, CommittedRows,
       Closing, DonePhases, ReportPhases, Planned
<1>12. CASE Rework /\ UNCHANGED closeVars
  BY <1>12, <1>i, <1>t DEF Rework, save_checkpoint, UnitInv, UnitPhases, Left, Landed,
       CommittedRows, Closing, DonePhases, ReportPhases, Planned
<1>13. CASE Stuck /\ UNCHANGED closeVars
  BY <1>13, <1>i, <1>t DEF Stuck, UnitInv, UnitPhases, Left, Landed, CommittedRows,
       Closing, DonePhases, ReportPhases, Planned
<1>14. CASE Accept /\ UNCHANGED closeVars
  BY <1>14, <1>i, <1>t DEF Accept, save_checkpoint, UnitInv, UnitPhases, Left, Landed,
       CommittedRows, Closing, DonePhases, ReportPhases, Planned, MemInv, LoopPhases,
       Orders, Whole
<1>15. CASE CommitStep(CommitAgain)
  BY <1>15, <1>i, <1>t DEF CommitStep, CommitAgain, UnitInv, UnitPhases, Left, Landed,
       CommittedRows, Closing, DonePhases, ReportPhases, Planned
<1>16. CASE CommitStep(CommitNothing)
  BY <1>16, <1>i, <1>t DEF CommitStep, CommitNothing, UnitInv, UnitPhases, Left, Landed,
       CommittedRows, Closing, DonePhases, ReportPhases, Planned
<1>17. CASE CommitStep(CommitTree)
  BY <1>17, <1>i, <1>t DEF CommitStep, CommitTree, UnitInv, UnitPhases, Left, Landed,
       CommittedRows, Closing, DonePhases, ReportPhases, Planned
<1>18. CASE CommitStep(RecordOp)
  BY <1>18, <1>i, <1>t DEF CommitStep, RecordOp, UnitInv, UnitPhases, Left, Landed,
       CommittedRows, Closing, DonePhases, ReportPhases, Planned
<1>19. CASE update_subtask_index /\ UNCHANGED closeVars
  BY <1>19, <1>i, <1>t DEF update_subtask_index, UnitInv, UnitPhases, Left, Landed,
       CommittedRows, Closing, DonePhases, ReportPhases, Planned
<1>20. CASE set_subtask_commit /\ UNCHANGED closeVars
  <2>1. /\ task.accepted /\ phase = "row" /\ phase' = "count" /\ rows' = [rows EXCEPT ![unit].sha = sha]
        /\ UNCHANGED <<plan, committed, task, unit, handed>>
    BY <1>20, <1>i DEF set_subtask_commit, MemInv
  <2>2. unit \in Orders /\ sha # 0
    BY <2>1, UnitNext, Typed DEF UnitPhases, CloseInvariant, BranchInv, ShaKnown
  <2>3. CommittedRows' = CommittedRows \cup {unit}
    BY <1>t, <2>1, <2>2 DEF CommittedRows, Table
  <2>4. /\ plan.units \cap committed = plan.units \cap CommittedRows
        /\ unit \in Left /\ \A v \in Left : unit <= v
    BY <1>i, <2>1 DEF UnitInv, UnitPhases
  <2>5. Left' = Left
    BY <2>1 DEF Left
  <2>6. QED
    BY <2>1, <2>3, <2>4, <2>5 DEF UnitInv, UnitPhases, Closing, DonePhases, ReportPhases
<1>21. CASE CountUnit /\ UNCHANGED closeVars
  BY <1>21, <1>i, <1>t DEF CountUnit, UnitInv, UnitPhases, Left, Landed, CommittedRows,
       Closing, DonePhases, ReportPhases, Planned
<1>22. CASE AllUnits /\ UNCHANGED closeVars
  <2>1. /\ task.accepted /\ phase = "next" /\ phase' = "finalize" /\ plan.units \subseteq committed
        /\ UNCHANGED <<plan, committed, task, rows>>
    BY <1>22, <1>i DEF AllUnits, MemInv, Left
  <2>2. plan.units \subseteq CommittedRows
    BY <1>i, <2>1 DEF UnitInv
  <2>3. CommittedRows' = CommittedRows
    BY <2>1 DEF CommittedRows
  <2>4. QED
    BY <2>1, <2>2, <2>3 DEF UnitInv, UnitPhases
<1>23. CASE Resume /\ UNCHANGED closeVars
  BY <1>23, <1>i, <1>t DEF Resume, ResumeAt, _rebuild_decomposition, UnitInv,
       UnitPhases, Left, Landed, CommittedRows, Closing, DonePhases, ReportPhases,
       Planned, MemInv
<1>24. CASE \E f \in BOOLEAN : _engine_post_node(f)
  BY <1>24, <1>i, <1>t DEF _engine_post_node, observe, UnitInv, UnitPhases, Left,
       Landed, CommittedRows, Closing, DonePhases, ReportPhases, Planned
<1>25. CASE finalize
  BY <1>25, <1>i, <1>t DEF finalize, _finalize_turn, Stay, UnitInv, UnitPhases, Left,
       Landed, CommittedRows, Closing, DonePhases, ReportPhases, Planned
<1>26. CASE _write_summary_json
  BY <1>26, <1>i, <1>t DEF _write_summary_json, Stay, UnitInv, UnitPhases, Left, Landed,
       CommittedRows, Closing, DonePhases, ReportPhases, Planned
<1>27. CASE _engine_finalize
  BY <1>27, <1>i, <1>t DEF _engine_finalize, Stay, UnitInv, UnitPhases, Left, Landed,
       CommittedRows, Closing, DonePhases, ReportPhases, Planned
<1>28. CASE ReportJson
  BY <1>28, <1>i, <1>t DEF ReportJson, Stay, UnitInv, UnitPhases, Left, Landed,
       CommittedRows, Closing, DonePhases, ReportPhases, Planned
<1>29. CASE write_summary_report
  BY <1>29, <1>i, <1>t DEF write_summary_report, Stay, UnitInv, UnitPhases, Left,
       Landed, CommittedRows, Closing, DonePhases, ReportPhases, Planned
<1>30. CASE SummaryStands
  BY <1>30, <1>i, <1>t DEF SummaryStands, Stay, UnitInv, UnitPhases, Left, Landed,
       CommittedRows, Closing, DonePhases, ReportPhases, Planned
<1>31. CASE _append_follow_ups_file
  BY <1>31, <1>i, <1>t DEF _append_follow_ups_file, AfterFile, Stay, UnitInv,
       UnitPhases, Left, Landed, CommittedRows, Closing, DonePhases, ReportPhases,
       Planned
<1>32. CASE PublishDone
  BY <1>32, <1>i, <1>t DEF PublishDone, Stay, UnitInv, UnitPhases, Left, Landed,
       CommittedRows, Closing, DonePhases, ReportPhases, Planned
<1>33. CASE PublishFailed
  BY <1>33, <1>i, <1>t DEF PublishFailed, Stay, UnitInv, UnitPhases, Left, Landed,
       CommittedRows, Closing, DonePhases, ReportPhases, Planned
<1>34. CASE _explain_terminal
  BY <1>34, <1>i, <1>t DEF _explain_terminal, Stay, UnitInv, UnitPhases, Left, Landed,
       CommittedRows, Closing, DonePhases, ReportPhases, Planned
<1>35. CASE Die
  BY <1>35, <1>i, <1>t DEF Die, LoseMemory, ForgetTurn, Working, UnitInv, UnitPhases,
       Left, Landed, CommittedRows, Closing, DonePhases, ReportPhases, Planned
<1>36. CASE ClearTree
  BY <1>36, <1>i, <1>t DEF ClearTree, UnitInv, UnitPhases, Left, Landed, CommittedRows,
       Closing, DonePhases, ReportPhases, Planned
<1>37. CASE \E r \in BOOLEAN : RerunContinue(r)
  BY <1>37, <1>i, <1>t DEF RerunContinue, cmd_rerun, plan_rerun,
       _resolve_reset_fix_budget, _apply_continue_controls, LoseMemory, ForgetTurn,
       UnitInv, UnitPhases, Left, Landed, CommittedRows, Closing, DonePhases,
       ReportPhases, Planned
<1>38. CASE RerunFresh
  BY <1>38, <1>i, <1>t DEF RerunFresh, cmd_rerun, plan_rerun, reset_task_for_rerun,
       ForgetTurn, UnitInv, UnitPhases, Left, Landed, CommittedRows, Closing,
       DonePhases, ReportPhases, Planned
<1>39. CASE UNCHANGED allVars
  BY <1>39, <1>i, <1>t DEF allVars, subVars, UnitInv, UnitPhases, Left, Landed,
       CommittedRows, Closing, DonePhases, ReportPhases, Planned
<1>q. QED
  BY <1>1, <1>2, <1>3, <1>4, <1>5, <1>6, <1>7, <1>8, <1>9, <1>10, <1>11, <1>12, <1>13,
       <1>14, <1>15, <1>16, <1>17, <1>18, <1>19, <1>20, <1>21, <1>22, <1>23, <1>24,
       <1>25, <1>26, <1>27, <1>28, <1>29, <1>30, <1>31, <1>32, <1>33, <1>34, <1>35,
       <1>36, <1>37, <1>38, <1>39, Cases

\* Two records of reviews that differ in what was seen and what is live only.
Similar(s, t) ==
  /\ Len(s) = Len(t)
  /\ \A i \in DOMAIN s : /\ t[i].unit = s[i].unit /\ t[i].verdict = s[i].verdict
                         /\ t[i].findings = s[i].findings

\* What it is for a finding to be open.
LEMMA OpenOf ==
  ASSUME NEW e, NEW f
  PROVE  f \in evaluator_finding_follow_ups(e) <=>
           \E i \in FinalRows(e) : f \in Elements(e[i].findings)
                                    /\ (f \notin Gating \/ e[i].verdict = "accept")
<1>1. f \in evaluator_finding_follow_ups(e) <=>
        \E i \in FinalRows(e) : f \in {g \in Elements(e[i].findings) : g \notin Gating \/ e[i].verdict = "accept"}
  BY Zenon DEF evaluator_finding_follow_ups
<1>2. QED
  BY <1>1

\* Marks on the rows change neither the final ones nor what is open.
LEMMA FinalSimilar ==
  ASSUME NEW s \in Seq(EvaluationRows), NEW t \in Seq(EvaluationRows), Similar(s, t)
  PROVE  /\ FinalRows(s) = FinalRows(t) /\ DOMAIN s = DOMAIN t
         /\ evaluator_finding_follow_ups(s) = evaluator_finding_follow_ups(t)
<1>1. DOMAIN s = DOMAIN t
  BY DEF Similar
<1>2. \A u : RowsOf(s, u) = RowsOf(t, u)
  BY <1>1 DEF RowsOf, Similar
<1>3. \A i \in DOMAIN s : IsLast(s, i) <=> IsLast(t, i)
  BY <1>1, <1>2 DEF IsLast, Similar
<1>4. FinalRows(s) = FinalRows(t)
  BY <1>1, <1>2, <1>3 DEF FinalRows
<1>5. FinalRows(s) \subseteq DOMAIN s
  BY DEF FinalRows
<1>6. \A i \in FinalRows(s) : s[i].findings = t[i].findings /\ s[i].verdict = t[i].verdict
  BY <1>5 DEF Similar
<1>7. \A f : f \in evaluator_finding_follow_ups(s) <=> f \in evaluator_finding_follow_ups(t)
  BY <1>4, <1>6, OpenOf
<1>9. evaluator_finding_follow_ups(s) = evaluator_finding_follow_ups(t)
  BY <1>7
<1>8. QED
  BY <1>1, <1>4, <1>9

\* What one more row changes of a record of reviews.
LEMMA FinalAppend ==
  ASSUME NEW s \in Seq(EvaluationRows), NEW r \in EvaluationRows
  PROVE  /\ DOMAIN Append(s, r) = DOMAIN s \cup {Len(s) + 1} /\ Len(Append(s, r)) = Len(s) + 1
         /\ \A i \in DOMAIN s : Append(s, r)[i] = s[i]
         /\ Append(s, r)[Len(s) + 1] = r
         /\ \A i \in DOMAIN s : i \in FinalRows(Append(s, r)) <=> i \in FinalRows(s) /\ (r.unit # s[i].unit)
         /\ Len(s) + 1 \in FinalRows(Append(s, r)) <=> r.unit # NoUnit
<1> DEFINE t == Append(s, r)
           n == Len(s) + 1
<1>1. /\ DOMAIN t = 1..n /\ DOMAIN s = 1..Len(s) /\ Len(s) \in Nat /\ Len(t) = n
      /\ \A i \in 1..Len(s) : t[i] = s[i]
  OBVIOUS
<1>2. t[n] = r
  OBVIOUS
<1> HIDE DEF t
<1>3. \A i \in 1..Len(s) : i \in FinalRows(t) <=> i \in FinalRows(s) /\ (r.unit # s[i].unit)
  BY <1>1, <1>2 DEF FinalRows, IsLast, RowsOf
<1>4. n \in FinalRows(t) <=> r.unit # NoUnit
  BY <1>1, <1>2 DEF FinalRows, IsLast, RowsOf
<1>5. DOMAIN t = DOMAIN s \cup {n}
  BY <1>1
<1>6. QED
  BY <1>1, <1>2, <1>3, <1>4, <1>5 DEF t

\* The row of a reset is of no unit.
LEMMA NoUnitApart == NoUnit \notin Units
  BY RunRecordAssumption DEF NoUnit, Units, Orders, Whole

\* What a review appends.
LEMMA ReviewRow ==
  ASSUME CloseInvariant, NEW fs \in Reports[unit], Review(fs)
  PROVE  \E r \in EvaluationRows :
            /\ evals' = Append(evals, r) /\ r.unit = unit /\ r.findings = fs /\ r.live /\ ~r.seen
            /\ r.verdict = verdict(evals, unit, fs, fix >= MaxFix)
            /\ r.verdict \in {"accept", "rework"}
<1> DEFINE v == verdict(evals, unit, fs, fix >= MaxFix)
           r == EvaluationRow(unit, v, fs)
<1>1. v \in {"accept", "rework"}
  BY DEF verdict
<1>2. r \in EvaluationRows
  BY <1>1, Typed, RowTyped
<1>3. /\ r.unit = unit /\ r.findings = fs /\ r.live /\ ~r.seen /\ r.verdict = v
  BY DEF EvaluationRow
<1>4. evals' = Append(evals, r)
  BY DEF Review
<1>5. QED
  BY <1>1, <1>2, <1>3, <1>4

\* What an observation changes.
LEMMA SeenRow ==
  ASSUME CloseInvariant, observe, Len(evals) > 0
  PROVE  /\ Similar(evals, evals') /\ evals' \in Seq(EvaluationRows)
         /\ \A i \in DOMAIN evals : /\ evals'[i].live = evals[i].live
                                    /\ i # Len(evals) => evals'[i] = evals[i]
         /\ evals'[Len(evals)].seen
<1>1. evals \in Seq(EvaluationRows)
  BY Typed
<1>2. evals' \in Seq(EvaluationRows)
  BY <1>1, MarkedAll DEF observe
<1>3. evals[Len(evals)] \in EvaluationRows /\ Len(evals) \in DOMAIN evals
  BY <1>1
<1> DEFINE r == evals[Len(evals)]
           q == [r EXCEPT !.seen = TRUE]
<1>4. q.unit = r.unit /\ q.verdict = r.verdict /\ q.findings = r.findings /\ q.live = r.live /\ q.seen
  BY <1>3 DEF EvaluationRows
<1>5. evals' = [evals EXCEPT ![Len(evals)] = q]
  BY DEF observe
<1> HIDE DEF q
<1>6. /\ DOMAIN evals' = DOMAIN evals /\ Len(evals') = Len(evals) /\ evals'[Len(evals)] = q
      /\ \A i \in DOMAIN evals : i # Len(evals) => evals'[i] = evals[i]
  BY <1>1, <1>2, <1>3, <1>5
<1>7. QED
  BY <1>2, <1>4, <1>6 DEF Similar

\* What a fresh rerun changes of the evaluations.
LEMMA DeadRows ==
  ASSUME CloseInvariant, evals' = [i \in DOMAIN evals |-> [evals[i] EXCEPT !.live = FALSE]]
  PROVE  /\ Similar(evals, evals') /\ evals' \in Seq(EvaluationRows)
         /\ \A i \in DOMAIN evals : evals'[i].seen = evals[i].seen /\ ~evals'[i].live
<1>1. evals \in Seq(EvaluationRows)
  BY Typed
<1>2. evals' \in Seq(EvaluationRows)
  BY <1>1, MarkedAll
<1>3. DOMAIN evals' = DOMAIN evals /\ Len(evals') = Len(evals)
  BY <1>1, <1>2
<1>4. ASSUME NEW i \in DOMAIN evals
      PROVE  /\ evals'[i].unit = evals[i].unit /\ evals'[i].verdict = evals[i].verdict
             /\ evals'[i].findings = evals[i].findings /\ evals'[i].seen = evals[i].seen
             /\ ~evals'[i].live
  <2> DEFINE r == evals[i]
             q == [r EXCEPT !.live = FALSE]
  <2>1. r \in EvaluationRows
    BY <1>1
  <2>2. /\ q.unit = r.unit /\ q.verdict = r.verdict /\ q.findings = r.findings /\ q.seen = r.seen
        /\ ~q.live
    BY <2>1 DEF EvaluationRows
  <2>3. evals'[i] = q
    OBVIOUS
  <2>4. QED
    BY <2>2, <2>3
<1>5. QED
  BY <1>2, <1>3, <1>4 DEF Similar

\* What the row of a reset says.
LEMMA ResetFields == ResetRow \in EvaluationRows /\ ResetRow.unit = NoUnit /\ ResetRow.verdict = "reset"
<1>1. ResetRow.unit = NoUnit /\ ResetRow.verdict = "reset"
  BY DEF ResetRow, EvaluationRow
<1>2. QED
  BY <1>1, ResetTyped

\* A review's row is the one routed and committed by.
LEMMA EvalStep == ASSUME CloseInvariant, [CloseNext]_allVars PROVE EvalInv'
<1> USE DEF To, splitVars, taskFile, gitVars, memVars, closeVars, turnVars, summaryVars
<1>i. /\ PhaseInv /\ MemInv /\ EarlyInv /\ EvalInv
  BY DEF CloseInvariant
<1>t. /\ rows \in Table /\ unit \in Units /\ evals \in Seq(EvaluationRows)
      /\ ckpt.node \in {"none", "planning", "implement", "review", "publish"}
      /\ task.accepted \in BOOLEAN
  BY Typed
<1>1. CASE Begin /\ UNCHANGED closeVars
  BY <1>1, <1>i, <1>t DEF Begin, save_checkpoint, EvalInv, CommittedAccepted,
       CommittedRows, FinalRows, IsLast, RowsOf, Verdict
<1>2. CASE \E p \in DOMAIN Plans : Planning(p) /\ UNCHANGED closeVars
  BY <1>2, <1>i, <1>t DEF Planning, EvalInv, CommittedAccepted, CommittedRows,
       FinalRows, IsLast, RowsOf, Verdict
<1>3. CASE PersistTask /\ UNCHANGED closeVars
  BY <1>3, <1>i, <1>t DEF PersistTask, EvalInv, CommittedAccepted, CommittedRows,
       FinalRows, IsLast, RowsOf, Verdict
<1>4. CASE write_subtask_artifacts /\ UNCHANGED closeVars
  BY <1>4, <1>i, <1>t DEF write_subtask_artifacts, EvalInv, CommittedAccepted,
       CommittedRows, FinalRows, IsLast, RowsOf, Verdict
<1>5. CASE insert_subtasks /\ UNCHANGED closeVars
  BY <1>5, <1>i, <1>t DEF insert_subtasks, EvalInv, CommittedAccepted, CommittedRows,
       FinalRows, IsLast, RowsOf, Verdict
<1>6. CASE LeavePre /\ UNCHANGED closeVars
  BY <1>6, <1>i, <1>t DEF LeavePre, save_checkpoint, EvalInv, CommittedAccepted,
       CommittedRows, FinalRows, IsLast, RowsOf, Verdict
<1>7. CASE FanOut /\ UNCHANGED closeVars
  BY <1>7, <1>i, <1>t DEF FanOut, EvalInv, CommittedAccepted, CommittedRows, FinalRows,
       IsLast, RowsOf, Verdict
<1>8. CASE NextUnit /\ UNCHANGED closeVars
  BY <1>8, <1>i, <1>t DEF NextUnit, EvalInv, CommittedAccepted, CommittedRows,
       FinalRows, IsLast, RowsOf, Verdict
<1>9. CASE EnterUnit /\ UNCHANGED closeVars
  BY <1>9, <1>i, <1>t DEF EnterUnit, save_checkpoint, EvalInv, CommittedAccepted,
       CommittedRows, FinalRows, IsLast, RowsOf, Verdict
<1>10. CASE \E c \in BOOLEAN : Implement(c) /\ UNCHANGED closeVars
  BY <1>10, <1>i, <1>t DEF Implement, save_checkpoint, EvalInv, CommittedAccepted,
       CommittedRows, FinalRows, IsLast, RowsOf, Verdict
<1>11. CASE \E fs \in Reports[unit] : Review(fs) /\ UNCHANGED closeVars
  <2>1. PICK fs \in Reports[unit] : Review(fs)
    BY <1>11
  <2>2. PICK r \in EvaluationRows : /\ evals' = Append(evals, r) /\ r.unit = unit /\ r.live
                                    /\ r.verdict \in {"accept", "rework"}
    BY <2>1, ReviewRow
  <2>3. /\ DOMAIN evals' = DOMAIN evals \cup {Len(evals) + 1} /\ Len(evals') = Len(evals) + 1
        /\ \A i \in DOMAIN evals : evals'[i] = evals[i]
        /\ evals'[Len(evals) + 1] = r
        /\ \A i \in DOMAIN evals : i \in FinalRows(evals') <=> i \in FinalRows(evals) /\ (r.unit # evals[i].unit)
    BY <1>t, <2>2, FinalAppend
  <2>4. phase = "review" /\ phase' = "observe" /\ UNCHANGED <<unit, rows, task>>
    BY <2>1 DEF Review
  <2>5. unit \notin CommittedRows
    BY <1>i, <2>4, UnitNext DEF EarlyInv, UnitPhases, CommittedRows
  <2>6. CommittedRows' = CommittedRows
    BY <2>4 DEF CommittedRows
  <2>7. CommittedAccepted'
    BY <1>i, <2>2, <2>3, <2>5, <2>6 DEF EvalInv, CommittedAccepted, FinalRows
  <2>8. unit # NoUnit /\ Len(evals) \in Nat
    BY <1>t, NoUnitApart
  <2>9. \A i \in DOMAIN evals' : evals'[i].verdict = "reset" <=> evals'[i].unit = NoUnit
    BY <1>i, <2>2, <2>3, <2>8 DEF EvalInv
  <2>10. Len(evals') > 0 /\ evals'[Len(evals')].unit = unit' /\ evals'[Len(evals')].live
    BY <2>2, <2>3, <2>4, <2>8
  <2>11. QED
    BY <2>4, <2>7, <2>9, <2>10 DEF EvalInv
<1>12. CASE Rework /\ UNCHANGED closeVars
  BY <1>12, <1>i, <1>t DEF Rework, save_checkpoint, EvalInv, CommittedAccepted,
       CommittedRows, FinalRows, IsLast, RowsOf, Verdict
<1>13. CASE Stuck /\ UNCHANGED closeVars
  BY <1>13, <1>i, <1>t DEF Stuck, EvalInv, CommittedAccepted, CommittedRows, FinalRows,
       IsLast, RowsOf, Verdict
<1>14. CASE Accept /\ UNCHANGED closeVars
  BY <1>14, <1>i, <1>t DEF Accept, save_checkpoint, EvalInv, CommittedAccepted,
       CommittedRows, FinalRows, IsLast, RowsOf, Verdict
<1>15. CASE CommitStep(CommitAgain)
  BY <1>15, <1>i, <1>t DEF CommitStep, CommitAgain, EvalInv, CommittedAccepted,
       CommittedRows, FinalRows, IsLast, RowsOf, Verdict
<1>16. CASE CommitStep(CommitNothing)
  BY <1>16, <1>i, <1>t DEF CommitStep, CommitNothing, EvalInv, CommittedAccepted,
       CommittedRows, FinalRows, IsLast, RowsOf, Verdict
<1>17. CASE CommitStep(CommitTree)
  BY <1>17, <1>i, <1>t DEF CommitStep, CommitTree, EvalInv, CommittedAccepted,
       CommittedRows, FinalRows, IsLast, RowsOf, Verdict
<1>18. CASE CommitStep(RecordOp)
  BY <1>18, <1>i, <1>t DEF CommitStep, RecordOp, EvalInv, CommittedAccepted,
       CommittedRows, FinalRows, IsLast, RowsOf, Verdict
<1>19. CASE update_subtask_index /\ UNCHANGED closeVars
  BY <1>19, <1>i, <1>t DEF update_subtask_index, EvalInv, CommittedAccepted,
       CommittedRows, FinalRows, IsLast, RowsOf, Verdict
<1>20. CASE set_subtask_commit /\ UNCHANGED closeVars
  BY <1>20, <1>i, <1>t DEF set_subtask_commit, EvalInv, CommittedAccepted,
       CommittedRows, FinalRows, IsLast, RowsOf, Verdict
<1>21. CASE CountUnit /\ UNCHANGED closeVars
  BY <1>21, <1>i, <1>t DEF CountUnit, EvalInv, CommittedAccepted, CommittedRows,
       FinalRows, IsLast, RowsOf, Verdict
<1>22. CASE AllUnits /\ UNCHANGED closeVars
  BY <1>22, <1>i, <1>t DEF AllUnits, save_checkpoint, EvalInv, CommittedAccepted,
       CommittedRows, FinalRows, IsLast, RowsOf, Verdict
<1>23. CASE Resume /\ UNCHANGED closeVars
  BY <1>23, <1>i, <1>t DEF Resume, ResumeAt, _rebuild_decomposition, EvalInv,
       CommittedAccepted, CommittedRows, FinalRows, IsLast, RowsOf, Verdict
<1>24. CASE \E f \in BOOLEAN : _engine_post_node(f)
  <2>1. phase = "observe" /\ phase' = "route" /\ UNCHANGED <<unit, rows>> /\ Len(evals) > 0
    BY <1>24, <1>i DEF _engine_post_node, EvalInv
  <2>2. CASE UNCHANGED evals
    BY <1>i, <2>1, <2>2 DEF EvalInv, CommittedAccepted, CommittedRows
  <2>3. CASE observe
    <3>1. /\ Similar(evals, evals') /\ evals' \in Seq(EvaluationRows)
          /\ \A i \in DOMAIN evals : evals'[i].live = evals[i].live
      BY <2>1, <2>3, SeenRow
    <3>2. FinalRows(evals') = FinalRows(evals) /\ DOMAIN evals' = DOMAIN evals
      BY <1>t, <3>1, FinalSimilar
    <3>3. Len(evals') = Len(evals) /\ Len(evals) \in DOMAIN evals
      BY <1>t, <2>1, <3>1 DEF Similar
    <3>4. FinalRows(evals) \subseteq DOMAIN evals /\ CommittedRows' = CommittedRows
      BY <2>1 DEF FinalRows, CommittedRows
    <3>5. CommittedAccepted'
      BY <1>i, <3>1, <3>2, <3>4 DEF EvalInv, CommittedAccepted, Similar
    <3>6. QED
      BY <1>i, <2>1, <3>1, <3>2, <3>3, <3>5 DEF EvalInv, Similar
  <2>4. QED
    BY <1>24, <2>2, <2>3 DEF _engine_post_node
<1>25. CASE finalize
  BY <1>25, <1>i, <1>t DEF finalize, _finalize_turn, Stay, EvalInv, CommittedAccepted,
       CommittedRows, FinalRows, IsLast, RowsOf, Verdict
<1>26. CASE _write_summary_json
  BY <1>26, <1>i, <1>t DEF _write_summary_json, Stay, EvalInv, CommittedAccepted,
       CommittedRows, FinalRows, IsLast, RowsOf, Verdict
<1>27. CASE _engine_finalize
  BY <1>27, <1>i, <1>t DEF _engine_finalize, Stay, EvalInv, CommittedAccepted,
       CommittedRows, FinalRows, IsLast, RowsOf, Verdict
<1>28. CASE ReportJson
  BY <1>28, <1>i, <1>t DEF ReportJson, Stay, EvalInv, CommittedAccepted, CommittedRows,
       FinalRows, IsLast, RowsOf, Verdict
<1>29. CASE write_summary_report
  BY <1>29, <1>i, <1>t DEF write_summary_report, Stay, EvalInv, CommittedAccepted,
       CommittedRows, FinalRows, IsLast, RowsOf, Verdict
<1>30. CASE SummaryStands
  BY <1>30, <1>i, <1>t DEF SummaryStands, Stay, EvalInv, CommittedAccepted,
       CommittedRows, FinalRows, IsLast, RowsOf, Verdict
<1>31. CASE _append_follow_ups_file
  BY <1>31, <1>i, <1>t DEF _append_follow_ups_file, AfterFile, Stay, EvalInv,
       CommittedAccepted, CommittedRows, FinalRows, IsLast, RowsOf, Verdict
<1>32. CASE PublishDone
  BY <1>32, <1>i, <1>t DEF PublishDone, Stay, EvalInv, CommittedAccepted, CommittedRows,
       FinalRows, IsLast, RowsOf, Verdict
<1>33. CASE PublishFailed
  BY <1>33, <1>i, <1>t DEF PublishFailed, Stay, EvalInv, CommittedAccepted,
       CommittedRows, FinalRows, IsLast, RowsOf, Verdict
<1>34. CASE _explain_terminal
  BY <1>34, <1>i, <1>t DEF _explain_terminal, Stay, EvalInv, CommittedAccepted,
       CommittedRows, FinalRows, IsLast, RowsOf, Verdict
<1>35. CASE Die
  BY <1>35, <1>i, <1>t DEF Die, LoseMemory, ForgetTurn, Working, EvalInv,
       CommittedAccepted, CommittedRows, FinalRows, IsLast, RowsOf, Verdict
<1>36. CASE ClearTree
  BY <1>36, <1>i, <1>t DEF ClearTree, EvalInv, CommittedAccepted, CommittedRows,
       FinalRows, IsLast, RowsOf, Verdict
<1>37. CASE \E r \in BOOLEAN : RerunContinue(r)
  <2>1. phase' = "down" /\ UNCHANGED rows
    BY <1>37 DEF RerunContinue
  <2>2. CommittedRows' = CommittedRows
    BY <2>1 DEF CommittedRows
  <2>3. CASE UNCHANGED evals
    BY <1>i, <2>1, <2>2, <2>3 DEF EvalInv, CommittedAccepted
  <2>4. CASE evals' = Append(evals, ResetRow)
    <3>1. /\ DOMAIN evals' = DOMAIN evals \cup {Len(evals) + 1}
          /\ \A i \in DOMAIN evals : evals'[i] = evals[i]
          /\ evals'[Len(evals) + 1] = ResetRow
          /\ \A i \in DOMAIN evals : i \in FinalRows(evals') <=> i \in FinalRows(evals) /\ (NoUnit # evals[i].unit)
      BY <1>t, <2>4, FinalAppend, ResetFields
    <3>2. FinalRows(evals) \subseteq DOMAIN evals /\ CommittedRows \subseteq Units
      BY DEF FinalRows, CommittedRows, Units
    <3>3. CommittedAccepted'
      BY <1>i, <2>2, <3>1, <3>2, NoUnitApart DEF EvalInv, CommittedAccepted
    <3>4. \A i \in DOMAIN evals' : evals'[i].verdict = "reset" <=> evals'[i].unit = NoUnit
      BY <1>i, <3>1, ResetFields DEF EvalInv
    <3>5. QED
      BY <2>1, <3>3, <3>4 DEF EvalInv
  <2>5. QED
    BY <1>37, <2>3, <2>4 DEF RerunContinue, _apply_continue_controls
<1>38. CASE RerunFresh
  <2>1. phase' \in {"persist", "begin"}
    BY <1>38 DEF RerunFresh
  <2>2. CommittedRows' = {}
    BY <1>38 DEF RerunFresh, reset_task_for_rerun, CommittedRows, NoRow
  <2>3. Similar(evals, evals') /\ evals' \in Seq(EvaluationRows)
    BY <1>38, DeadRows DEF RerunFresh, reset_task_for_rerun
  <2>4. DOMAIN evals' = DOMAIN evals
    BY <1>t, <2>3, FinalSimilar
  <2>5. QED
    BY <1>i, <2>1, <2>2, <2>3, <2>4 DEF EvalInv, CommittedAccepted, Similar
<1>39. CASE UNCHANGED allVars
  BY <1>39, <1>i, <1>t DEF allVars, subVars, EvalInv, CommittedAccepted, CommittedRows,
       FinalRows, IsLast, RowsOf, Verdict
<1>q. QED
  BY <1>1, <1>2, <1>3, <1>4, <1>5, <1>6, <1>7, <1>8, <1>9, <1>10, <1>11, <1>12, <1>13,
       <1>14, <1>15, <1>16, <1>17, <1>18, <1>19, <1>20, <1>21, <1>22, <1>23, <1>24,
       <1>25, <1>26, <1>27, <1>28, <1>29, <1>30, <1>31, <1>32, <1>33, <1>34, <1>35,
       <1>36, <1>37, <1>38, <1>39, Cases

\* Without a crash no step writes the decision twice, or another than the
\* operator's.
LEMMA FirstStep == ASSUME CloseInvariant, [CloseNext]_allVars PROVE FirstInv'
<1> USE DEF To, splitVars, taskFile, gitVars, memVars, closeVars, turnVars, summaryVars
<1>i. /\ PhaseInv /\ MemInv /\ EarlyInv /\ RowsInv /\ UnitInv /\ FirstInv
  BY DEF CloseInvariant
<1>t. /\ rows \in Table /\ unit \in Units
      /\ ckpt.node \in {"none", "planning", "implement", "review", "publish"}
      /\ task.accepted \in BOOLEAN /\ plan.units \subseteq Orders /\ committed \subseteq Orders
      /\ operator \in BOOLEAN /\ disabled \in BOOLEAN /\ crashes \in Nat
      /\ NoPlan \notin DOMAIN Plans
  BY Typed
<1>w. phase = "route" /\ task.accepted => unit # Whole
  BY UnitNext DEF UnitPhases, Orders, Whole
<1>a. /\ authored \in Authored \cup {NoPlan} /\ Authored \subseteq DOMAIN Plans
      /\ \A p \in Authored : Accepted(Plans[p])
  BY SubtasksAssumption DEF CloseInvariant, CloseTypeOK, TableTypes
<1>1. CASE Begin /\ UNCHANGED closeVars
  BY <1>1, <1>i, <1>t DEF Begin, save_checkpoint, FirstInv, Settled, Planned,
       CommittedRows, Pre, PhaseInv, PrePhases, MemInv
<1>2. CASE \E p \in DOMAIN Plans : Planning(p) /\ UNCHANGED closeVars
  BY <1>2, <1>i, <1>t DEF Planning, FirstInv, Settled, Planned, CommittedRows, Pre,
       PhaseInv, PrePhases, MemInv
<1>3. CASE PersistTask /\ UNCHANGED closeVars
  <2>1. /\ phase = "persist" /\ ~Settled /\ phase' \in {"persist_index", "leave"}
        /\ UNCHANGED <<rows, ckpt, todo, authored, operator, disabled, crashes>>
    BY <1>3, <1>i DEF PersistTask, Settled, PhaseInv, PrePhases
  <2>2. Planned' = Planned /\ CommittedRows' = CommittedRows /\ (Pre' <=> Pre) /\ Pre
    BY <2>1, <1>i DEF Planned, CommittedRows, Pre, PhaseInv, PrePhases
  <2>3. phase' = "leave" => ~task'.accepted /\ ~AcceptedTodo
    BY <1>3 DEF PersistTask
  <2>4. crashes = 0 /\ authored # NoPlan => AcceptedTodo
    BY <1>i, <1>a, <2>1 DEF FirstInv, AcceptedTodo, decide_decomposition
  <2>5. phase' # "leave" => ~Settled'
    BY <2>1, <2>2 DEF Settled
  <2>6. ckpt.node # "publish"
    BY <2>2 DEF Pre
  <2>7. crashes = 0 => Planned = {}
    BY <1>i, <2>1 DEF FirstInv
  <2>8. crashes = 0 /\ authored # NoPlan => operator /\ todo = authored
    BY <1>i, <2>1, <2>2 DEF FirstInv
  <2>9. QED
    BY <2>1, <2>2, <2>3, <2>4, <2>5, <2>6, <2>7, <2>8 DEF FirstInv
<1>4. CASE write_subtask_artifacts /\ UNCHANGED closeVars
  BY <1>4, <1>i, <1>t DEF write_subtask_artifacts, FirstInv, Settled, Planned,
       CommittedRows, Pre, PhaseInv, PrePhases, MemInv
<1>5. CASE insert_subtasks /\ UNCHANGED closeVars
  <2>1. /\ todo \in DOMAIN Plans /\ task.count = Len(Plans[todo]) /\ task.accepted
        /\ task.count \in 2..MaxSubtasks /\ plan.units = 1..task.count
    BY <1>5, <1>i DEF insert_subtasks, MemInv, Accepted
  <2>2. /\ phase = "persist_rows" /\ phase' = (IF ckpt.node = "none" THEN "begin" ELSE "leave")
        /\ UNCHANGED <<task, todo, authored, ckpt, operator, disabled, crashes>>
        /\ rows' = [o \in Orders |-> IF o <= Len(Plans[todo]) /\ rows[o].sha = 0
                                     THEN [plan |-> todo, sha |-> 0] ELSE rows[o]]
    BY <1>5 DEF insert_subtasks
  <2>3. CASE crashes = 0
    <3>1. Planned = {}
      BY <1>i, <2>2, <2>3 DEF FirstInv
    <3>2. \A o \in Orders : rows[o].sha = 0
      BY <3>1 DEF Planned, NoRow
    <3>3. \A o \in Orders : rows'[o] = IF o <= task.count THEN [plan |-> todo, sha |-> 0] ELSE rows[o]
      BY <2>1, <2>2, <3>2
    <3>4. [plan |-> todo, sha |-> 0] # NoRow
      BY <1>t, <2>1 DEF NoRow
    <3>5. 1..task.count \subseteq Orders /\ task.count \in Nat
      BY <2>1, RunRecordAssumption DEF Orders
    <3>6. Planned' = 1..task.count
      BY <3>1, <3>3, <3>4, <3>5 DEF Planned, Orders
    <3>7. \A o \in Planned' : rows'[o].plan = todo
      BY <3>3, <3>5, <3>6
    <3>8. Pre /\ Pre' /\ (phase' = "begin" => operator)
      BY <1>i, <2>2 DEF Pre, PhaseInv, PrePhases, MemInv
    <3>9. authored # NoPlan => operator /\ todo = authored
      BY <1>i, <2>2, <2>3, <3>8 DEF FirstInv
    <3>10. QED
      BY <2>1, <2>2, <3>6, <3>7, <3>8, <3>9 DEF FirstInv, Pre
  <2>4. QED
    BY <2>2, <2>3 DEF FirstInv
<1>6. CASE LeavePre /\ UNCHANGED closeVars
  BY <1>6, <1>i, <1>t DEF LeavePre, save_checkpoint, FirstInv, Settled, Planned,
       CommittedRows, Pre, PhaseInv, PrePhases, MemInv
<1>7. CASE FanOut /\ UNCHANGED closeVars
  BY <1>7, <1>i, <1>t DEF FanOut, FirstInv, Settled, Planned, CommittedRows, Pre,
       PhaseInv, PrePhases, MemInv
<1>8. CASE NextUnit /\ UNCHANGED closeVars
  BY <1>8, <1>i, <1>t DEF NextUnit, FirstInv, Settled, Planned, CommittedRows, Pre,
       PhaseInv, PrePhases, MemInv
<1>9. CASE EnterUnit /\ UNCHANGED closeVars
  BY <1>9, <1>i, <1>t DEF EnterUnit, save_checkpoint, FirstInv, Settled, Planned,
       CommittedRows, Pre, PhaseInv, PrePhases, MemInv
<1>10. CASE \E c \in BOOLEAN : Implement(c) /\ UNCHANGED closeVars
  BY <1>10, <1>i, <1>t DEF Implement, save_checkpoint, FirstInv, Settled, Planned,
       CommittedRows, Pre, PhaseInv, PrePhases, MemInv
<1>11. CASE \E fs \in Reports[unit] : Review(fs) /\ UNCHANGED closeVars
  BY <1>11, <1>i, <1>t DEF Review, FirstInv, Settled, Planned, CommittedRows, Pre,
       PhaseInv, PrePhases, MemInv
<1>12. CASE Rework /\ UNCHANGED closeVars
  BY <1>12, <1>i, <1>t DEF Rework, save_checkpoint, FirstInv, Settled, Planned,
       CommittedRows, Pre, PhaseInv, PrePhases, MemInv
<1>13. CASE Stuck /\ UNCHANGED closeVars
  BY <1>13, <1>i, <1>t DEF Stuck, FirstInv, Settled, Planned, CommittedRows, Pre,
       PhaseInv, PrePhases, MemInv
<1>14. CASE Accept /\ UNCHANGED closeVars
  <2>1. UNCHANGED <<task, rows, authored, todo, operator, disabled, crashes>>
    BY <1>14 DEF Accept
  <2>2. phase = "route" /\ phase' \in {"finalize", "commit"} /\ ~Pre
    BY <1>14, <1>i DEF Accept, Pre, PhaseInv, PrePhases
  <2>3. ~Pre' /\ (task.accepted => ckpt'.node # "publish" \/ ckpt' = ckpt)
    BY <1>14, <1>w, <2>2 DEF Accept, save_checkpoint, Pre
  <2>4. Planned' = Planned /\ CommittedRows' = CommittedRows
    BY <2>1 DEF Planned, CommittedRows
  <2>5. QED
    BY <1>i, <2>1, <2>2, <2>3, <2>4 DEF FirstInv, Settled
<1>15. CASE CommitStep(CommitAgain)
  BY <1>15, <1>i, <1>t DEF CommitStep, CommitAgain, FirstInv, Settled, Planned,
       CommittedRows, Pre, PhaseInv, PrePhases, MemInv
<1>16. CASE CommitStep(CommitNothing)
  BY <1>16, <1>i, <1>t DEF CommitStep, CommitNothing, FirstInv, Settled, Planned,
       CommittedRows, Pre, PhaseInv, PrePhases, MemInv
<1>17. CASE CommitStep(CommitTree)
  BY <1>17, <1>i, <1>t DEF CommitStep, CommitTree, FirstInv, Settled, Planned,
       CommittedRows, Pre, PhaseInv, PrePhases, MemInv
<1>18. CASE CommitStep(RecordOp)
  BY <1>18, <1>i, <1>t DEF CommitStep, RecordOp, FirstInv, Settled, Planned,
       CommittedRows, Pre, PhaseInv, PrePhases, MemInv
<1>19. CASE update_subtask_index /\ UNCHANGED closeVars
  BY <1>19, <1>i, <1>t DEF update_subtask_index, FirstInv, Settled, Planned,
       CommittedRows, Pre, PhaseInv, PrePhases, MemInv
<1>20. CASE set_subtask_commit /\ UNCHANGED closeVars
  <2>1. /\ phase = "row" /\ phase' = "count" /\ task.accepted /\ rows' = [rows EXCEPT ![unit].sha = sha]
        /\ UNCHANGED <<task, todo, authored, ckpt, operator, disabled, crashes>>
    BY <1>20, <1>i DEF set_subtask_commit, MemInv
  <2>2. unit \in Orders /\ unit \in plan.units /\ sha # 0
    BY <2>1, UnitNext, Typed DEF UnitPhases, CloseInvariant, BranchInv, ShaKnown
  <2>3. ~Pre /\ ~Pre' /\ Settled
    BY <1>i, <2>1 DEF Pre, Settled, PhaseInv, PrePhases
  <2>4. unit \in Planned
    BY <1>i, <2>1, <2>2, <2>3 DEF RowsInv
  <2>5. /\ \A o \in Orders \ {unit} : rows'[o] = rows[o]
        /\ rows'[unit].sha = sha /\ rows'[unit] # NoRow /\ rows'[unit].plan = rows[unit].plan
    BY <1>t, <2>1, <2>2 DEF Table, NoRow
  <2>6. Planned' = Planned /\ CommittedRows \subseteq CommittedRows'
    BY <2>2, <2>4, <2>5 DEF Planned, CommittedRows
  <2>7. \A o \in Planned : rows'[o].plan = rows[o].plan
    BY <2>5 DEF Planned
  <2>8. QED
    BY <1>i, <2>1, <2>3, <2>6, <2>7 DEF FirstInv
<1>21. CASE CountUnit /\ UNCHANGED closeVars
  BY <1>21, <1>i, <1>t DEF CountUnit, FirstInv, Settled, Planned, CommittedRows, Pre,
       PhaseInv, PrePhases, MemInv
<1>22. CASE AllUnits /\ UNCHANGED closeVars
  <2>1. /\ task.accepted /\ phase = "next" /\ phase' = "finalize" /\ plan.units \subseteq committed
        /\ UNCHANGED <<plan, committed, task, rows, authored, crashes>>
    BY <1>22, <1>i DEF AllUnits, MemInv, Left
  <2>2. plan.units \subseteq CommittedRows
    BY <1>i, <2>1 DEF UnitInv
  <2>3. (1..task.count \subseteq plan.units \/ Planned = {}) /\ Settled
    BY <1>i, <2>1 DEF RowsInv, Settled, PhaseInv, PrePhases
  <2>4. Planned' = Planned /\ CommittedRows' = CommittedRows
    BY <2>1 DEF Planned, CommittedRows
  <2>5. ckpt'.node = "publish"
    BY <1>22 DEF AllUnits, save_checkpoint
  <2>6. QED
    BY <1>i, <2>1, <2>2, <2>3, <2>4, <2>5 DEF FirstInv, Pre
<1>23. CASE Resume /\ UNCHANGED closeVars
  BY <1>23, <1>i, <1>t DEF Resume, ResumeAt, _rebuild_decomposition, FirstInv, Settled,
       Planned, CommittedRows, Pre, PhaseInv, PrePhases, MemInv
<1>24. CASE \E f \in BOOLEAN : _engine_post_node(f)
  BY <1>24, <1>i, <1>t DEF _engine_post_node, observe, FirstInv, Settled, Planned,
       CommittedRows, Pre, PhaseInv, PrePhases, MemInv
<1>25. CASE finalize
  BY <1>25, <1>i, <1>t DEF finalize, _finalize_turn, Stay, FirstInv, Settled, Planned,
       CommittedRows, Pre, PhaseInv, PrePhases, MemInv
<1>26. CASE _write_summary_json
  BY <1>26, <1>i, <1>t DEF _write_summary_json, Stay, FirstInv, Settled, Planned,
       CommittedRows, Pre, PhaseInv, PrePhases, MemInv
<1>27. CASE _engine_finalize
  BY <1>27, <1>i, <1>t DEF _engine_finalize, Stay, FirstInv, Settled, Planned,
       CommittedRows, Pre, PhaseInv, PrePhases, MemInv
<1>28. CASE ReportJson
  BY <1>28, <1>i, <1>t DEF ReportJson, Stay, FirstInv, Settled, Planned, CommittedRows,
       Pre, PhaseInv, PrePhases, MemInv
<1>29. CASE write_summary_report
  BY <1>29, <1>i, <1>t DEF write_summary_report, Stay, FirstInv, Settled, Planned,
       CommittedRows, Pre, PhaseInv, PrePhases, MemInv
<1>30. CASE SummaryStands
  BY <1>30, <1>i, <1>t DEF SummaryStands, Stay, FirstInv, Settled, Planned,
       CommittedRows, Pre, PhaseInv, PrePhases, MemInv
<1>31. CASE _append_follow_ups_file
  BY <1>31, <1>i, <1>t DEF _append_follow_ups_file, AfterFile, Stay, FirstInv, Settled,
       Planned, CommittedRows, Pre, PhaseInv, PrePhases, MemInv
<1>32. CASE PublishDone
  BY <1>32, <1>i, <1>t DEF PublishDone, Stay, FirstInv, Settled, Planned, CommittedRows,
       Pre, PhaseInv, PrePhases, MemInv
<1>33. CASE PublishFailed
  BY <1>33, <1>i, <1>t DEF PublishFailed, Stay, FirstInv, Settled, Planned,
       CommittedRows, Pre, PhaseInv, PrePhases, MemInv
<1>34. CASE _explain_terminal
  BY <1>34, <1>i, <1>t DEF _explain_terminal, Stay, FirstInv, Settled, Planned,
       CommittedRows, Pre, PhaseInv, PrePhases, MemInv
<1>35. CASE Die
  BY <1>35, <1>i, <1>t DEF Die, LoseMemory, ForgetTurn, Working, FirstInv, Settled,
       Planned, CommittedRows, Pre, PhaseInv, PrePhases, MemInv
<1>36. CASE ClearTree
  BY <1>36, <1>i, <1>t DEF ClearTree, FirstInv, Settled, Planned, CommittedRows, Pre,
       PhaseInv, PrePhases, MemInv
<1>37. CASE \E r \in BOOLEAN : RerunContinue(r)
  <2>1. UNCHANGED <<task, rows, authored, disabled, crashes>> /\ phase = "stopped" /\ phase' = "down"
    BY <1>37 DEF RerunContinue, cmd_rerun
  <2>2. ckpt \in [node : {"none", "planning", "implement", "review", "publish"}, fix : 0..MaxFix]
    BY DEF CloseInvariant, CloseTypeOK, TableTypes
  <2>3. ckpt'.node = ckpt.node
    BY <1>37, <2>2 DEF RerunContinue, _apply_continue_controls
  <2>4. ~Pre /\ ~Pre'
    BY <1>i, <2>1, <2>3 DEF Pre, PhaseInv, PrePhases
  <2>5. Planned' = Planned /\ CommittedRows' = CommittedRows
    BY <2>1 DEF Planned, CommittedRows
  <2>6. QED
    BY <1>i, <2>1, <2>3, <2>4, <2>5 DEF FirstInv, Settled
<1>38. CASE RerunFresh
  <2>1. Planned' = {} /\ ~task'.accepted
    BY <1>38 DEF RerunFresh, reset_task_for_rerun, Planned
  <2>2. /\ phase' = (IF authored # NoPlan THEN "persist" ELSE "begin") /\ todo' = authored
        /\ authored' = authored /\ operator' = (authored # NoPlan) /\ ckpt'.node = "none"
    BY <1>38 DEF RerunFresh, reset_task_for_rerun
  <2>3. Pre' /\ (authored # NoPlan => ~Settled')
    BY <2>2 DEF Pre, Settled
  <2>4. QED
    BY <2>1, <2>2, <2>3 DEF FirstInv
<1>39. CASE UNCHANGED allVars
  BY <1>39, <1>i, <1>t DEF allVars, subVars, FirstInv, Settled, Planned, CommittedRows,
       Pre, PhaseInv, PrePhases, MemInv
<1>q. QED
  BY <1>1, <1>2, <1>3, <1>4, <1>5, <1>6, <1>7, <1>8, <1>9, <1>10, <1>11, <1>12, <1>13,
       <1>14, <1>15, <1>16, <1>17, <1>18, <1>19, <1>20, <1>21, <1>22, <1>23, <1>24,
       <1>25, <1>26, <1>27, <1>28, <1>29, <1>30, <1>31, <1>32, <1>33, <1>34, <1>35,
       <1>36, <1>37, <1>38, <1>39, Cases

\* Each step of the close-out leaves what the next one reads.
LEMMA TurnStep == ASSUME CloseInvariant, [CloseNext]_allVars PROVE TurnInv'
<1> USE DEF To, splitVars, taskFile, gitVars, memVars, closeVars, turnVars, summaryVars
<1>i. PhaseInv /\ TurnInv
  BY DEF CloseInvariant
<1>t. /\ final \in {"done", "manual"} /\ crashes \in Nat /\ file \in Seq(SUBSET Items)
      /\ degraded \in BOOLEAN /\ ckpt.node \in {"none", "planning", "implement", "review", "publish"}
  BY Typed DEF CloseInvariant, CloseTypeOK, TurnTypes
<1>1. CASE Begin /\ UNCHANGED closeVars
  BY <1>1, <1>i, <1>t DEF Begin, save_checkpoint, TurnInv, AllOpen, ReportPhases, Open
<1>2. CASE \E p \in DOMAIN Plans : Planning(p) /\ UNCHANGED closeVars
  BY <1>2, <1>i, <1>t DEF Planning, TurnInv, AllOpen, ReportPhases, Open
<1>3. CASE PersistTask /\ UNCHANGED closeVars
  BY <1>3, <1>i, <1>t DEF PersistTask, TurnInv, AllOpen, ReportPhases, Open
<1>4. CASE write_subtask_artifacts /\ UNCHANGED closeVars
  BY <1>4, <1>i, <1>t DEF write_subtask_artifacts, TurnInv, AllOpen, ReportPhases, Open
<1>5. CASE insert_subtasks /\ UNCHANGED closeVars
  BY <1>5, <1>i, <1>t DEF insert_subtasks, TurnInv, AllOpen, ReportPhases, Open
<1>6. CASE LeavePre /\ UNCHANGED closeVars
  BY <1>6, <1>i, <1>t DEF LeavePre, save_checkpoint, TurnInv, AllOpen, ReportPhases,
       Open
<1>7. CASE FanOut /\ UNCHANGED closeVars
  BY <1>7, <1>i, <1>t DEF FanOut, TurnInv, AllOpen, ReportPhases, Open
<1>8. CASE NextUnit /\ UNCHANGED closeVars
  BY <1>8, <1>i, <1>t DEF NextUnit, TurnInv, AllOpen, ReportPhases, Open
<1>9. CASE EnterUnit /\ UNCHANGED closeVars
  BY <1>9, <1>i, <1>t DEF EnterUnit, save_checkpoint, TurnInv, AllOpen, ReportPhases,
       Open
<1>10. CASE \E c \in BOOLEAN : Implement(c) /\ UNCHANGED closeVars
  BY <1>10, <1>i, <1>t DEF Implement, save_checkpoint, TurnInv, AllOpen, ReportPhases,
       Open
<1>11. CASE \E fs \in Reports[unit] : Review(fs) /\ UNCHANGED closeVars
  BY <1>11, <1>i, <1>t DEF Review, TurnInv, AllOpen, ReportPhases, Open
<1>12. CASE Rework /\ UNCHANGED closeVars
  BY <1>12, <1>i, <1>t DEF Rework, save_checkpoint, TurnInv, AllOpen, ReportPhases, Open
<1>13. CASE Stuck /\ UNCHANGED closeVars
  BY <1>13, <1>i, <1>t DEF Stuck, TurnInv, AllOpen, ReportPhases, Open
<1>14. CASE Accept /\ UNCHANGED closeVars
  BY <1>14, <1>i, <1>t DEF Accept, save_checkpoint, TurnInv, AllOpen, ReportPhases, Open
<1>15. CASE CommitStep(CommitAgain)
  BY <1>15, <1>i, <1>t DEF CommitStep, CommitAgain, TurnInv, AllOpen, ReportPhases, Open
<1>16. CASE CommitStep(CommitNothing)
  BY <1>16, <1>i, <1>t DEF CommitStep, CommitNothing, TurnInv, AllOpen, ReportPhases,
       Open
<1>17. CASE CommitStep(CommitTree)
  BY <1>17, <1>i, <1>t DEF CommitStep, CommitTree, TurnInv, AllOpen, ReportPhases, Open
<1>18. CASE CommitStep(RecordOp)
  BY <1>18, <1>i, <1>t DEF CommitStep, RecordOp, TurnInv, AllOpen, ReportPhases, Open
<1>19. CASE update_subtask_index /\ UNCHANGED closeVars
  BY <1>19, <1>i, <1>t DEF update_subtask_index, TurnInv, AllOpen, ReportPhases, Open
<1>20. CASE set_subtask_commit /\ UNCHANGED closeVars
  BY <1>20, <1>i, <1>t DEF set_subtask_commit, TurnInv, AllOpen, ReportPhases, Open
<1>21. CASE CountUnit /\ UNCHANGED closeVars
  BY <1>21, <1>i, <1>t DEF CountUnit, TurnInv, AllOpen, ReportPhases, Open
<1>22. CASE AllUnits /\ UNCHANGED closeVars
  BY <1>22, <1>i, <1>t DEF AllUnits, save_checkpoint, TurnInv, AllOpen, ReportPhases,
       Open
<1>23. CASE Resume /\ UNCHANGED closeVars
  BY <1>23, <1>i, <1>t DEF Resume, ResumeAt, _rebuild_decomposition, TurnInv, AllOpen,
       ReportPhases, Open
<1>24. CASE \E f \in BOOLEAN : _engine_post_node(f)
  BY <1>24, <1>i, <1>t DEF _engine_post_node, observe, TurnInv, AllOpen, ReportPhases,
       Open
<1>25. CASE finalize
  <2>1. PICK debts \in SUBSET Debts : follow_ups' = merge_follow_ups(debts, Open)
    BY <1>25 DEF finalize, _finalize_turn, Open
  <2>2. Open' = Open
    BY <1>25 DEF finalize, Open, Stay
  <2>3. Open \subseteq follow_ups' /\ follow_ups' \ Debts \subseteq Open
    BY <2>1 DEF merge_follow_ups
  <2>4. QED
    BY <1>25, <1>i, <1>t, <2>2, <2>3 DEF finalize, _finalize_turn, Stay, TurnInv, AllOpen, ReportPhases
<1>26. CASE _write_summary_json
  BY <1>26, <1>i, <1>t DEF _write_summary_json, Stay, TurnInv, AllOpen, ReportPhases,
       Open
<1>27. CASE _engine_finalize
  <2>1. Open' = Open
    BY <1>27 DEF _engine_finalize, Open, Stay
  <2>2. /\ phase = "md" /\ phase' = "report" /\ final' = "done"
        /\ UNCHANGED <<follow_ups, clean_summary, summary_json, file, body, crashes>>
        /\ summary_md' = (IF clean_summary = "synthesis"
                          THEN [by |-> "synthesis", degraded |-> FALSE, items |-> follow_ups]
                          ELSE summary_md)
        /\ degraded' = (summary_md' = NoBody)
    BY <1>27 DEF _engine_finalize, Stay
  <2>3. clean_summary = "synthesis" => summary_md' # NoBody
    BY <2>2 DEF NoBody
  <2>4. summary_md' = NoBody => summary_md = NoBody /\ clean_summary # "synthesis" /\ degraded'
    BY <2>2, <2>3
  <2>5. AllOpen(follow_ups) /\ AllOpen(follow_ups)'
    BY <1>i, <2>1, <2>2 DEF TurnInv, AllOpen
  <2>6. summary_json' = "full" /\ summary_md' = NoBody => crashes' > 0
    BY <1>i, <2>2, <2>4 DEF TurnInv
  <2>7. QED
    BY <2>2, <2>4, <2>5, <2>6 DEF TurnInv, ReportPhases
<1>28. CASE ReportJson
  <2>1. Open' = Open /\ follow_ups' = merge_follow_ups(follow_ups, Open)
    BY <1>28 DEF ReportJson, Open, Stay
  <2>2. AllOpen(follow_ups) => AllOpen(follow_ups')
    BY <2>1 DEF AllOpen, merge_follow_ups
  <2>3. QED
    BY <1>28, <1>i, <1>t, <2>1, <2>2 DEF ReportJson, Stay, TurnInv, AllOpen, ReportPhases
<1>29. CASE write_summary_report
  <2>1. summary_md' # NoBody
    BY <1>29 DEF write_summary_report, NoBody
  <2>2. Open' = Open
    BY <1>29 DEF write_summary_report, Open, Stay
  <2>3. QED
    BY <1>29, <1>i, <1>t, <2>1, <2>2 DEF write_summary_report, Stay, TurnInv, AllOpen, ReportPhases
<1>30. CASE SummaryStands
  BY <1>30, <1>i, <1>t DEF SummaryStands, Stay, TurnInv, AllOpen, ReportPhases, Open
<1>31. CASE _append_follow_ups_file
  <2>1. Open' = Open
    BY <1>31 DEF _append_follow_ups_file, Open, Stay
  <2>2. /\ phase = "file" /\ phase' = (IF final = "done" THEN "publish" ELSE "stopped")
        /\ UNCHANGED <<follow_ups, final, degraded, summary_md, summary_json, crashes, clean_summary>>
        /\ file' = IF follow_ups = {} THEN file ELSE Append(file, follow_ups)
    BY <1>31 DEF _append_follow_ups_file, AfterFile, Stay
  <2>3. final = "done" => AllOpen(follow_ups)
    BY <1>i, <2>2 DEF TurnInv, ReportPhases
  <2>4. follow_ups # {} => file' # <<>> /\ file'[Len(file')] = follow_ups
    <3>1. follow_ups \subseteq Items
      BY DEF CloseInvariant, CloseTypeOK, TurnTypes
    <3>2. QED
      BY <1>t, <2>2, <3>1
  <2>5. final = "done" /\ Open # {} => file' # <<>> /\ Open \subseteq file'[Len(file')]
    BY <2>3, <2>4 DEF AllOpen
  <2>6. QED
    BY <1>i, <2>1, <2>2, <2>5 DEF TurnInv, ReportPhases
<1>32. CASE PublishDone
  BY <1>32, <1>i, <1>t DEF PublishDone, Stay, TurnInv, AllOpen, ReportPhases, Open
<1>33. CASE PublishFailed
  BY <1>33, <1>i, <1>t DEF PublishFailed, Stay, TurnInv, AllOpen, ReportPhases, Open
<1>34. CASE _explain_terminal
  BY <1>34, <1>i, <1>t DEF _explain_terminal, Stay, TurnInv, AllOpen, ReportPhases, Open
<1>35. CASE Die
  BY <1>35, <1>i, <1>t DEF Die, LoseMemory, ForgetTurn, Working, TurnInv, AllOpen,
       ReportPhases, Open
<1>36. CASE ClearTree
  BY <1>36, <1>i, <1>t DEF ClearTree, TurnInv, AllOpen, ReportPhases, Open
<1>37. CASE \E r \in BOOLEAN : RerunContinue(r)
  BY <1>37, <1>i, <1>t DEF RerunContinue, cmd_rerun, plan_rerun,
       _resolve_reset_fix_budget, _apply_continue_controls, LoseMemory, ForgetTurn,
       TurnInv, AllOpen, ReportPhases, Open
<1>38. CASE RerunFresh
  BY <1>38, <1>i, <1>t DEF RerunFresh, cmd_rerun, plan_rerun, reset_task_for_rerun,
       ForgetTurn, TurnInv, AllOpen, ReportPhases, Open
<1>39. CASE UNCHANGED allVars
  BY <1>39, <1>i, <1>t DEF allVars, subVars, TurnInv, AllOpen, ReportPhases, Open
<1>q. QED
  BY <1>1, <1>2, <1>3, <1>4, <1>5, <1>6, <1>7, <1>8, <1>9, <1>10, <1>11, <1>12, <1>13,
       <1>14, <1>15, <1>16, <1>17, <1>18, <1>19, <1>20, <1>21, <1>22, <1>23, <1>24,
       <1>25, <1>26, <1>27, <1>28, <1>29, <1>30, <1>31, <1>32, <1>33, <1>34, <1>35,
       <1>36, <1>37, <1>38, <1>39, Cases

\* No unit of the running plan is beyond the persisted split once the plan is settled.
LEMMA ListedUnits ==
  ASSUME CloseInvariant, task.accepted, ~Pre
  PROVE  /\ \A u \in CommittedRows : u <= task.count
         /\ phase # "down" => plan.units \subseteq Planned
         /\ phase # "down" => 1..task.count \subseteq plan.units \/ Planned = {}
<1>1. RowsInv /\ Settled
  BY DEF CloseInvariant, Settled
<1>2. (Persisted \/ Unwritten) /\ \A u \in CommittedRows : index[u].sha = rows[u].sha
  BY <1>1 DEF RowsInv
<1>3. ASSUME NEW u \in CommittedRows PROVE u <= task.count
  <2>1. u \in Orders /\ rows[u].sha # 0 /\ index[u].sha # 0
    BY <1>2 DEF CommittedRows
  <2>2. index[u] # NoRow /\ rows[u] # NoRow
    BY <2>1 DEF NoRow
  <2>3. u \in Planned
    BY <2>1, <2>2 DEF Planned
  <2>4. Persisted
    BY <1>2, <2>3 DEF Unwritten
  <2>5. QED
    BY <2>1, <2>2, <2>4 DEF Persisted
<1>4. QED
  BY <1>1, <1>3 DEF RowsInv

\* Past the pre phase only a fresh rerun touches which rows there are, and no step but
\* that one drops a committed row.
LEMMA RowsKept ==
  ASSUME CloseInvariant, [CloseNext]_allVars, ~Pre, ~RerunFresh
  PROVE  /\ UNCHANGED <<task.accepted, task.count>> /\ Planned' = Planned
         /\ CommittedRows \subseteq CommittedRows' /\ ~Pre'
         /\ \A u \in CommittedRows : rows'[u] = rows[u]
<1> USE DEF To, splitVars, taskFile, gitVars, memVars, closeVars, turnVars, summaryVars
<1>i. PhaseInv /\ MemInv /\ RowsInv
  BY DEF CloseInvariant
<1>t. /\ ckpt \in [node : {"none", "planning", "implement", "review", "publish"}, fix : 0..MaxFix]
      /\ task \in [accepted : BOOLEAN, count : Units, active : Units, completed : Units]
  BY DEF CloseInvariant, CloseTypeOK, TableTypes
<1>p. phase \notin PrePhases
  BY <1>i DEF PhaseInv
<1>1. CASE Begin /\ UNCHANGED closeVars
  BY <1>1, <1>t, <1>p DEF Begin, save_checkpoint, Planned, CommittedRows, Pre, PrePhases
<1>2. CASE \E p \in DOMAIN Plans : Planning(p) /\ UNCHANGED closeVars
  BY <1>2, <1>t, <1>p DEF Planning, Planned, CommittedRows, Pre, PrePhases
<1>3. CASE PersistTask /\ UNCHANGED closeVars
  BY <1>3, <1>t, <1>p DEF PersistTask, Planned, CommittedRows, Pre, PrePhases
<1>4. CASE write_subtask_artifacts /\ UNCHANGED closeVars
  BY <1>4, <1>t, <1>p DEF write_subtask_artifacts, Planned, CommittedRows, Pre,
       PrePhases
<1>5. CASE insert_subtasks /\ UNCHANGED closeVars
  BY <1>5, <1>t, <1>p DEF insert_subtasks, Planned, CommittedRows, Pre, PrePhases
<1>6. CASE LeavePre /\ UNCHANGED closeVars
  BY <1>6, <1>t, <1>p DEF LeavePre, save_checkpoint, Planned, CommittedRows, Pre,
       PrePhases
<1>7. CASE FanOut /\ UNCHANGED closeVars
  BY <1>7, <1>t, <1>p DEF FanOut, Planned, CommittedRows, Pre, PrePhases
<1>8. CASE NextUnit /\ UNCHANGED closeVars
  BY <1>8, <1>t, <1>p DEF NextUnit, Planned, CommittedRows, Pre, PrePhases
<1>9. CASE EnterUnit /\ UNCHANGED closeVars
  BY <1>9, <1>t, <1>p DEF EnterUnit, save_checkpoint, Planned, CommittedRows, Pre,
       PrePhases
<1>10. CASE \E c \in BOOLEAN : Implement(c) /\ UNCHANGED closeVars
  BY <1>10, <1>t, <1>p DEF Implement, save_checkpoint, Planned, CommittedRows, Pre,
       PrePhases
<1>11. CASE \E fs \in Reports[unit] : Review(fs) /\ UNCHANGED closeVars
  BY <1>11, <1>t, <1>p DEF Review, Planned, CommittedRows, Pre, PrePhases
<1>12. CASE Rework /\ UNCHANGED closeVars
  BY <1>12, <1>t, <1>p DEF Rework, save_checkpoint, Planned, CommittedRows, Pre,
       PrePhases
<1>13. CASE Stuck /\ UNCHANGED closeVars
  BY <1>13, <1>t, <1>p DEF Stuck, Planned, CommittedRows, Pre, PrePhases
<1>14. CASE Accept /\ UNCHANGED closeVars
  BY <1>14, <1>t, <1>p DEF Accept, save_checkpoint, Planned, CommittedRows, Pre,
       PrePhases
<1>15. CASE CommitStep(CommitAgain)
  BY <1>15, <1>t, <1>p DEF CommitStep, CommitAgain, Planned, CommittedRows, Pre,
       PrePhases
<1>16. CASE CommitStep(CommitNothing)
  BY <1>16, <1>t, <1>p DEF CommitStep, CommitNothing, Planned, CommittedRows, Pre,
       PrePhases
<1>17. CASE CommitStep(CommitTree)
  BY <1>17, <1>t, <1>p DEF CommitStep, CommitTree, Planned, CommittedRows, Pre,
       PrePhases
<1>18. CASE CommitStep(RecordOp)
  BY <1>18, <1>t, <1>p DEF CommitStep, RecordOp, Planned, CommittedRows, Pre, PrePhases
<1>19. CASE update_subtask_index /\ UNCHANGED closeVars
  BY <1>19, <1>t, <1>p DEF update_subtask_index, Planned, CommittedRows, Pre, PrePhases
<1>20. CASE set_subtask_commit /\ UNCHANGED closeVars
  <2>1. /\ phase = "row" /\ task.accepted /\ rows' = [rows EXCEPT ![unit].sha = sha]
        /\ UNCHANGED <<task, ckpt>>
    BY <1>20, <1>i DEF set_subtask_commit, MemInv
  <2>2. unit \in Orders /\ unit \in plan.units /\ unit \notin CommittedRows /\ sha # 0
    BY <2>1, UnitNext, Typed DEF UnitPhases, CloseInvariant, BranchInv, ShaKnown
  <2>3. unit \in Planned
    BY <2>1, <2>2, ListedUnits
  <2>4. /\ \A o \in Orders \ {unit} : rows'[o] = rows[o]
        /\ rows'[unit].sha = sha /\ rows'[unit] # NoRow
    BY <2>1, <2>2, Typed DEF Table, NoRow
  <2>5. Planned' = Planned /\ CommittedRows \subseteq CommittedRows'
    BY <2>2, <2>3, <2>4 DEF Planned, CommittedRows
  <2>6. \A u \in CommittedRows : rows'[u] = rows[u]
    BY <2>2, <2>4 DEF CommittedRows
  <2>7. QED
    BY <2>1, <2>5, <2>6 DEF Pre
<1>21. CASE CountUnit /\ UNCHANGED closeVars
  BY <1>21, <1>t, <1>p DEF CountUnit, Planned, CommittedRows, Pre, PrePhases
<1>22. CASE AllUnits /\ UNCHANGED closeVars
  BY <1>22, <1>t, <1>p DEF AllUnits, save_checkpoint, Planned, CommittedRows, Pre,
       PrePhases
<1>23. CASE Resume /\ UNCHANGED closeVars
  BY <1>23, <1>t, <1>p DEF Resume, ResumeAt, _rebuild_decomposition, Planned,
       CommittedRows, Pre, PrePhases
<1>24. CASE \E f \in BOOLEAN : _engine_post_node(f)
  BY <1>24, <1>t, <1>p DEF _engine_post_node, observe, Planned, CommittedRows, Pre,
       PrePhases
<1>25. CASE finalize
  BY <1>25, <1>t, <1>p DEF finalize, _finalize_turn, Stay, Planned, CommittedRows, Pre,
       PrePhases
<1>26. CASE _write_summary_json
  BY <1>26, <1>t, <1>p DEF _write_summary_json, Stay, Planned, CommittedRows, Pre,
       PrePhases
<1>27. CASE _engine_finalize
  BY <1>27, <1>t, <1>p DEF _engine_finalize, Stay, Planned, CommittedRows, Pre,
       PrePhases
<1>28. CASE ReportJson
  BY <1>28, <1>t, <1>p DEF ReportJson, Stay, Planned, CommittedRows, Pre, PrePhases
<1>29. CASE write_summary_report
  BY <1>29, <1>t, <1>p DEF write_summary_report, Stay, Planned, CommittedRows, Pre,
       PrePhases
<1>30. CASE SummaryStands
  BY <1>30, <1>t, <1>p DEF SummaryStands, Stay, Planned, CommittedRows, Pre, PrePhases
<1>31. CASE _append_follow_ups_file
  BY <1>31, <1>t, <1>p DEF _append_follow_ups_file, AfterFile, Stay, Planned,
       CommittedRows, Pre, PrePhases
<1>32. CASE PublishDone
  BY <1>32, <1>t, <1>p DEF PublishDone, Stay, Planned, CommittedRows, Pre, PrePhases
<1>33. CASE PublishFailed
  BY <1>33, <1>t, <1>p DEF PublishFailed, Stay, Planned, CommittedRows, Pre, PrePhases
<1>34. CASE _explain_terminal
  BY <1>34, <1>t, <1>p DEF _explain_terminal, Stay, Planned, CommittedRows, Pre,
       PrePhases
<1>35. CASE Die
  BY <1>35, <1>t, <1>p DEF Die, LoseMemory, ForgetTurn, Working, Planned, CommittedRows,
       Pre, PrePhases
<1>36. CASE ClearTree
  BY <1>36, <1>t, <1>p DEF ClearTree, Planned, CommittedRows, Pre, PrePhases
<1>37. CASE \E r \in BOOLEAN : RerunContinue(r)
  BY <1>37, <1>t, <1>p DEF RerunContinue, cmd_rerun, plan_rerun,
       _resolve_reset_fix_budget, _apply_continue_controls, LoseMemory, ForgetTurn,
       Planned, CommittedRows, Pre, PrePhases
<1>38. CASE RerunFresh
  BY <1>38, <1>t, <1>p DEF RerunFresh, cmd_rerun, plan_rerun, reset_task_for_rerun,
       ForgetTurn, Planned, CommittedRows, Pre, PrePhases
<1>39. CASE UNCHANGED allVars
  BY <1>39, <1>t, <1>p DEF allVars, subVars, Planned, CommittedRows, Pre, PrePhases
<1>q. QED
  BY <1>1, <1>2, <1>3, <1>4, <1>5, <1>6, <1>7, <1>8, <1>9, <1>10, <1>11, <1>12, <1>13,
       <1>14, <1>15, <1>16, <1>17, <1>18, <1>19, <1>20, <1>21, <1>22, <1>23, <1>24,
       <1>25, <1>26, <1>27, <1>28, <1>29, <1>30, <1>31, <1>32, <1>33, <1>34, <1>35,
       <1>36, <1>37, <1>38, <1>39, Cases

\* How a step changes the record of reviews.
LEMMA EvalsKept ==
  ASSUME CloseInvariant, [CloseNext]_allVars
  PROVE  \/ phase = "review" /\ \E fs \in Reports[unit] : Review(fs)
         \/ phase = "stopped" /\ phase' = "down" /\ evals' = Append(evals, ResetRow)
         \/ Open' = Open /\ Similar(evals, evals')
<1> USE DEF To, splitVars, taskFile, gitVars, memVars, closeVars, turnVars, summaryVars
<1>t. evals \in Seq(EvaluationRows)
  BY Typed
<1>s. evals' = evals => Open' = Open /\ Similar(evals, evals')
  BY DEF Open, Similar
<1>1. CASE Begin /\ UNCHANGED closeVars
  BY <1>1, <1>s DEF Begin, save_checkpoint
<1>2. CASE \E p \in DOMAIN Plans : Planning(p) /\ UNCHANGED closeVars
  BY <1>2, <1>s DEF Planning
<1>3. CASE PersistTask /\ UNCHANGED closeVars
  BY <1>3, <1>s DEF PersistTask
<1>4. CASE write_subtask_artifacts /\ UNCHANGED closeVars
  BY <1>4, <1>s DEF write_subtask_artifacts
<1>5. CASE insert_subtasks /\ UNCHANGED closeVars
  BY <1>5, <1>s DEF insert_subtasks
<1>6. CASE LeavePre /\ UNCHANGED closeVars
  BY <1>6, <1>s DEF LeavePre, save_checkpoint
<1>7. CASE FanOut /\ UNCHANGED closeVars
  BY <1>7, <1>s DEF FanOut
<1>8. CASE NextUnit /\ UNCHANGED closeVars
  BY <1>8, <1>s DEF NextUnit
<1>9. CASE EnterUnit /\ UNCHANGED closeVars
  BY <1>9, <1>s DEF EnterUnit, save_checkpoint
<1>10. CASE \E c \in BOOLEAN : Implement(c) /\ UNCHANGED closeVars
  BY <1>10, <1>s DEF Implement, save_checkpoint
<1>11. CASE \E fs \in Reports[unit] : Review(fs) /\ UNCHANGED closeVars
  BY <1>11 DEF Review
<1>12. CASE Rework /\ UNCHANGED closeVars
  BY <1>12, <1>s DEF Rework, save_checkpoint
<1>13. CASE Stuck /\ UNCHANGED closeVars
  BY <1>13, <1>s DEF Stuck
<1>14. CASE Accept /\ UNCHANGED closeVars
  BY <1>14, <1>s DEF Accept, save_checkpoint
<1>15. CASE CommitStep(CommitAgain)
  BY <1>15, <1>s DEF CommitStep, CommitAgain
<1>16. CASE CommitStep(CommitNothing)
  BY <1>16, <1>s DEF CommitStep, CommitNothing
<1>17. CASE CommitStep(CommitTree)
  BY <1>17, <1>s DEF CommitStep, CommitTree
<1>18. CASE CommitStep(RecordOp)
  BY <1>18, <1>s DEF CommitStep, RecordOp
<1>19. CASE update_subtask_index /\ UNCHANGED closeVars
  BY <1>19, <1>s DEF update_subtask_index
<1>20. CASE set_subtask_commit /\ UNCHANGED closeVars
  BY <1>20, <1>s DEF set_subtask_commit
<1>21. CASE CountUnit /\ UNCHANGED closeVars
  BY <1>21, <1>s DEF CountUnit
<1>22. CASE AllUnits /\ UNCHANGED closeVars
  BY <1>22, <1>s DEF AllUnits, save_checkpoint
<1>23. CASE Resume /\ UNCHANGED closeVars
  BY <1>23, <1>s DEF Resume, ResumeAt, _rebuild_decomposition
<1>24. CASE \E f \in BOOLEAN : _engine_post_node(f)
  <2>1. Len(evals) > 0
    BY <1>24 DEF _engine_post_node, CloseInvariant, EvalInv
  <2>2. CASE observe
    <3>1. Similar(evals, evals') /\ evals' \in Seq(EvaluationRows)
      BY <2>1, <2>2, SeenRow
    <3>2. QED
      BY <1>t, <3>1, FinalSimilar DEF Open
  <2>3. QED
    BY <1>24, <1>s, <2>2 DEF _engine_post_node
<1>25. CASE finalize
  BY <1>25, <1>s DEF finalize, _finalize_turn, Stay
<1>26. CASE _write_summary_json
  BY <1>26, <1>s DEF _write_summary_json, Stay
<1>27. CASE _engine_finalize
  BY <1>27, <1>s DEF _engine_finalize, Stay
<1>28. CASE ReportJson
  BY <1>28, <1>s DEF ReportJson, Stay
<1>29. CASE write_summary_report
  BY <1>29, <1>s DEF write_summary_report, Stay
<1>30. CASE SummaryStands
  BY <1>30, <1>s DEF SummaryStands, Stay
<1>31. CASE _append_follow_ups_file
  BY <1>31, <1>s DEF _append_follow_ups_file, AfterFile, Stay
<1>32. CASE PublishDone
  BY <1>32, <1>s DEF PublishDone, Stay
<1>33. CASE PublishFailed
  BY <1>33, <1>s DEF PublishFailed, Stay
<1>34. CASE _explain_terminal
  BY <1>34, <1>s DEF _explain_terminal, Stay
<1>35. CASE Die
  BY <1>35, <1>s DEF Die, LoseMemory, ForgetTurn, Working
<1>36. CASE ClearTree
  BY <1>36, <1>s DEF ClearTree
<1>37. CASE \E r \in BOOLEAN : RerunContinue(r)
  BY <1>37, <1>s DEF RerunContinue, cmd_rerun, _apply_continue_controls
<1>38. CASE RerunFresh
  <2>1. Similar(evals, evals') /\ evals' \in Seq(EvaluationRows)
    BY <1>38, DeadRows DEF RerunFresh, reset_task_for_rerun
  <2>2. QED
    BY <1>t, <2>1, FinalSimilar DEF Open
<1>39. CASE UNCHANGED allVars
  BY <1>39, <1>s DEF allVars, subVars
<1>q. QED
  BY <1>1, <1>2, <1>3, <1>4, <1>5, <1>6, <1>7, <1>8, <1>9, <1>10, <1>11, <1>12, <1>13,
       <1>14, <1>15, <1>16, <1>17, <1>18, <1>19, <1>20, <1>21, <1>22, <1>23, <1>24,
       <1>25, <1>26, <1>27, <1>28, <1>29, <1>30, <1>31, <1>32, <1>33, <1>34, <1>35,
       <1>36, <1>37, <1>38, <1>39, Cases

\* A reset row leaves what the reviews left open as it is.
LEMMA ResetOpen ==
  ASSUME CloseInvariant, evals' = Append(evals, ResetRow)
  PROVE  Open' = Open
<1>1. /\ evals \in Seq(EvaluationRows) /\ EvalInv
  BY Typed DEF CloseInvariant
<1>2. /\ DOMAIN evals' = DOMAIN evals \cup {Len(evals) + 1}
      /\ \A i \in DOMAIN evals : evals'[i] = evals[i]
      /\ \A i \in DOMAIN evals : i \in FinalRows(evals') <=> i \in FinalRows(evals) /\ (NoUnit # evals[i].unit)
      /\ Len(evals) + 1 \notin FinalRows(evals')
  BY <1>1, ResetFields, FinalAppend
<1>3. FinalRows(evals) \subseteq DOMAIN evals /\ FinalRows(evals') \subseteq DOMAIN evals'
      /\ \A i \in FinalRows(evals) : evals[i].unit # NoUnit
  BY DEF FinalRows, RowsOf
<1>4. FinalRows(evals') = FinalRows(evals)
  BY <1>2, <1>3
<1>5. ASSUME NEW f
      PROVE  f \in evaluator_finding_follow_ups(evals') <=> f \in evaluator_finding_follow_ups(evals)
  <2>1. f \in evaluator_finding_follow_ups(evals) <=>
          \E i \in FinalRows(evals) : f \in Elements(evals[i].findings)
                                       /\ (f \notin Gating \/ evals[i].verdict = "accept")
    BY OpenOf
  <2>2. f \in evaluator_finding_follow_ups(evals') <=>
          \E i \in FinalRows(evals') : f \in Elements(evals'[i].findings)
                                        /\ (f \notin Gating \/ evals'[i].verdict = "accept")
    BY OpenOf
  <2>3. \A i \in FinalRows(evals) : evals'[i] = evals[i]
    BY <1>2, <1>3
  <2>4. QED
    BY <1>4, <2>1, <2>2, <2>3
<1>6. QED
  BY <1>5 DEF Open

\* What a step does to the summary on record.
LEMMA BodyFields == ASSUME CloseInvariant, [CloseNext]_allVars
  PROVE \/ summary_md' = summary_md
        \/ /\ phase = "md" /\ phase' = "report" /\ final' = "done" /\ UNCHANGED <<evals, crashes, reruns, task, rows, ckpt, plan>>
           /\ summary_md' = [by |-> "synthesis", degraded |-> FALSE, items |-> follow_ups]
        \/ /\ phase = "report_md" /\ phase' = "file" /\ UNCHANGED <<final, evals, crashes, reruns, task, rows, ckpt, plan>>
           /\ summary_md' = [by |-> "report", degraded |-> degraded, items |-> follow_ups]
        \/ summary_md' = NoBody /\ reruns' > reruns
<1> USE DEF To, splitVars, taskFile, gitVars, memVars, closeVars, turnVars, summaryVars
<1>t. reruns \in Nat
  BY Typed
<1>1. CASE Begin /\ UNCHANGED closeVars
  BY <1>1, <1>t DEF Begin, save_checkpoint
<1>2. CASE \E p \in DOMAIN Plans : Planning(p) /\ UNCHANGED closeVars
  BY <1>2, <1>t DEF Planning
<1>3. CASE PersistTask /\ UNCHANGED closeVars
  BY <1>3, <1>t DEF PersistTask
<1>4. CASE write_subtask_artifacts /\ UNCHANGED closeVars
  BY <1>4, <1>t DEF write_subtask_artifacts
<1>5. CASE insert_subtasks /\ UNCHANGED closeVars
  BY <1>5, <1>t DEF insert_subtasks
<1>6. CASE LeavePre /\ UNCHANGED closeVars
  BY <1>6, <1>t DEF LeavePre, save_checkpoint
<1>7. CASE FanOut /\ UNCHANGED closeVars
  BY <1>7, <1>t DEF FanOut
<1>8. CASE NextUnit /\ UNCHANGED closeVars
  BY <1>8, <1>t DEF NextUnit
<1>9. CASE EnterUnit /\ UNCHANGED closeVars
  BY <1>9, <1>t DEF EnterUnit, save_checkpoint
<1>10. CASE \E c \in BOOLEAN : Implement(c) /\ UNCHANGED closeVars
  BY <1>10, <1>t DEF Implement, save_checkpoint
<1>11. CASE \E fs \in Reports[unit] : Review(fs) /\ UNCHANGED closeVars
  BY <1>11, <1>t DEF Review
<1>12. CASE Rework /\ UNCHANGED closeVars
  BY <1>12, <1>t DEF Rework, save_checkpoint
<1>13. CASE Stuck /\ UNCHANGED closeVars
  BY <1>13, <1>t DEF Stuck
<1>14. CASE Accept /\ UNCHANGED closeVars
  BY <1>14, <1>t DEF Accept, save_checkpoint
<1>15. CASE CommitStep(CommitAgain)
  BY <1>15, <1>t DEF CommitStep, CommitAgain
<1>16. CASE CommitStep(CommitNothing)
  BY <1>16, <1>t DEF CommitStep, CommitNothing
<1>17. CASE CommitStep(CommitTree)
  BY <1>17, <1>t DEF CommitStep, CommitTree
<1>18. CASE CommitStep(RecordOp)
  BY <1>18, <1>t DEF CommitStep, RecordOp
<1>19. CASE update_subtask_index /\ UNCHANGED closeVars
  BY <1>19, <1>t DEF update_subtask_index
<1>20. CASE set_subtask_commit /\ UNCHANGED closeVars
  BY <1>20, <1>t DEF set_subtask_commit
<1>21. CASE CountUnit /\ UNCHANGED closeVars
  BY <1>21, <1>t DEF CountUnit
<1>22. CASE AllUnits /\ UNCHANGED closeVars
  BY <1>22, <1>t DEF AllUnits, save_checkpoint
<1>23. CASE Resume /\ UNCHANGED closeVars
  BY <1>23, <1>t DEF Resume, ResumeAt, _rebuild_decomposition
<1>24. CASE \E f \in BOOLEAN : _engine_post_node(f)
  BY <1>24, <1>t DEF _engine_post_node, observe
<1>25. CASE finalize
  BY <1>25, <1>t DEF finalize, _finalize_turn, Stay
<1>26. CASE _write_summary_json
  BY <1>26, <1>t DEF _write_summary_json, Stay
<1>27. CASE _engine_finalize
  BY <1>27, <1>t DEF _engine_finalize, Stay
<1>28. CASE ReportJson
  BY <1>28, <1>t DEF ReportJson, Stay
<1>29. CASE write_summary_report
  BY <1>29, <1>t DEF write_summary_report, Stay
<1>30. CASE SummaryStands
  BY <1>30, <1>t DEF SummaryStands, Stay
<1>31. CASE _append_follow_ups_file
  BY <1>31, <1>t DEF _append_follow_ups_file, AfterFile, Stay
<1>32. CASE PublishDone
  BY <1>32, <1>t DEF PublishDone, Stay
<1>33. CASE PublishFailed
  BY <1>33, <1>t DEF PublishFailed, Stay
<1>34. CASE _explain_terminal
  BY <1>34, <1>t DEF _explain_terminal, Stay
<1>35. CASE Die
  BY <1>35, <1>t DEF Die, LoseMemory, ForgetTurn, Working
<1>36. CASE ClearTree
  BY <1>36, <1>t DEF ClearTree
<1>37. CASE \E r \in BOOLEAN : RerunContinue(r)
  BY <1>37, <1>t DEF RerunContinue, cmd_rerun, plan_rerun, _resolve_reset_fix_budget,
       _apply_continue_controls, LoseMemory, ForgetTurn
<1>38. CASE RerunFresh
  BY <1>38, <1>t DEF RerunFresh, cmd_rerun, plan_rerun, reset_task_for_rerun, ForgetTurn
<1>39. CASE UNCHANGED allVars
  BY <1>39, <1>t DEF allVars, subVars
<1>q. QED
  BY <1>1, <1>2, <1>3, <1>4, <1>5, <1>6, <1>7, <1>8, <1>9, <1>10, <1>11, <1>12, <1>13,
       <1>14, <1>15, <1>16, <1>17, <1>18, <1>19, <1>20, <1>21, <1>22, <1>23, <1>24,
       <1>25, <1>26, <1>27, <1>28, <1>29, <1>30, <1>31, <1>32, <1>33, <1>34, <1>35,
       <1>36, <1>37, <1>38, <1>39, Cases

\* How the phase moves past the pre phase, and when the plan in memory changes with it.
LEMMA UnitsMove ==
  ASSUME CloseInvariant, [CloseNext]_allVars, ~Pre, ~RerunFresh
  PROVE  /\ phase # "down" /\ phase' \notin {"down", "stopped"} => plan' = plan
         /\ phase = "down" /\ phase' # "down" =>
              /\ task.accepted => plan'.units = Planned
              /\ ~task.accepted /\ ckpt.node = "publish" => phase' = "finalize"
         /\ Closing => Closing' \/ phase' \in {"down", "stopped"}
         /\ phase \in {"down", "stopped"} /\ phase' = phase => plan' = plan
         /\ phase = "stopped" => phase' \in {"down", "stopped"}
         /\ Closing \/ phase \in {"down", "stopped"} => ckpt'.node = ckpt.node
<1> USE DEF To, splitVars, taskFile, gitVars, memVars, closeVars, turnVars, summaryVars
<1>i. PhaseInv
  BY DEF CloseInvariant
<1>t. /\ ckpt \in [node : {"none", "planning", "implement", "review", "publish"}, fix : 0..MaxFix]
      /\ final \in {"done", "manual"}
  BY Typed DEF CloseInvariant, CloseTypeOK, TableTypes
<1>p. phase \notin PrePhases
  BY <1>i DEF PhaseInv
<1>1. CASE Begin /\ UNCHANGED closeVars
  BY <1>1, <1>t, <1>p DEF Begin, save_checkpoint, Closing, DonePhases, ReportPhases,
       PrePhases
<1>2. CASE \E p \in DOMAIN Plans : Planning(p) /\ UNCHANGED closeVars
  BY <1>2, <1>t, <1>p DEF Planning, Closing, DonePhases, ReportPhases, PrePhases
<1>3. CASE PersistTask /\ UNCHANGED closeVars
  BY <1>3, <1>t, <1>p DEF PersistTask, Closing, DonePhases, ReportPhases, PrePhases
<1>4. CASE write_subtask_artifacts /\ UNCHANGED closeVars
  BY <1>4, <1>t, <1>p DEF write_subtask_artifacts, Closing, DonePhases, ReportPhases,
       PrePhases
<1>5. CASE insert_subtasks /\ UNCHANGED closeVars
  BY <1>5, <1>t, <1>p DEF insert_subtasks, Closing, DonePhases, ReportPhases, PrePhases
<1>6. CASE LeavePre /\ UNCHANGED closeVars
  BY <1>6, <1>t, <1>p DEF LeavePre, save_checkpoint, Closing, DonePhases, ReportPhases,
       PrePhases
<1>7. CASE FanOut /\ UNCHANGED closeVars
  BY <1>7, <1>t, <1>p DEF FanOut, Closing, DonePhases, ReportPhases, PrePhases
<1>8. CASE NextUnit /\ UNCHANGED closeVars
  BY <1>8, <1>t, <1>p DEF NextUnit, Closing, DonePhases, ReportPhases, PrePhases
<1>9. CASE EnterUnit /\ UNCHANGED closeVars
  BY <1>9, <1>t, <1>p DEF EnterUnit, save_checkpoint, Closing, DonePhases, ReportPhases,
       PrePhases
<1>10. CASE \E c \in BOOLEAN : Implement(c) /\ UNCHANGED closeVars
  BY <1>10, <1>t, <1>p DEF Implement, save_checkpoint, Closing, DonePhases,
       ReportPhases, PrePhases
<1>11. CASE \E fs \in Reports[unit] : Review(fs) /\ UNCHANGED closeVars
  BY <1>11, <1>t, <1>p DEF Review, Closing, DonePhases, ReportPhases, PrePhases
<1>12. CASE Rework /\ UNCHANGED closeVars
  BY <1>12, <1>t, <1>p DEF Rework, save_checkpoint, Closing, DonePhases, ReportPhases,
       PrePhases
<1>13. CASE Stuck /\ UNCHANGED closeVars
  BY <1>13, <1>t, <1>p DEF Stuck, Closing, DonePhases, ReportPhases, PrePhases
<1>14. CASE Accept /\ UNCHANGED closeVars
  BY <1>14, <1>t, <1>p DEF Accept, save_checkpoint, Closing, DonePhases, ReportPhases,
       PrePhases
<1>15. CASE CommitStep(CommitAgain)
  BY <1>15, <1>t, <1>p DEF CommitStep, CommitAgain, Closing, DonePhases, ReportPhases,
       PrePhases
<1>16. CASE CommitStep(CommitNothing)
  BY <1>16, <1>t, <1>p DEF CommitStep, CommitNothing, Closing, DonePhases, ReportPhases,
       PrePhases
<1>17. CASE CommitStep(CommitTree)
  BY <1>17, <1>t, <1>p DEF CommitStep, CommitTree, Closing, DonePhases, ReportPhases,
       PrePhases
<1>18. CASE CommitStep(RecordOp)
  BY <1>18, <1>t, <1>p DEF CommitStep, RecordOp, Closing, DonePhases, ReportPhases,
       PrePhases
<1>19. CASE update_subtask_index /\ UNCHANGED closeVars
  BY <1>19, <1>t, <1>p DEF update_subtask_index, Closing, DonePhases, ReportPhases,
       PrePhases
<1>20. CASE set_subtask_commit /\ UNCHANGED closeVars
  BY <1>20, <1>t, <1>p DEF set_subtask_commit, Closing, DonePhases, ReportPhases,
       PrePhases
<1>21. CASE CountUnit /\ UNCHANGED closeVars
  BY <1>21, <1>t, <1>p DEF CountUnit, Closing, DonePhases, ReportPhases, PrePhases
<1>22. CASE AllUnits /\ UNCHANGED closeVars
  BY <1>22, <1>t, <1>p DEF AllUnits, save_checkpoint, Closing, DonePhases, ReportPhases,
       PrePhases
<1>23. CASE Resume /\ UNCHANGED closeVars
  BY <1>23, <1>t, <1>p DEF Resume, ResumeAt, _rebuild_decomposition, Closing,
       DonePhases, ReportPhases, Planned, Pre
<1>24. CASE \E f \in BOOLEAN : _engine_post_node(f)
  BY <1>24, <1>t, <1>p DEF _engine_post_node, observe, Closing, DonePhases,
       ReportPhases, PrePhases
<1>25. CASE finalize
  BY <1>25, <1>t, <1>p DEF finalize, _finalize_turn, Stay, Closing, DonePhases,
       ReportPhases, PrePhases
<1>26. CASE _write_summary_json
  BY <1>26, <1>t, <1>p DEF _write_summary_json, Stay, Closing, DonePhases, ReportPhases,
       PrePhases
<1>27. CASE _engine_finalize
  BY <1>27, <1>t, <1>p DEF _engine_finalize, Stay, Closing, DonePhases, ReportPhases,
       PrePhases
<1>28. CASE ReportJson
  BY <1>28, <1>t, <1>p DEF ReportJson, Stay, Closing, DonePhases, ReportPhases,
       PrePhases
<1>29. CASE write_summary_report
  BY <1>29, <1>t, <1>p DEF write_summary_report, Stay, Closing, DonePhases,
       ReportPhases, PrePhases
<1>30. CASE SummaryStands
  BY <1>30, <1>t, <1>p DEF SummaryStands, Stay, Closing, DonePhases, ReportPhases,
       PrePhases
<1>31. CASE _append_follow_ups_file
  BY <1>31, <1>t, <1>p DEF _append_follow_ups_file, AfterFile, Stay, Closing,
       DonePhases, ReportPhases, PrePhases
<1>32. CASE PublishDone
  BY <1>32, <1>t, <1>p DEF PublishDone, Stay, Closing, DonePhases, ReportPhases,
       PrePhases
<1>33. CASE PublishFailed
  BY <1>33, <1>t, <1>p DEF PublishFailed, Stay, Closing, DonePhases, ReportPhases,
       PrePhases
<1>34. CASE _explain_terminal
  BY <1>34, <1>t, <1>p DEF _explain_terminal, Stay, Closing, DonePhases, ReportPhases,
       PrePhases
<1>35. CASE Die
  BY <1>35, <1>t, <1>p DEF Die, LoseMemory, ForgetTurn, Working, Closing, DonePhases,
       ReportPhases, PrePhases
<1>36. CASE ClearTree
  BY <1>36, <1>t, <1>p DEF ClearTree, Closing, DonePhases, ReportPhases, PrePhases
<1>37. CASE \E r \in BOOLEAN : RerunContinue(r)
  BY <1>37, <1>t, <1>p DEF RerunContinue, cmd_rerun, plan_rerun,
       _resolve_reset_fix_budget, _apply_continue_controls, LoseMemory, ForgetTurn,
       Closing, DonePhases, ReportPhases, PrePhases
<1>38. CASE RerunFresh
  BY <1>38, <1>t, <1>p DEF RerunFresh, cmd_rerun, plan_rerun, reset_task_for_rerun,
       ForgetTurn, Closing, DonePhases, ReportPhases, PrePhases
<1>39. CASE UNCHANGED allVars
  BY <1>39, <1>t, <1>p DEF allVars, subVars, Closing, DonePhases, ReportPhases,
       PrePhases
<1>q. QED
  BY <1>1, <1>2, <1>3, <1>4, <1>5, <1>6, <1>7, <1>8, <1>9, <1>10, <1>11, <1>12, <1>13,
       <1>14, <1>15, <1>16, <1>17, <1>18, <1>19, <1>20, <1>21, <1>22, <1>23, <1>24,
       <1>25, <1>26, <1>27, <1>28, <1>29, <1>30, <1>31, <1>32, <1>33, <1>34, <1>35,
       <1>36, <1>37, <1>38, <1>39, Cases

\* What a terminal's report is excused by does not go away.
LEMMA ManualStep ==
  ASSUME CloseInvariant, [CloseNext]_allVars, summary_md' = summary_md,
         phase = "stopped" \/ (phase = "file" /\ final = "manual") \/ reruns + crashes > 0
  PROVE  phase' = "stopped" \/ (phase' = "file" /\ final' = "manual") \/ reruns' + crashes' > 0
<1> USE DEF To, splitVars, taskFile, gitVars, memVars, closeVars, turnVars, summaryVars
<1>t. reruns \in Nat /\ crashes \in Nat
  BY Typed
<1>1. CASE Begin /\ UNCHANGED closeVars
  BY <1>1, <1>t DEF Begin, save_checkpoint
<1>2. CASE \E p \in DOMAIN Plans : Planning(p) /\ UNCHANGED closeVars
  BY <1>2, <1>t DEF Planning
<1>3. CASE PersistTask /\ UNCHANGED closeVars
  BY <1>3, <1>t DEF PersistTask
<1>4. CASE write_subtask_artifacts /\ UNCHANGED closeVars
  BY <1>4, <1>t DEF write_subtask_artifacts
<1>5. CASE insert_subtasks /\ UNCHANGED closeVars
  BY <1>5, <1>t DEF insert_subtasks
<1>6. CASE LeavePre /\ UNCHANGED closeVars
  BY <1>6, <1>t DEF LeavePre, save_checkpoint
<1>7. CASE FanOut /\ UNCHANGED closeVars
  BY <1>7, <1>t DEF FanOut
<1>8. CASE NextUnit /\ UNCHANGED closeVars
  BY <1>8, <1>t DEF NextUnit
<1>9. CASE EnterUnit /\ UNCHANGED closeVars
  BY <1>9, <1>t DEF EnterUnit, save_checkpoint
<1>10. CASE \E c \in BOOLEAN : Implement(c) /\ UNCHANGED closeVars
  BY <1>10, <1>t DEF Implement, save_checkpoint
<1>11. CASE \E fs \in Reports[unit] : Review(fs) /\ UNCHANGED closeVars
  BY <1>11, <1>t DEF Review
<1>12. CASE Rework /\ UNCHANGED closeVars
  BY <1>12, <1>t DEF Rework, save_checkpoint
<1>13. CASE Stuck /\ UNCHANGED closeVars
  BY <1>13, <1>t DEF Stuck
<1>14. CASE Accept /\ UNCHANGED closeVars
  BY <1>14, <1>t DEF Accept, save_checkpoint
<1>15. CASE CommitStep(CommitAgain)
  BY <1>15, <1>t DEF CommitStep, CommitAgain
<1>16. CASE CommitStep(CommitNothing)
  BY <1>16, <1>t DEF CommitStep, CommitNothing
<1>17. CASE CommitStep(CommitTree)
  BY <1>17, <1>t DEF CommitStep, CommitTree
<1>18. CASE CommitStep(RecordOp)
  BY <1>18, <1>t DEF CommitStep, RecordOp
<1>19. CASE update_subtask_index /\ UNCHANGED closeVars
  BY <1>19, <1>t DEF update_subtask_index
<1>20. CASE set_subtask_commit /\ UNCHANGED closeVars
  BY <1>20, <1>t DEF set_subtask_commit
<1>21. CASE CountUnit /\ UNCHANGED closeVars
  BY <1>21, <1>t DEF CountUnit
<1>22. CASE AllUnits /\ UNCHANGED closeVars
  BY <1>22, <1>t DEF AllUnits, save_checkpoint
<1>23. CASE Resume /\ UNCHANGED closeVars
  BY <1>23, <1>t DEF Resume, ResumeAt, _rebuild_decomposition
<1>24. CASE \E f \in BOOLEAN : _engine_post_node(f)
  BY <1>24, <1>t DEF _engine_post_node, observe
<1>25. CASE finalize
  BY <1>25, <1>t DEF finalize, _finalize_turn, Stay
<1>26. CASE _write_summary_json
  BY <1>26, <1>t DEF _write_summary_json, Stay
<1>27. CASE _engine_finalize
  BY <1>27, <1>t DEF _engine_finalize, Stay
<1>28. CASE ReportJson
  BY <1>28, <1>t DEF ReportJson, Stay
<1>29. CASE write_summary_report
  BY <1>29, <1>t DEF write_summary_report, Stay
<1>30. CASE SummaryStands
  BY <1>30, <1>t DEF SummaryStands, Stay
<1>31. CASE _append_follow_ups_file
  BY <1>31, <1>t DEF _append_follow_ups_file, AfterFile, Stay
<1>32. CASE PublishDone
  BY <1>32, <1>t DEF PublishDone, Stay
<1>33. CASE PublishFailed
  BY <1>33, <1>t DEF PublishFailed, Stay
<1>34. CASE _explain_terminal
  BY <1>34, <1>t DEF _explain_terminal, Stay
<1>35. CASE Die
  BY <1>35, <1>t DEF Die, LoseMemory, ForgetTurn, Working
<1>36. CASE ClearTree
  BY <1>36, <1>t DEF ClearTree
<1>37. CASE \E r \in BOOLEAN : RerunContinue(r)
  BY <1>37, <1>t DEF RerunContinue, cmd_rerun, plan_rerun, _resolve_reset_fix_budget,
       _apply_continue_controls, LoseMemory, ForgetTurn
<1>38. CASE RerunFresh
  BY <1>38, <1>t DEF RerunFresh, cmd_rerun, plan_rerun, reset_task_for_rerun, ForgetTurn
<1>39. CASE UNCHANGED allVars
  BY <1>39, <1>t DEF allVars, subVars
<1>q. QED
  BY <1>1, <1>2, <1>3, <1>4, <1>5, <1>6, <1>7, <1>8, <1>9, <1>10, <1>11, <1>12, <1>13,
       <1>14, <1>15, <1>16, <1>17, <1>18, <1>19, <1>20, <1>21, <1>22, <1>23, <1>24,
       <1>25, <1>26, <1>27, <1>28, <1>29, <1>30, <1>31, <1>32, <1>33, <1>34, <1>35,
       <1>36, <1>37, <1>38, <1>39, Cases

\* What lists all that is open still does while that is the same.
LEMMA AllOpenSame ==
  ASSUME NEW items, Open' = Open PROVE AllOpen(items) <=> AllOpen(items)'
  BY DEF AllOpen

\* No step makes a finished run's summary miss what is open.
LEMMA BodyStep == ASSUME CloseInvariant, [CloseNext]_allVars PROVE BodyInv'
<1>i. PhaseInv /\ TurnInv /\ BodyInv /\ UnitInv /\ MemInv
  BY DEF CloseInvariant
<1>t. /\ reruns \in Nat /\ crashes \in Nat /\ final \in {"done", "manual"}
      /\ task.accepted \in BOOLEAN /\ task.count \in Nat
  BY Typed
<1>b. summary_md.degraded \in BOOLEAN /\ degraded \in BOOLEAN
  BY DEF CloseInvariant, CloseTypeOK, TurnTypes, Bodies
<1>1. /\ summary_md'.by = "none" => summary_md' = NoBody
      /\ summary_md'.by = "synthesis" => ~summary_md'.degraded
  <2>1. CASE summary_md' = summary_md
    BY <1>i, <2>1 DEF BodyInv
  <2>2. CASE summary_md' # summary_md
    BY <2>2, BodyFields DEF NoBody
  <2>3. QED
    BY <2>1, <2>2
<1>2. summary_md'.by = "report" /\ ~summary_md'.degraded =>
        reruns' + crashes' > 0 \/ phase' = "stopped" \/ (phase' = "file" /\ final' = "manual")
  <2>1. CASE summary_md' = summary_md
    BY <1>i, <2>1, ManualStep DEF BodyInv
  <2>2. CASE summary_md' # summary_md
    <3>1. ASSUME summary_md'.by = "report", ~summary_md'.degraded
          PROVE  /\ phase = "report_md" /\ phase' = "file" /\ final' = final /\ ~degraded
      BY <2>2, <3>1, BodyFields DEF NoBody
    <3>2. phase = "report_md" /\ final = "done" => degraded
      BY <1>i DEF TurnInv, ReportPhases
    <3>3. QED
      BY <1>t, <3>1, <3>2
  <2>3. QED
    BY <2>1, <2>2
<1>3. CASE RerunFresh
  <2>1. summary_md' = NoBody
    BY <1>3 DEF RerunFresh
  <2>2. ~Fin'
    BY <2>1 DEF Fin, NoBody
  <2>3. QED
    BY <1>1, <1>2, <2>2 DEF BodyInv
<1>4. CASE ~RerunFresh /\ summary_md' = summary_md
  <2>1. SUFFICES ASSUME Fin
        PROVE  /\ ~Pre'
               /\ ~task'.accepted => ckpt'.node = "publish" /\ (Closing' \/ phase' \in {"down", "stopped"})
               /\ task'.accepted =>
                    /\ 1..task'.count \subseteq CommittedRows' \/ Planned' = {}
                    /\ ~Closing' /\ phase' \notin {"down", "stopped"} => plan'.units = Planned'
               /\ AllOpen(summary_md.items)' \/ Doomed'
    BY <1>1, <1>2, <1>4 DEF BodyInv, Fin
  <2>2. /\ ~Pre
        /\ ~task.accepted => ckpt.node = "publish" /\ (Closing \/ phase \in {"down", "stopped"})
        /\ task.accepted =>
             /\ 1..task.count \subseteq CommittedRows \/ Planned = {}
             /\ ~Closing /\ phase \notin {"down", "stopped"} => plan.units = Planned
        /\ AllOpen(summary_md.items) \/ Doomed
    BY <1>i, <2>1 DEF BodyInv
  <2>3. /\ task'.accepted = task.accepted /\ task'.count = task.count /\ Planned' = Planned
        /\ CommittedRows \subseteq CommittedRows' /\ ~Pre'
    BY <1>4, <2>2, RowsKept
  <2>4. /\ phase # "down" /\ phase' \notin {"down", "stopped"} => plan' = plan
        /\ phase = "down" /\ phase' # "down" =>
             /\ task.accepted => plan'.units = Planned
             /\ ~task.accepted /\ ckpt.node = "publish" => phase' = "finalize"
        /\ Closing => Closing' \/ phase' \in {"down", "stopped"}
        /\ phase = "stopped" => phase' \in {"down", "stopped"}
        /\ Closing \/ phase \in {"down", "stopped"} => ckpt'.node = ckpt.node
    BY <1>4, <2>2, UnitsMove
  <2>5. phase' = "finalize" => Closing'
    BY DEF Closing, DonePhases
  <2>6. ~task'.accepted => ckpt'.node = "publish" /\ (Closing' \/ phase' \in {"down", "stopped"})
    BY <2>2, <2>3, <2>4, <2>5
  <2>7. task'.accepted /\ ~Closing' /\ phase' \notin {"down", "stopped"} => plan'.units = Planned'
    BY <2>2, <2>3, <2>4
  <2>8. Doomed => Doomed'
    <3>1. SUFFICES ASSUME Doomed PROVE Doomed'
      OBVIOUS
    <3>2. PICK o \in Planned : o > task.count /\ (phase \notin {"down", "stopped"} => o \in plan.units)
      BY <3>1 DEF Doomed
    <3>3. phase' \notin {"down", "stopped"} => o \in plan'.units
      BY <2>3, <2>4, <3>1, <3>2 DEF Doomed
    <3>4. QED
      BY <2>3, <3>1, <3>2, <3>3 DEF Doomed
  <2>9. AllOpen(summary_md.items) => AllOpen(summary_md.items)' \/ Doomed'
    <3>1. CASE phase = "review" /\ \E fs \in Reports[unit] : Review(fs)
      <4>1. ~Closing /\ phase \notin {"down", "stopped"} /\ phase' = "observe" /\ plan' = plan
        BY <3>1 DEF Closing, DonePhases, ReportPhases, Review, memVars, To
      <4>2. task.accepted /\ plan.units = Planned
        BY <2>2, <4>1
      <4>3. unit \in plan.units /\ unit \in Orders /\ unit \notin CommittedRows
        BY <3>1, <4>2, UnitNext DEF UnitPhases
      <4>4. unit \notin 1..task.count
        BY <2>2, <4>2, <4>3
      <4>5. unit > task.count
        BY <1>t, <4>3, <4>4 DEF Orders
      <4>6. QED
        BY <2>3, <4>1, <4>2, <4>3, <4>5 DEF Doomed
    <3>2. CASE evals' = Append(evals, ResetRow)
      BY <1>4, <3>2, ResetOpen DEF AllOpen
    <3>3. CASE Open' = Open
      BY <1>4, <3>3 DEF AllOpen
    <3>4. QED
      BY <3>1, <3>2, <3>3, EvalsKept
  <2>10. QED
    BY <2>2, <2>3, <2>6, <2>7, <2>8, <2>9
<1>5. CASE ~RerunFresh /\ summary_md' # summary_md
  <2>1. SUFFICES ASSUME Fin'
        PROVE  /\ ~Pre'
               /\ ~task'.accepted => ckpt'.node = "publish" /\ Closing'
               /\ task'.accepted => (1..task'.count \subseteq CommittedRows' \/ Planned' = {}) /\ Closing'
               /\ AllOpen(summary_md.items)'
    BY <1>1, <1>2 DEF BodyInv
  <2>2. /\ UNCHANGED <<evals, task, rows, ckpt, plan>> /\ summary_md'.items = follow_ups
        /\ \/ phase = "md" /\ phase' = "report" /\ final' = "done"
           \/ phase = "report_md" /\ phase' = "file" /\ final = "done" /\ final' = "done"
    <3>1. CASE summary_md' = NoBody
      BY <2>1, <3>1 DEF Fin, NoBody
    <3>2. CASE phase = "md" /\ phase' = "report"
      BY <1>5, <2>1, <3>2, BodyFields DEF Fin, NoBody
    <3>3. CASE phase = "report_md" /\ phase' = "file"
      <4>1. summary_md' = [by |-> "report", degraded |-> degraded, items |-> follow_ups]
            /\ UNCHANGED <<final, evals, task, rows, ckpt, plan>>
        BY <1>5, <2>1, <3>3, BodyFields DEF Fin, NoBody
      <4>2. degraded
        BY <2>1, <4>1 DEF Fin
      <4>3. final = "done"
        BY <1>i, <1>t, <3>3, <4>2 DEF TurnInv, ReportPhases
      <4>4. QED
        BY <3>3, <4>1, <4>3
    <3>4. QED
      BY <1>5, <3>1, <3>2, <3>3, BodyFields
  <2>3. Closing /\ Closing' /\ AllOpen(follow_ups) /\ phase # "down"
    BY <1>i, <2>2 DEF TurnInv, Closing, DonePhases, ReportPhases
  <2>4. ckpt.node = "publish" /\ ~Pre
    BY <1>i, <2>3 DEF PhaseInv, Pre
  <2>5. task.accepted => 1..task.count \subseteq CommittedRows \/ Planned = {}
    BY <1>i, <2>3, <2>4, ListedUnits DEF UnitInv
  <2>6. Open' = Open /\ Planned' = Planned /\ CommittedRows' = CommittedRows /\ (Pre' <=> Pre)
    BY <2>2 DEF Open, Planned, CommittedRows, Pre
  <2>7. AllOpen(summary_md.items)'
    BY <2>2, <2>3, <2>6 DEF AllOpen
  <2>8. QED
    BY <2>2, <2>3, <2>4, <2>5, <2>6, <2>7
<1>6. QED
  BY <1>3, <1>4, <1>5

\* There are finitely many evaluations.
LEMMA FiniteEvals ==
  ASSUME CloseInvariant PROVE IsFiniteSet(DOMAIN evals) /\ DOMAIN evals = 1..Len(evals) /\ Len(evals) \in Nat
<1>1. evals \in Seq(EvaluationRows)
  BY Typed
<1>2. DOMAIN evals = 1..Len(evals) /\ Len(evals) \in Nat
  BY <1>1
<1>3. QED
  BY <1>2, FS_Interval

\* Only a crash adds to the deviations nobody was shown.
LEMMA SeenStep == ASSUME CloseInvariant, [CloseNext]_allVars PROVE SeenInv'
<1> USE DEF To, splitVars, taskFile, gitVars, memVars, closeVars, turnVars, summaryVars
<1>i. PhaseInv /\ EvalInv /\ SeenInv
  BY DEF CloseInvariant
<1>t. crashes \in Nat /\ evals \in Seq(EvaluationRows)
  BY Typed
<1>f. IsFiniteSet(Missed) /\ Cardinality(Missed) \in Nat
  <2>1. Missed \subseteq DOMAIN evals
    BY DEF Missed
  <2>2. QED
    BY <2>1, FiniteEvals, FS_Subset, FS_CardinalityType
<1>s. SUFFICES ASSUME SelectsRework PROVE Cardinality(Missed') <= crashes'
  BY DEF SeenInv
<1>c. Cardinality(Missed) <= crashes
  BY <1>i, <1>s DEF SeenInv
<1>e. evals' = evals /\ phase # "observe" /\ phase' # "observe" => Missed' = Missed
  BY DEF Missed, Deviating
<1>1. CASE Begin /\ UNCHANGED closeVars
  BY <1>1, <1>e, <1>c DEF Begin, save_checkpoint
<1>2. CASE \E p \in DOMAIN Plans : Planning(p) /\ UNCHANGED closeVars
  BY <1>2, <1>e, <1>c DEF Planning
<1>3. CASE PersistTask /\ UNCHANGED closeVars
  BY <1>3, <1>e, <1>c DEF PersistTask
<1>4. CASE write_subtask_artifacts /\ UNCHANGED closeVars
  BY <1>4, <1>e, <1>c DEF write_subtask_artifacts
<1>5. CASE insert_subtasks /\ UNCHANGED closeVars
  BY <1>5, <1>e, <1>c DEF insert_subtasks
<1>6. CASE LeavePre /\ UNCHANGED closeVars
  BY <1>6, <1>e, <1>c DEF LeavePre, save_checkpoint
<1>7. CASE FanOut /\ UNCHANGED closeVars
  BY <1>7, <1>e, <1>c DEF FanOut
<1>8. CASE NextUnit /\ UNCHANGED closeVars
  BY <1>8, <1>e, <1>c DEF NextUnit
<1>9. CASE EnterUnit /\ UNCHANGED closeVars
  BY <1>9, <1>e, <1>c DEF EnterUnit, save_checkpoint
<1>10. CASE \E c \in BOOLEAN : Implement(c) /\ UNCHANGED closeVars
  BY <1>10, <1>e, <1>c DEF Implement, save_checkpoint
<1>11. CASE \E fs \in Reports[unit] : Review(fs) /\ UNCHANGED closeVars
  <2>1. PICK fs \in Reports[unit] : Review(fs)
    BY <1>11
  <2>2. PICK r \in EvaluationRows : evals' = Append(evals, r)
    BY <2>1, ReviewRow
  <2>3. phase = "review" /\ phase' = "observe" /\ crashes' = crashes
    BY <2>1 DEF Review
  <2>4. /\ DOMAIN evals' = DOMAIN evals \cup {Len(evals) + 1} /\ Len(evals') = Len(evals) + 1
        /\ \A i \in DOMAIN evals : evals'[i] = evals[i]
    BY <1>t, <2>2, FinalAppend
  <2>5. \A i \in DOMAIN evals : i # Len(evals) + 1
    BY <1>t
  <2>6. Missed' = Missed
    BY <2>3, <2>4, <2>5 DEF Missed, Deviating
  <2>7. QED
    BY <1>c, <2>3, <2>6
<1>12. CASE Rework /\ UNCHANGED closeVars
  BY <1>12, <1>e, <1>c DEF Rework, save_checkpoint
<1>13. CASE Stuck /\ UNCHANGED closeVars
  BY <1>13, <1>e, <1>c DEF Stuck
<1>14. CASE Accept /\ UNCHANGED closeVars
  BY <1>14, <1>e, <1>c DEF Accept, save_checkpoint
<1>15. CASE CommitStep(CommitAgain)
  BY <1>15, <1>e, <1>c DEF CommitStep, CommitAgain
<1>16. CASE CommitStep(CommitNothing)
  BY <1>16, <1>e, <1>c DEF CommitStep, CommitNothing
<1>17. CASE CommitStep(CommitTree)
  BY <1>17, <1>e, <1>c DEF CommitStep, CommitTree
<1>18. CASE CommitStep(RecordOp)
  BY <1>18, <1>e, <1>c DEF CommitStep, RecordOp
<1>19. CASE update_subtask_index /\ UNCHANGED closeVars
  BY <1>19, <1>e, <1>c DEF update_subtask_index
<1>20. CASE set_subtask_commit /\ UNCHANGED closeVars
  BY <1>20, <1>e, <1>c DEF set_subtask_commit
<1>21. CASE CountUnit /\ UNCHANGED closeVars
  BY <1>21, <1>e, <1>c DEF CountUnit
<1>22. CASE AllUnits /\ UNCHANGED closeVars
  BY <1>22, <1>e, <1>c DEF AllUnits, save_checkpoint
<1>23. CASE Resume /\ UNCHANGED closeVars
  <2>1. ckpt.node \in {"none", "planning", "implement", "review", "publish"}
    BY Typed
  <2>2. phase = "down" /\ phase' # "observe" /\ evals' = evals /\ crashes' = crashes
    BY <1>23, <2>1 DEF Resume, ResumeAt
  <2>3. QED
    BY <1>c, <1>e, <2>2
<1>24. CASE \E f \in BOOLEAN : _engine_post_node(f)
  <2>1. /\ phase = "observe" /\ phase' = "route" /\ Len(evals) > 0 /\ crashes' = crashes
    BY <1>24, <1>i DEF _engine_post_node, EvalInv
  <2>2. CASE observe
    <3>1. /\ Similar(evals, evals') /\ evals' \in Seq(EvaluationRows)
          /\ \A i \in DOMAIN evals : i # Len(evals) => evals'[i] = evals[i]
          /\ evals'[Len(evals)].seen
      BY <2>1, <2>2, SeenRow
    <3>2. DOMAIN evals' = DOMAIN evals
      BY <1>t, <3>1, FinalSimilar
    <3>3. Missed' \subseteq Missed
      BY <2>1, <3>1, <3>2 DEF Missed, Deviating
    <3>4. Cardinality(Missed') <= Cardinality(Missed) /\ Cardinality(Missed') \in Nat
      BY <1>f, <3>3, FS_Subset, FS_CardinalityType
    <3>5. QED
      BY <1>c, <1>f, <1>t, <2>1, <3>4
  <2>3. CASE ~observe
    <3>1. PICK f \in BOOLEAN : ~_observes_step(f) /\ evals' = evals
      BY <1>24, <2>3 DEF _engine_post_node
    <3>2. ~Deviating(Len(evals))
      BY <1>s, <3>1 DEF _observes_step, should_observe, SelectsRework, triggers_for, Deviating
    <3>3. Missed' = Missed
      BY <2>1, <3>1, <3>2 DEF Missed, Deviating
    <3>4. QED
      BY <1>c, <2>1, <3>3
  <2>4. QED
    BY <2>2, <2>3
<1>25. CASE finalize
  BY <1>25, <1>e, <1>c DEF finalize, _finalize_turn, Stay
<1>26. CASE _write_summary_json
  BY <1>26, <1>e, <1>c DEF _write_summary_json, Stay
<1>27. CASE _engine_finalize
  BY <1>27, <1>e, <1>c DEF _engine_finalize, Stay
<1>28. CASE ReportJson
  BY <1>28, <1>e, <1>c DEF ReportJson, Stay
<1>29. CASE write_summary_report
  BY <1>29, <1>e, <1>c DEF write_summary_report, Stay
<1>30. CASE SummaryStands
  BY <1>30, <1>e, <1>c DEF SummaryStands, Stay
<1>31. CASE _append_follow_ups_file
  BY <1>31, <1>e, <1>c DEF _append_follow_ups_file, AfterFile, Stay
<1>32. CASE PublishDone
  BY <1>32, <1>e, <1>c DEF PublishDone, Stay
<1>33. CASE PublishFailed
  BY <1>33, <1>e, <1>c DEF PublishFailed, Stay
<1>34. CASE _explain_terminal
  BY <1>34, <1>e, <1>c DEF _explain_terminal, Stay
<1>35. CASE Die
  <2>1. crashes' = crashes + 1 /\ evals' = evals /\ phase' = "down"
    BY <1>35 DEF Die
  <2>2. Missed' \subseteq Missed \cup {Len(evals)}
    BY <2>1 DEF Missed, Deviating
  <2>3. IsFiniteSet(Missed \cup {Len(evals)}) /\ Cardinality(Missed \cup {Len(evals)}) <= Cardinality(Missed) + 1
        /\ Cardinality(Missed \cup {Len(evals)}) \in Nat
    <3>1. /\ IsFiniteSet(Missed \cup {Len(evals)})
          /\ Cardinality(Missed \cup {Len(evals)}) =
               IF Len(evals) \in Missed THEN Cardinality(Missed) ELSE Cardinality(Missed) + 1
      BY <1>f, FS_AddElement
    <3>2. QED
      BY <1>f, <3>1
  <2>4. Cardinality(Missed') <= Cardinality(Missed \cup {Len(evals)}) /\ Cardinality(Missed') \in Nat
    BY <2>2, <2>3, FS_Subset, FS_CardinalityType
  <2>5. QED
    BY <1>c, <1>f, <1>t, <2>1, <2>3, <2>4
<1>36. CASE ClearTree
  BY <1>36, <1>e, <1>c DEF ClearTree
<1>37. CASE \E r \in BOOLEAN : RerunContinue(r)
  <2>1. phase = "stopped" /\ phase' = "down" /\ crashes' = crashes
    BY <1>37 DEF RerunContinue, cmd_rerun
  <2>2. CASE evals' = evals
    BY <1>c, <1>e, <2>1, <2>2
  <2>3. CASE evals' = Append(evals, ResetRow)
    <3>1. /\ DOMAIN evals' = DOMAIN evals \cup {Len(evals) + 1}
          /\ \A i \in DOMAIN evals : evals'[i] = evals[i]
          /\ evals'[Len(evals) + 1] = ResetRow
      BY <1>t, <2>3, ResetFields, FinalAppend
    <3>2. evals'[Len(evals) + 1].verdict # "rework" /\ ~rework_exhausted(evals'[Len(evals) + 1])
      BY <3>1, ResetFields DEF rework_exhausted
    <3>3. Missed' = Missed
      BY <2>1, <3>1, <3>2 DEF Missed, Deviating
    <3>4. QED
      BY <1>c, <2>1, <3>3
  <2>4. QED
    BY <1>37, <2>2, <2>3 DEF RerunContinue, _apply_continue_controls
<1>38. CASE RerunFresh
  <2>1. phase = "stopped" /\ phase' # "observe" /\ crashes' = crashes
    BY <1>38 DEF RerunFresh, cmd_rerun
  <2>2. /\ Similar(evals, evals') /\ evals' \in Seq(EvaluationRows)
        /\ \A i \in DOMAIN evals : evals'[i].seen = evals[i].seen
    BY <1>38, DeadRows DEF RerunFresh, reset_task_for_rerun
  <2>3. DOMAIN evals' = DOMAIN evals
    BY <1>t, <2>2, FinalSimilar
  <2>4. Missed' = Missed
    BY <2>1, <2>2, <2>3 DEF Missed, Deviating, Similar, rework_exhausted
  <2>5. QED
    BY <1>c, <2>1, <2>4
<1>39. CASE UNCHANGED allVars
  <2>1. Missed' = Missed /\ crashes' = crashes
    BY <1>39 DEF allVars, subVars, Missed, Deviating
  <2>2. QED
    BY <1>c, <2>1
<1>q. QED
  BY <1>1, <1>2, <1>3, <1>4, <1>5, <1>6, <1>7, <1>8, <1>9, <1>10, <1>11, <1>12, <1>13,
       <1>14, <1>15, <1>16, <1>17, <1>18, <1>19, <1>20, <1>21, <1>22, <1>23, <1>24,
       <1>25, <1>26, <1>27, <1>28, <1>29, <1>30, <1>31, <1>32, <1>33, <1>34, <1>35,
       <1>36, <1>37, <1>38, <1>39, Cases

\* The unit a split works on is the first one whose row carries no commit.
LEMMA UnitIsNext ==
  ASSUME CloseInvariant, task.accepted, phase \in UnitPhases \cup {"stuck"}
  PROVE  IsNext(unit) /\ \A u \in Orders : IsNext(u) => u = unit
<1>1. /\ unit \in plan.units /\ unit \in Orders /\ unit \notin CommittedRows
      /\ \A v \in plan.units : v < unit => v \in CommittedRows
  <2>1. (phase \in UnitPhases \cup {"stuck"} \/ phase = "count") /\ phase # "count"
    BY DEF UnitPhases
  <2>2. QED
    BY <2>1, UnitNext
<1>2. ~Pre /\ RowsInv
  BY DEF CloseInvariant, PhaseInv, PrePhases, UnitPhases
<1>3. Settled /\ phase # "down"
  BY <1>2 DEF Settled, UnitPhases
<1>4. plan.units \subseteq Planned /\ \A o \in plan.units : 1..o \subseteq plan.units
  BY <1>2, <1>3 DEF RowsInv
<1>5. \A v \in Pending : unit <= v
  <2>1. ASSUME NEW v \in Pending, v < unit PROVE FALSE
    <3>1. v \in 1..unit /\ v \notin CommittedRows
      BY <1>1, <2>1 DEF Pending, Planned, Orders
    <3>2. QED
      BY <1>1, <1>4, <2>1, <3>1
  <2>2. QED
    BY <1>1, <2>1 DEF Pending, Planned, Orders
<1>6. IsNext(unit)
  BY <1>1, <1>4, <1>5 DEF IsNext, Pending
<1>7. ASSUME NEW u \in Orders, IsNext(u) PROVE u = unit
  BY <1>1, <1>6, <1>7 DEF IsNext, Orders
<1>8. QED
  BY <1>6, <1>7

\* The branch of a run still in planning is the base.
LEMMA BranchPre ==
  ASSUME CloseInvariant, [CloseNext]_allVars, Pre' PROVE BranchInv'
<1>1. EarlyInv' /\ PhaseInv'
  BY EarlyStep, PhaseStep
<1>2. /\ tree' = {} /\ commits' = <<{}>> /\ \A o \in Orders : op'[o] = 0
      /\ CommittedRows' = {}
  BY <1>1 DEF EarlyInv
<1>3. phase' \in PrePhases \cup {"down"}
  BY <1>1 DEF PhaseInv
<1>4. Len(commits') = 1 /\ DOMAIN commits' = {1} /\ commits'[1] = {} /\ Tip' = 1
  BY <1>2 DEF Tip
<1>5. BranchShape'
  BY <1>2, <1>4 DEF BranchShape, Tip
<1>6. RecordedWork' /\ HiddenWork' /\ TreeWork'
  BY <1>2 DEF RecordedWork, HiddenWork, Hidden, TreeWork
<1>7. TipWork'
  BY <1>4 DEF TipWork, Tracked
<1>8. ShaKnown'
  BY <1>2, <1>3 DEF ShaKnown, PrePhases
<1>9. QED
  BY <1>5, <1>6, <1>7, <1>8 DEF BranchInv

\* A step that leaves the branch, the operations and the rows alone.
LEMMA BranchFrame ==
  ASSUME CloseInvariant, UNCHANGED <<commits, op, rows, task.accepted>>, tree' \in {tree, {}},
         crashes' \in Nat, crashes' >= crashes,
         crashes' > crashes \/ phase \notin {"index", "row", "raised"}
           \/ (phase' \in {"index", "row", "raised"} /\ unit' = unit),
         phase' # "op",
         phase' \in {"index", "row"} =>
           phase = "index" /\ sha' = sha /\ unit' = unit /\ tree' = tree
  PROVE  BranchInv'
<1>i. BranchShape /\ RecordedWork /\ HiddenWork /\ TreeWork /\ TipWork /\ ShaKnown
  BY DEF CloseInvariant, BranchInv
<1>t. /\ crashes \in Nat /\ op \in [Orders -> Nat] /\ commits \in Seq(SUBSET Work)
      /\ tree \in SUBSET Work
  BY Typed
<1>w. \A s \in DOMAIN commits : \A w \in commits[s] : w.run \in Nat
  BY <1>t, SubtasksAssumption DEF Work
<1>w2. \A w \in tree : w.run \in Nat
  BY <1>t, SubtasksAssumption DEF Work
<1>1. /\ Planned' = Planned /\ CommittedRows' = CommittedRows /\ Tip' = Tip
      /\ \A u : IsNext(u)' <=> IsNext(u)
  BY DEF Planned, CommittedRows, Tip, IsNext, Pending
<1>2. /\ \A w : Awaited(w)' <=> Awaited(w)
      /\ \A w, s : Late(w, s)' <=> Late(w, s)
      /\ \A s : Tracked(s)' <=> Tracked(s)
  BY <1>1 DEF Awaited, Late, Tracked, IsNext, Pending
<1>3. BranchShape'
  BY <1>i, <1>t, <1>1, <1>w, <1>w2 DEF BranchShape
<1>4. RecordedWork'
  BY <1>i, <1>2 DEF RecordedWork
<1>5. HiddenWork'
  <2>1. ASSUME NEW v \in Orders, Hidden(v)', NEW x \in commits[op[v]] PROVE x.run < crashes'
    <3>1. op[v] # 0 /\ rows[v].sha = 0
      BY <2>1 DEF Hidden
    <3>2. op[v] \in DOMAIN commits
      BY <1>i, <1>t, <3>1 DEF BranchShape, Tip
    <3>3. x.run <= crashes /\ x.run \in Nat
      BY <1>i, <1>w, <3>2 DEF BranchShape
    <3>4. CASE crashes' > crashes
      BY <1>t, <3>3, <3>4
    <3>5. CASE Hidden(v)
      BY <1>i, <1>t, <3>3, <3>5 DEF HiddenWork
    <3>6. QED
      BY <2>1, <3>1, <3>4, <3>5 DEF Hidden
  <2>2. QED
    BY <2>1 DEF HiddenWork
<1>6. TreeWork'
  BY <1>i, <1>1, <1>2 DEF TreeWork
<1>7. TipWork'
  BY <1>i, <1>1, <1>2 DEF TipWork
<1>8. ShaKnown'
  BY <1>i, <1>1, <1>2 DEF ShaKnown
<1>9. QED
  BY <1>3, <1>4, <1>5, <1>6, <1>7, <1>8 DEF BranchInv

\* The agent of a unit adds to its own work.
LEMMA BranchImplement ==
  ASSUME CloseInvariant, NEW c \in BOOLEAN, Implement(c) PROVE BranchInv'
<1> USE DEF To, splitVars, taskFile, gitVars, memVars, closeVars, turnVars, summaryVars
<1>i. BranchShape /\ RecordedWork /\ HiddenWork /\ TreeWork /\ TipWork /\ ShaKnown
  BY DEF CloseInvariant, BranchInv
<1>t. /\ crashes \in Nat /\ op \in [Orders -> Nat] /\ Tip \in Nat /\ task.accepted \in BOOLEAN
  BY Typed DEF Tip
<1>p. /\ phase = "implement" /\ phase' = "review"
      /\ UNCHANGED <<commits, op, rows, task, crashes, unit, sha>>
      /\ tree' \subseteq tree \cup {[unit |-> unit, run |-> crashes]}
  BY DEF Implement
<1>1. /\ Planned' = Planned /\ CommittedRows' = CommittedRows /\ Tip' = Tip
  BY <1>p DEF Planned, CommittedRows, Tip
<1>2. /\ \A w : Awaited(w)' <=> Awaited(w)
      /\ \A w, s : Late(w, s)' <=> Late(w, s)
      /\ \A s : Tracked(s)' <=> Tracked(s)
      /\ \A u : IsNext(u)' <=> IsNext(u)
  BY <1>p, <1>1 DEF Awaited, Late, Tracked, IsNext, Pending
<1> DEFINE n == [unit |-> unit, run |-> crashes]
<1>3. n.unit = unit /\ n.run = crashes
  OBVIOUS
<1>4. task.accepted => unit \in Orders /\ IsNext(unit) /\ unit \notin CommittedRows
  BY <1>p, UnitNext, UnitIsNext DEF UnitPhases
<1>5. task.accepted => Awaited(n) \/ Late(n, Tip + 1)
  <2>1. SUFFICES ASSUME task.accepted, op[unit] # 0 PROVE Late(n, Tip + 1)
    BY <1>3, <1>4 DEF Awaited
  <2>2. Hidden(unit)
    BY <1>p, <1>4, <2>1 DEF Hidden, CommittedRows
  <2>3. \A x \in commits[op[unit]] : x.run < crashes
    BY <1>i, <1>4, <2>1, <2>2 DEF HiddenWork
  <2>4. op[unit] \in 1..Tip
    BY <1>i, <1>t, <1>4, <2>1 DEF BranchShape
  <2>5. QED
    BY <1>3, <1>t, <2>3, <2>4 DEF Late
<1> HIDE DEF n
<1>6. TreeWork'
  <2>1. ASSUME task'.accepted, NEW w \in tree' PROVE Awaited(w)' \/ Late(w, Tip + 1)'
    <3>1. w \in tree \/ w = n
      BY <1>p DEF n
    <3>2. Awaited(w) \/ Late(w, Tip + 1)
      BY <1>i, <1>p, <1>5, <2>1, <3>1 DEF TreeWork
    <3>3. Tip' + 1 = Tip + 1
      BY <1>1
    <3>4. QED
      BY <1>2, <3>2, <3>3
  <2>2. QED
    BY <2>1 DEF TreeWork
<1>7. BranchShape'
  <2>1. \A w \in tree' : w \in tree \/ w = n
    BY <1>p DEF n
  <2>2. \A w \in tree' : w.run <= crashes /\ (task.accepted => w.unit \in Orders)
    BY <1>i, <1>t, <1>3, <1>4, <2>1 DEF BranchShape
  <2>3. QED
    BY <1>i, <1>p, <1>1, <2>2 DEF BranchShape
<1>8. RecordedWork' /\ HiddenWork' /\ TipWork' /\ ShaKnown'
  <2>1. RecordedWork'
    BY <1>i, <1>p, <1>2 DEF RecordedWork
  <2>2. HiddenWork'
    BY <1>i, <1>p DEF HiddenWork, Hidden
  <2>3. TipWork'
    BY <1>i, <1>p, <1>1, <1>2 DEF TipWork
  <2>4. ShaKnown'
    BY <1>i, <1>p, <1>1, <1>2 DEF ShaKnown
  <2>5. QED
    BY <2>1, <2>2, <2>3, <2>4
<1>9. QED
  BY <1>6, <1>7, <1>8 DEF BranchInv

\* A recorded operation is used again.
LEMMA BranchAgain ==
  ASSUME CloseInvariant, CommitStep(CommitAgain) PROVE BranchInv'
<1> USE DEF To, splitVars, taskFile, gitVars, memVars, closeVars, turnVars, summaryVars
<1>i. BranchShape /\ RecordedWork /\ HiddenWork /\ TreeWork /\ TipWork /\ ShaKnown
  BY DEF CloseInvariant, BranchInv
<1>p. /\ phase = "commit" /\ phase' = "index" /\ op[unit] # 0 /\ sha' = op[unit]
      /\ UNCHANGED <<commits, op, rows, task, crashes, unit, tree>>
  BY DEF CommitStep, CommitAgain
<1>u. task.accepted /\ unit \in Orders /\ \A u \in Orders : IsNext(u) => u = unit
  BY <1>p, UnitNext, UnitIsNext DEF UnitPhases, CloseInvariant, MemInv
<1>1. /\ Planned' = Planned /\ CommittedRows' = CommittedRows /\ Tip' = Tip
  BY <1>p DEF Planned, CommittedRows, Tip
<1>2. /\ \A w : Awaited(w)' <=> Awaited(w)
      /\ \A w, s : Late(w, s)' <=> Late(w, s)
      /\ \A s : Tracked(s)' <=> Tracked(s)
      /\ \A u : IsNext(u)' <=> IsNext(u)
  BY <1>p, <1>1 DEF Awaited, Late, Tracked, IsNext, Pending
<1>3. Tracked(Tip)
  BY <1>i, <1>p, <1>u DEF TipWork
<1>4. op[unit] \in 1..Tip /\ Tracked(op[unit])
  BY <1>i, <1>p, <1>u DEF BranchShape, Tracked
<1>5. ShaKnown'
  BY <1>i, <1>p, <1>1, <1>2, <1>3, <1>4 DEF ShaKnown
<1>6. HiddenWork'
  BY <1>i, <1>p DEF HiddenWork, Hidden
<1>7. BranchShape' /\ RecordedWork' /\ TreeWork' /\ TipWork'
  <2>1. BranchShape'
    BY <1>i, <1>p, <1>1 DEF BranchShape
  <2>2. RecordedWork'
    BY <1>i, <1>p, <1>2 DEF RecordedWork
  <2>3. TreeWork'
    BY <1>i, <1>p, <1>1, <1>2 DEF TreeWork
  <2>4. TipWork'
    BY <1>i, <1>p, <1>1, <1>2 DEF TipWork
  <2>5. QED
    BY <2>1, <2>2, <2>3, <2>4
<1>8. QED
  BY <1>5, <1>6, <1>7 DEF BranchInv

\* The commit at the tip becomes the unit's own: adopted, or recorded once it is made.
LEMMA BranchAdopt ==
  ASSUME CloseInvariant, task.accepted, phase \in {"commit", "op"}, phase' = "index",
         op[unit] = 0, tree = {},
         \A o \in Orders : op[o] # Tip, \A w \in commits[Tip] : Awaited(w) \/ Late(w, Tip),
         op' = [op EXCEPT ![unit] = Tip], sha' = Tip,
         UNCHANGED <<commits, rows, task, crashes, unit, tree>>
  PROVE  BranchInv'
<1>i. BranchShape /\ RecordedWork /\ HiddenWork /\ TreeWork /\ TipWork /\ ShaKnown
  BY DEF CloseInvariant, BranchInv
<1>t. op \in [Orders -> Nat] /\ Tip \in Nat /\ commits \in Seq(SUBSET Work)
  BY Typed DEF Tip
<1>u. unit \in Orders /\ \A u \in Orders : IsNext(u) => u = unit
  BY UnitNext, UnitIsNext DEF UnitPhases
<1>1. /\ Planned' = Planned /\ CommittedRows' = CommittedRows /\ Tip' = Tip /\ Tip >= 1
  BY <1>i DEF Planned, CommittedRows, Tip, BranchShape
<1>2. /\ op'[unit] = Tip /\ \A o \in Orders : o # unit => op'[o] = op[o]
      /\ \A o \in Orders : op[o] # 0 => op'[o] = op[o]
  BY <1>t, <1>u
<1>d. \A s \in DOMAIN commits : \A w \in commits[s] : w.unit \in Orders
  BY <1>i DEF BranchShape
<1>e. Tip \in DOMAIN commits
  BY <1>t, <1>1 DEF Tip
<1>3. \A w : w.unit \in Orders => \A s \in 1..Tip : Late(w, s) => Late(w, s)'
  BY <1>t, <1>2 DEF Late
<1>5. Tracked(Tip)'
  BY <1>u, <1>1, <1>2 DEF Tracked
<1>6. BranchShape'
  <2>1. \A v \in Orders : op'[v] \in 0..Tip
    BY <1>i, <1>t, <1>2 DEF BranchShape
  <2>2. QED
    BY <1>i, <1>1, <2>1 DEF BranchShape
<1>7. RecordedWork'
  <2>1. ASSUME NEW v \in Orders, op'[v] # 0, NEW w \in commits[op'[v]]
        PROVE  \/ op'[w.unit] = op'[v]
               \/ op'[w.unit] \in 1..(op'[v] - 1) /\ \A x \in commits'[op'[w.unit]] : x.run < w.run
    <3>1. CASE v = unit
      <4>1. op'[v] = Tip /\ w \in commits[Tip] /\ w.unit \in Orders
        BY <1>2, <1>d, <1>e, <2>1, <3>1
      <4>2. CASE Awaited(w)
        BY <1>u, <1>2, <4>1, <4>2 DEF Awaited
      <4>3. CASE Late(w, Tip)
        <5>1. op[w.unit] \in 1..(Tip - 1) /\ \A x \in commits[op[w.unit]] : x.run < w.run
          BY <4>3 DEF Late
        <5>2. op'[w.unit] = op[w.unit]
          BY <1>t, <1>2, <4>1, <5>1
        <5>3. QED
          BY <4>1, <5>1, <5>2
      <4>4. QED
        BY <4>1, <4>2, <4>3
    <3>2. CASE v # unit
      <4>1. op'[v] = op[v] /\ op[v] # 0
        BY <1>2, <2>1, <3>2
      <4>2. op[v] \in 1..Tip /\ op[v] \in DOMAIN commits
        BY <1>i, <1>t, <4>1 DEF BranchShape, Tip
      <4>3. w.unit \in Orders
        BY <1>d, <2>1, <4>1, <4>2
      <4>4. CASE op[w.unit] = op[v]
        BY <1>2, <4>1, <4>3, <4>4
      <4>5. CASE Late(w, op[v])
        <5>1. op[w.unit] \in 1..(op[v] - 1) /\ \A x \in commits[op[w.unit]] : x.run < w.run
          BY <4>5 DEF Late
        <5>2. op'[w.unit] = op[w.unit]
          BY <1>2, <4>2, <4>3, <5>1
        <5>3. QED
          BY <4>1, <5>1, <5>2
      <4>6. QED
        BY <1>i, <2>1, <4>1, <4>4, <4>5 DEF RecordedWork
    <3>3. QED
      BY <3>1, <3>2
  <2>2. QED
    BY <2>1 DEF RecordedWork, Late
<1>8. HiddenWork'
  BY <1>i, <1>2 DEF HiddenWork, Hidden
<1>9. TreeWork' /\ TipWork'
  BY <1>5, <1>1 DEF TreeWork, TipWork
<1>10. ShaKnown'
  <2>1. Tracked(sha)' /\ sha' \in 1..Tip'
    BY <1>t, <1>1, <1>5
  <2>2. \A u \in CommittedRows' : Tracked(rows[u].sha)' /\ rows'[u].sha \in 1..Tip'
    <3>1. ASSUME NEW u \in CommittedRows PROVE Tracked(rows[u].sha)' /\ rows[u].sha \in 1..Tip
      <4>1. Tracked(rows[u].sha) /\ rows[u].sha \in 1..Tip
        BY <1>i DEF ShaKnown
      <4>2. rows' = rows
        OBVIOUS
      <4>3. QED
        BY <1>t, <1>1, <1>2, <4>1, <4>2 DEF Tracked
    <3>2. QED
      BY <1>1, <3>1
  <2>3. QED
    BY <1>1, <1>5, <2>1, <2>2 DEF ShaKnown
<1>11. QED
  BY <1>6, <1>7, <1>8, <1>9, <1>10 DEF BranchInv

\* Nothing to commit: a new head is adopted, a known one reused.
LEMMA BranchNothing ==
  ASSUME CloseInvariant, CommitStep(CommitNothing) PROVE BranchInv'
<1> USE DEF To, splitVars, taskFile, gitVars, memVars, closeVars, turnVars, summaryVars
<1>i. BranchShape /\ RecordedWork /\ HiddenWork /\ TreeWork /\ TipWork /\ ShaKnown
  BY DEF CloseInvariant, BranchInv
<1>p. /\ phase = "commit" /\ phase' = "index" /\ op[unit] = 0 /\ tree = {} /\ sha' = Tip
      /\ UNCHANGED <<commits, rows, task, crashes, unit, tree>>
      /\ op' = IF Tracked(Tip) THEN op ELSE [op EXCEPT ![unit] = Tip]
  BY DEF CommitStep, CommitNothing
<1>u. task.accepted /\ Tip \in Nat /\ Tip >= 1
  BY <1>i, <1>p, Typed DEF CloseInvariant, MemInv, Tip, BranchShape
<1>1. CASE ~Tracked(Tip)
  <2>1. /\ \A o \in Orders : op[o] # Tip
        /\ \A w \in commits[Tip] : Awaited(w) \/ Late(w, Tip)
    BY <1>i, <1>1 DEF Tracked, TipWork
  <2>2. QED
    BY <1>p, <1>u, <1>1, <2>1, BranchAdopt
<1>2. CASE Tracked(Tip)
  <2>1. /\ Planned' = Planned /\ CommittedRows' = CommittedRows /\ Tip' = Tip /\ op' = op
    BY <1>p, <1>2 DEF Planned, CommittedRows, Tip
  <2>2. /\ \A w, s : Late(w, s)' <=> Late(w, s)
        /\ \A s : Tracked(s)' <=> Tracked(s)
    BY <1>p, <2>1 DEF Late, Tracked
  <2>3. BranchShape'
    BY <1>i, <1>p, <2>1 DEF BranchShape
  <2>4. RecordedWork'
    BY <1>i, <1>p, <2>1, <2>2 DEF RecordedWork
  <2>5. HiddenWork'
    BY <1>i, <1>p, <2>1 DEF HiddenWork, Hidden
  <2>6. TreeWork' /\ TipWork'
    BY <1>p, <1>2, <2>1, <2>2 DEF TreeWork, TipWork
  <2>7. ShaKnown'
    BY <1>i, <1>p, <1>u, <1>2, <2>1, <2>2 DEF ShaKnown
  <2>8. QED
    BY <2>3, <2>4, <2>5, <2>6, <2>7 DEF BranchInv
<1>3. QED
  BY <1>1, <1>2

\* The operation of a new commit is recorded.
LEMMA BranchRecord ==
  ASSUME CloseInvariant, CommitStep(RecordOp) PROVE BranchInv'
<1> USE DEF To, splitVars, taskFile, gitVars, memVars, closeVars, turnVars, summaryVars
<1>i. BranchShape /\ RecordedWork /\ HiddenWork /\ TreeWork /\ TipWork /\ ShaKnown
  BY DEF CloseInvariant, BranchInv
<1>p. /\ phase = "op" /\ phase' = "index" /\ sha' = Tip
      /\ UNCHANGED <<commits, rows, task, crashes, unit, tree>>
      /\ op' = [op EXCEPT ![unit] = Tip]
  BY DEF CommitStep, RecordOp
<1>u. task.accepted
  BY <1>p DEF CloseInvariant, MemInv
<1>1. op[unit] = 0 /\ tree = {} /\ \A o \in Orders : op[o] # Tip
  BY <1>i, <1>p DEF ShaKnown
<1>2. \A w \in commits[Tip] : Awaited(w) \/ Late(w, Tip)
  BY <1>i, <1>1 DEF Tracked, TipWork, BranchShape
<1>3. QED
  BY <1>p, <1>u, <1>1, <1>2, BranchAdopt

\* The tree is committed.
LEMMA BranchTree ==
  ASSUME CloseInvariant, CommitStep(CommitTree) PROVE BranchInv'
<1> USE DEF To, splitVars, taskFile, gitVars, memVars, closeVars, turnVars, summaryVars
<1>i. BranchShape /\ RecordedWork /\ HiddenWork /\ TreeWork /\ TipWork /\ ShaKnown
  BY DEF CloseInvariant, BranchInv
<1>p. /\ phase = "commit" /\ phase' = "op" /\ op[unit] = 0
      /\ UNCHANGED <<op, rows, task, crashes, unit>>
      /\ commits' = Append(commits, tree) /\ tree' = {}
  BY DEF CommitStep, CommitTree
<1>u. task.accepted /\ unit \in Orders /\ IsNext(unit)
  BY <1>p, UnitNext, UnitIsNext DEF UnitPhases, CloseInvariant, MemInv
<1>t. op \in [Orders -> Nat] /\ commits \in Seq(SUBSET Work) /\ tree \in SUBSET Work
      /\ Tip \in Nat /\ Tip >= 1
  BY <1>i, Typed DEF Tip, BranchShape
<1>1. /\ Planned' = Planned /\ CommittedRows' = CommittedRows /\ Tip' = Tip + 1
      /\ DOMAIN commits' = 1..(Tip + 1) /\ commits'[Tip + 1] = tree
      /\ \A s \in 1..Tip : commits'[s] = commits[s]
  BY <1>p, <1>t DEF Planned, CommittedRows, Tip
<1>2. \A v \in Orders : op[v] \in 0..Tip
  BY <1>i DEF BranchShape
<1>3. /\ \A s : Tracked(s)' <=> Tracked(s)
      /\ \A u : IsNext(u)' <=> IsNext(u)
      /\ \A w : Awaited(w)' <=> Awaited(w)
  BY <1>p, <1>1 DEF Awaited, Tracked, IsNext, Pending
<1>4. ASSUME NEW w, NEW s \in 1..(Tip + 1), Late(w, s) PROVE Late(w, s)'
  <2>1. op[w.unit] \in 1..(s - 1) /\ \A x \in commits[op[w.unit]] : x.run < w.run
    BY <1>4 DEF Late
  <2>2. op[w.unit] \in 1..Tip
    BY <1>t, <2>1
  <2>3. commits'[op[w.unit]] = commits[op[w.unit]] /\ op' = op
    BY <1>p, <1>1, <2>2
  <2>4. QED
    BY <2>1, <2>3 DEF Late
<1>d. DOMAIN commits = 1..Tip
  BY <1>t DEF Tip
<1>5. BranchShape'
  <2>1. \A s \in 1..Tip : \A w \in commits[s] : w.unit \in Orders /\ w.run <= crashes
    BY <1>i, <1>d DEF BranchShape
  <2>2. \A w \in tree : w.unit \in Orders /\ w.run <= crashes
    BY <1>i, <1>u DEF BranchShape
  <2>3. \A s \in DOMAIN commits' : \A w \in commits'[s] : w.unit \in Orders /\ w.run <= crashes'
    <3>1. ASSUME NEW s \in 1..(Tip + 1) PROVE s \in 1..Tip \/ s = Tip + 1
      BY <1>t
    <3>2. QED
      BY <1>p, <1>1, <2>1, <2>2, <3>1
  <2>4. Len(commits') >= 1 /\ commits'[1] = {} /\ \A v \in Orders : op'[v] \in 0..Tip'
    BY <1>i, <1>p, <1>t, <1>1, <1>2 DEF BranchShape, Tip
  <2>5. QED
    BY <1>p, <2>3, <2>4 DEF BranchShape
<1>6. RecordedWork'
  <2>1. ASSUME NEW v \in Orders, op[v] # 0, NEW w \in commits'[op[v]]
        PROVE  op[w.unit] = op[v] \/ Late(w, op[v])'
    <3>1. op[v] \in 1..Tip /\ op[v] \in 1..(Tip + 1)
      BY <1>t, <1>2, <2>1
    <3>2. w \in commits[op[v]]
      BY <1>1, <2>1, <3>1
    <3>3. op[w.unit] = op[v] \/ Late(w, op[v])
      BY <1>i, <2>1, <3>2 DEF RecordedWork
    <3>4. op' = op
      BY <1>p
    <3>5. Late(w, op[v]) => op[w.unit] \in 1..(op[v] - 1) /\ \A x \in commits[op[w.unit]] : x.run < w.run
      BY DEF Late
    <3>6. op[w.unit] \in 1..(op[v] - 1) => commits'[op[w.unit]] = commits[op[w.unit]]
      BY <1>t, <1>1, <3>1
    <3>7. QED
      BY <3>3, <3>4, <3>5, <3>6 DEF Late
  <2>2. QED
    BY <1>p, <2>1 DEF RecordedWork
<1>7. HiddenWork'
  <2>1. ASSUME NEW v \in Orders, Hidden(v)' PROVE \A x \in commits'[op'[v]] : x.run < crashes'
    <3>1. op[v] # 0 /\ op' = op /\ Hidden(v)
      BY <1>p, <2>1 DEF Hidden
    <3>2. op[v] \in 1..Tip
      BY <1>t, <1>2, <3>1
    <3>3. QED
      BY <1>i, <1>p, <1>1, <3>1, <3>2 DEF HiddenWork
  <2>2. QED
    BY <2>1 DEF HiddenWork
<1>8. TreeWork'
  BY <1>p DEF TreeWork
<1>9. TipWork'
  <2>1. IsNext(unit)' /\ op'[unit] = 0
    BY <1>p, <1>u, <1>3
  <2>2. ASSUME NEW w \in tree PROVE Awaited(w)' \/ Late(w, Tip)'
    <3>1. Awaited(w) \/ Late(w, Tip + 1)
      BY <1>i, <1>u DEF TreeWork
    <3>2. Late(w, Tip + 1) => Late(w, Tip)'
      <4>1. SUFFICES ASSUME Late(w, Tip + 1) PROVE Late(w, Tip)'
        OBVIOUS
      <4>2. op[w.unit] \in 1..Tip /\ \A x \in commits[op[w.unit]] : x.run < w.run
        BY <1>t, <4>1 DEF Late
      <4>3. commits'[op[w.unit]] = commits[op[w.unit]] /\ op' = op /\ Tip' - 1 = Tip
        BY <1>p, <1>t, <1>1, <4>2
      <4>4. QED
        BY <4>2, <4>3 DEF Late
    <3>3. QED
      BY <1>3, <3>1, <3>2
  <2>3. commits'[Tip'] = tree
    BY <1>1
  <2>4. QED
    BY <1>p, <1>u, <2>1, <2>2, <2>3 DEF TipWork
<1>10. ShaKnown'
  <2>1. \A o \in Orders : op'[o] # Tip'
    BY <1>p, <1>t, <1>1, <1>2
  <2>2. ASSUME NEW u \in CommittedRows PROVE Tracked(rows[u].sha)' /\ rows[u].sha \in 1..Tip'
    <3>1. Tracked(rows[u].sha) /\ rows[u].sha \in 1..Tip
      BY <1>i DEF ShaKnown
    <3>2. QED
      BY <1>t, <1>p, <1>1, <3>1 DEF Tracked
  <2>3. QED
    BY <1>p, <1>1, <2>1, <2>2 DEF ShaKnown
<1>11. QED
  BY <1>5, <1>6, <1>7, <1>8, <1>9, <1>10 DEF BranchInv

\* The row of a unit gets its sha.
LEMMA BranchRow ==
  ASSUME CloseInvariant, set_subtask_commit /\ UNCHANGED closeVars PROVE BranchInv'
<1> USE DEF To, splitVars, taskFile, gitVars, memVars, closeVars, turnVars, summaryVars
<1>i. BranchShape /\ RecordedWork /\ HiddenWork /\ TreeWork /\ TipWork /\ ShaKnown
  BY DEF CloseInvariant, BranchInv
<1>p. /\ phase = "row" /\ phase' = "count" /\ rows' = [rows EXCEPT ![unit].sha = sha]
      /\ UNCHANGED <<op, commits, tree, task, crashes, unit, sha>>
  BY DEF set_subtask_commit
<1>u. task.accepted /\ unit \in Orders /\ \A u \in Orders : IsNext(u) => u = unit
  BY <1>p, UnitNext, UnitIsNext DEF UnitPhases, CloseInvariant, MemInv
<1>t. op \in [Orders -> Nat] /\ rows \in Table /\ Tip \in Nat
  BY Typed DEF Tip
<1>s. (tree = {} \/ op[unit] # 0) /\ Tracked(Tip) /\ Tracked(sha) /\ sha \in 1..Tip
  BY <1>i, <1>p DEF ShaKnown
<1>1. rows'[unit].sha = sha /\ \A o \in Orders \ {unit} : rows'[o] = rows[o]
  BY <1>p, <1>u, <1>t DEF Table
<1>2. /\ \A w, s : Late(w, s)' <=> Late(w, s)
      /\ \A s : Tracked(s)' <=> Tracked(s) 
      /\ Tip' = Tip
  BY <1>p DEF Late, Tracked, Tip
<1>3. BranchShape'
  BY <1>i, <1>p, <1>2 DEF BranchShape
<1>4. RecordedWork'
  BY <1>i, <1>p, <1>2 DEF RecordedWork
<1>5. HiddenWork'
  <2>1. ASSUME NEW v \in Orders, Hidden(v)' PROVE v # unit /\ Hidden(v)
    <3>1. sha # 0
      BY <1>s, <1>t
    <3>2. QED
      BY <1>p, <1>1, <2>1, <3>1 DEF Hidden
  <2>2. QED
    BY <1>i, <1>p, <2>1 DEF HiddenWork
<1>6. TreeWork'
  <2>1. ASSUME NEW w \in tree PROVE Late(w, Tip + 1)
    <3>1. w.unit \in Orders /\ (Awaited(w) \/ Late(w, Tip + 1))
      BY <1>i, <1>u DEF TreeWork, BranchShape
    <3>2. QED
      BY <1>s, <1>u, <2>1, <3>1 DEF Awaited
  <2>2. QED
    BY <1>p, <1>2, <2>1 DEF TreeWork
<1>7. TipWork'
  BY <1>s, <1>2 DEF TipWork
<1>8. ShaKnown'
  <2>1. ASSUME NEW u \in CommittedRows' PROVE Tracked(rows'[u].sha) /\ rows'[u].sha \in 1..Tip
    <3>1. CASE u = unit
      BY <1>s, <1>1, <3>1
    <3>2. CASE u # unit
      BY <1>i, <1>1, <2>1, <3>2 DEF ShaKnown, CommittedRows
    <3>3. QED
      BY <3>1, <3>2
  <2>2. ASSUME NEW u \in CommittedRows' PROVE Tracked(rows[u].sha)' /\ rows'[u].sha \in 1..Tip'
    BY <1>p, <1>2, <2>1, <2>2 DEF Tracked
  <2>3. QED
    BY <1>p, <2>2 DEF ShaKnown
<1>9. QED
  BY <1>3, <1>4, <1>5, <1>6, <1>7, <1>8 DEF BranchInv

\* No step puts work of one unit into the commit of another.
LEMMA BranchStep == ASSUME CloseInvariant, [CloseNext]_allVars PROVE BranchInv'
<1> USE DEF To, splitVars, taskFile, gitVars, memVars, closeVars, turnVars, summaryVars
<1>1. CASE Pre'
  BY <1>1, BranchPre
<1>2. CASE ~Pre'
<2>t. crashes \in Nat
  BY Typed
<2>f. ASSUME UNCHANGED <<commits, op, rows, task.accepted>>, tree' \in {tree, {}},
         crashes' \in Nat, crashes' >= crashes,
         crashes' > crashes \/ phase \notin {"index", "row", "raised"}
           \/ (phase' \in {"index", "row", "raised"} /\ unit' = unit),
         phase' # "op",
         phase' \in {"index", "row"} =>
           phase = "index" /\ sha' = sha /\ unit' = unit /\ tree' = tree
      PROVE BranchInv'
  BY <2>f, BranchFrame
<2>1. CASE Begin /\ UNCHANGED closeVars
    BY <2>1, <1>2 DEF Begin, save_checkpoint, Pre, CloseInvariant, PhaseInv, PrePhases
<2>2. CASE \E p \in DOMAIN Plans : Planning(p) /\ UNCHANGED closeVars
    BY <2>2, <1>2 DEF Planning, Pre, CloseInvariant, PhaseInv, PrePhases
<2>3. CASE PersistTask /\ UNCHANGED closeVars
    BY <2>3, <1>2 DEF PersistTask, Pre, CloseInvariant, PhaseInv, PrePhases
<2>4. CASE write_subtask_artifacts /\ UNCHANGED closeVars
    BY <2>4, <1>2 DEF write_subtask_artifacts, Pre, CloseInvariant, PhaseInv, PrePhases
<2>5. CASE insert_subtasks /\ UNCHANGED closeVars
    BY <2>5, <1>2 DEF insert_subtasks, Pre, CloseInvariant, PhaseInv, PrePhases
<2>6. CASE LeavePre /\ UNCHANGED closeVars
  BY <2>6, <2>t, <2>f DEF LeavePre, save_checkpoint
<2>7. CASE FanOut /\ UNCHANGED closeVars
  BY <2>7, <2>t, <2>f DEF FanOut
<2>8. CASE NextUnit /\ UNCHANGED closeVars
  BY <2>8, <2>t, <2>f DEF NextUnit
<2>9. CASE EnterUnit /\ UNCHANGED closeVars
  BY <2>9, <2>t, <2>f DEF EnterUnit, save_checkpoint
<2>10. CASE \E c \in BOOLEAN : Implement(c) /\ UNCHANGED closeVars
    BY <2>10, BranchImplement
<2>11. CASE \E fs \in Reports[unit] : Review(fs) /\ UNCHANGED closeVars
  BY <2>11, <2>t, <2>f DEF Review
<2>12. CASE Rework /\ UNCHANGED closeVars
  BY <2>12, <2>t, <2>f DEF Rework, save_checkpoint
<2>13. CASE Stuck /\ UNCHANGED closeVars
  BY <2>13, <2>t, <2>f DEF Stuck
<2>14. CASE Accept /\ UNCHANGED closeVars
  BY <2>14, <2>t, <2>f DEF Accept, save_checkpoint
<2>15. CASE CommitStep(CommitAgain)
    BY <2>15, BranchAgain
<2>16. CASE CommitStep(CommitNothing)
    BY <2>16, BranchNothing
<2>17. CASE CommitStep(CommitTree)
    BY <2>17, BranchTree
<2>18. CASE CommitStep(RecordOp)
    BY <2>18, BranchRecord
<2>19. CASE update_subtask_index /\ UNCHANGED closeVars
  BY <2>19, <2>t, <2>f DEF update_subtask_index
<2>20. CASE set_subtask_commit /\ UNCHANGED closeVars
    BY <2>20, BranchRow
<2>21. CASE CountUnit /\ UNCHANGED closeVars
    <3>1. task'.accepted = task.accepted
      BY <2>21, Typed DEF CountUnit, CloseInvariant, CloseTypeOK, TableTypes
    <3>2. QED
      BY <2>21, <2>t, <2>f, <3>1 DEF CountUnit
<2>22. CASE AllUnits /\ UNCHANGED closeVars
  BY <2>22, <2>t, <2>f DEF AllUnits, save_checkpoint
<2>23. CASE Resume /\ UNCHANGED closeVars
    <3>1. phase' \notin {"op", "index", "row"}
      BY <2>23, Typed DEF Resume, ResumeAt
    <3>2. QED
      BY <2>23, <2>t, <2>f, <3>1 DEF Resume
<2>24. CASE \E f \in BOOLEAN : _engine_post_node(f)
  BY <2>24, <2>t, <2>f DEF _engine_post_node, observe
<2>25. CASE finalize
  BY <2>25, <2>t, <2>f DEF finalize, _finalize_turn, Stay
<2>26. CASE _write_summary_json
  BY <2>26, <2>t, <2>f DEF _write_summary_json, Stay
<2>27. CASE _engine_finalize
  BY <2>27, <2>t, <2>f DEF _engine_finalize, Stay
<2>28. CASE ReportJson
  BY <2>28, <2>t, <2>f DEF ReportJson, Stay
<2>29. CASE write_summary_report
  BY <2>29, <2>t, <2>f DEF write_summary_report, Stay
<2>30. CASE SummaryStands
  BY <2>30, <2>t, <2>f DEF SummaryStands, Stay
<2>31. CASE _append_follow_ups_file
  BY <2>31, <2>t, <2>f DEF _append_follow_ups_file, AfterFile, Stay
<2>32. CASE PublishDone
  BY <2>32, <2>t, <2>f DEF PublishDone, Stay
<2>33. CASE PublishFailed
  BY <2>33, <2>t, <2>f DEF PublishFailed, Stay
<2>34. CASE _explain_terminal
  BY <2>34, <2>t, <2>f DEF _explain_terminal, Stay
<2>35. CASE Die
  BY <2>35, <2>t, <2>f DEF Die, LoseMemory, ForgetTurn, Working
<2>36. CASE ClearTree
  BY <2>36, <2>t, <2>f DEF ClearTree
<2>37. CASE \E r \in BOOLEAN : RerunContinue(r)
  BY <2>37, <2>t, <2>f DEF RerunContinue, cmd_rerun, plan_rerun,
       _resolve_reset_fix_budget, _apply_continue_controls, LoseMemory, ForgetTurn
<2>38. CASE RerunFresh
    BY <2>38, <1>2 DEF RerunFresh, reset_task_for_rerun, Pre
<2>39. CASE UNCHANGED allVars
    <3>1. BranchInv
      BY DEF CloseInvariant
    <3>2. QED
      BY <2>39, <3>1 DEF allVars, subVars, BranchInv, BranchShape, RecordedWork, HiddenWork, Hidden,
         TreeWork, TipWork, ShaKnown, Awaited, Late, Tracked, Tip, IsNext, Pending, Planned, CommittedRows
<2>q. QED
  BY <2>1, <2>2, <2>3, <2>4, <2>5, <2>6, <2>7, <2>8, <2>9, <2>10, <2>11, <2>12, <2>13,
       <2>14, <2>15, <2>16, <2>17, <2>18, <2>19, <2>20, <2>21, <2>22, <2>23, <2>24,
       <2>25, <2>26, <2>27, <2>28, <2>29, <2>30, <2>31, <2>32, <2>33, <2>34, <2>35,
       <2>36, <2>37, <2>38, <2>39, Cases
<1>3. QED
  BY <1>1, <1>2

\* The rework verdicts a budget is charged for.
Charged(us) == {i \in DOMAIN evals : evals[i].unit \in us /\ InForce(evals, i)}

\* They can be counted.
LEMMA ChargedFinite ==
  ASSUME CloseInvariant, NEW us
  PROVE  IsFiniteSet(Charged(us)) /\ Reworks(us) = Cardinality(Charged(us)) /\ Reworks(us) \in Nat
<1>1. Charged(us) \subseteq DOMAIN evals
  BY DEF Charged
<1>2. Reworks(us) = Cardinality(Charged(us))
  BY DEF Reworks, Charged
<1>3. QED
  BY <1>1, <1>2, FiniteEvals, FS_Subset, FS_CardinalityType

\* More units have no fewer of them.
LEMMA ReworksMono ==
  ASSUME CloseInvariant, NEW us, NEW vs, us \subseteq vs
  PROVE  Reworks(us) <= Reworks(vs)
<1>1. Charged(us) \subseteq Charged(vs)
  BY DEF Charged
<1>2. QED
  BY <1>1, ChargedFinite, FS_Subset

\* They depend on the evaluations only.
LEMMA ReworksSame ==
  ASSUME UNCHANGED evals PROVE \A us : Reworks(us)' = Reworks(us)
  BY DEF Reworks

\* And not on what was seen.
LEMMA ReworksSeen ==
  ASSUME CloseInvariant, Similar(evals, evals'), evals' \in Seq(EvaluationRows),
         \A i \in DOMAIN evals : evals'[i].live = evals[i].live
  PROVE  \A us : Reworks(us)' = Reworks(us)
<1>1. DOMAIN evals' = DOMAIN evals
  BY Typed, FinalSimilar
<1>2. RowsOf(evals', NoUnit) = RowsOf(evals, NoUnit)
  BY <1>1 DEF RowsOf, Similar
<1>3. \A i \in DOMAIN evals : InForce(evals', i) <=> InForce(evals, i)
  BY <1>1, <1>2 DEF InForce, Similar
<1>4. \A us : Charged(us)' = Charged(us)
  BY <1>1, <1>3 DEF Charged, Similar
<1>5. QED
  BY <1>4 DEF Reworks, Charged

\* A review adds one for its unit if it sends it back.
LEMMA ReworksReview ==
  ASSUME CloseInvariant, NEW fs \in Reports[unit], Review(fs), NEW us
  PROVE  /\ Reworks(us) <= Reworks(us)' /\ Reworks(us)' \in Nat
         /\ evals'[Len(evals')].verdict = "rework" /\ unit \in us => Reworks(us) + 1 <= Reworks(us)'
<1>1. PICK r \in EvaluationRows :
        /\ evals' = Append(evals, r) /\ r.unit = unit /\ r.live
        /\ r.verdict \in {"accept", "rework"}
  BY ReviewRow
<1>t. evals \in Seq(EvaluationRows) /\ Len(evals) \in Nat /\ unit # NoUnit
  BY Typed, NoUnitApart
<1>2. /\ DOMAIN evals' = DOMAIN evals \cup {Len(evals) + 1} /\ Len(evals') = Len(evals) + 1
      /\ \A i \in DOMAIN evals : evals'[i] = evals[i]
      /\ evals'[Len(evals) + 1] = r
  BY <1>t, <1>1, FinalAppend
<1> DEFINE n == Len(evals) + 1
<1>3. DOMAIN evals = 1..Len(evals)
  BY <1>t
<1>4. RowsOf(evals', NoUnit) = RowsOf(evals, NoUnit)
  BY <1>1, <1>2, <1>t DEF RowsOf
<1>5. \A i \in DOMAIN evals : InForce(evals', i) <=> InForce(evals, i)
  BY <1>2, <1>4 DEF InForce
<1>6. r.verdict = "rework" => InForce(evals', n)
  BY <1>1, <1>2, <1>3, <1>4, <1>t DEF InForce, RowsOf
<1>7. Charged(us) \subseteq Charged(us)' /\ n \notin Charged(us)
  BY <1>2, <1>3, <1>5, <1>t DEF Charged
<1>8. r.verdict = "rework" /\ unit \in us => n \in Charged(us)'
  BY <1>1, <1>2, <1>6 DEF Charged
<1>9. IsFiniteSet(Charged(us)')
  <2>1. Charged(us)' \subseteq 1..n
    BY <1>2, <1>3, <1>t DEF Charged
  <2>2. IsFiniteSet(1..n)
    BY <1>t, FS_Interval
  <2>3. QED
    BY <2>1, <2>2, FS_Subset
<1>10. Reworks(us)' = Cardinality(Charged(us)')
  BY DEF Reworks, Charged
<1>11. /\ IsFiniteSet(Charged(us) \cup {n})
       /\ Cardinality(Charged(us) \cup {n}) = Cardinality(Charged(us)) + 1
  BY <1>7, ChargedFinite, FS_AddElement
<1>12. Reworks(us) = Cardinality(Charged(us)) /\ Reworks(us) \in Nat
  BY ChargedFinite
<1>13. Cardinality(Charged(us)') \in Nat /\ Cardinality(Charged(us)) <= Cardinality(Charged(us)')
  BY <1>7, <1>9, FS_Subset, FS_CardinalityType
<1>14. ASSUME r.verdict = "rework", unit \in us
       PROVE  Cardinality(Charged(us)) + 1 <= Cardinality(Charged(us)')
  <2>1. Charged(us) \cup {n} \subseteq Charged(us)'
    BY <1>7, <1>8, <1>14
  <2>2. Cardinality(Charged(us) \cup {n}) <= Cardinality(Charged(us)')
    BY <1>9, <2>1, FS_Subset
  <2>3. QED
    BY <1>11, <2>2
<1>15. evals'[Len(evals')].verdict = r.verdict
  BY <1>2
<1>16. QED
  BY <1>10, <1>12, <1>13, <1>14, <1>15

\* They can be counted after a step too.
LEMMA ReworksNat ==
  ASSUME CloseInvariant, [CloseNext]_allVars, NEW us PROVE Reworks(us)' \in Nat
<1>1. evals' \in Seq(EvaluationRows)
  BY TableStep DEF TableTypes
<1>2. Charged(us)' \subseteq 1..Len(evals') /\ Len(evals') \in Nat
  BY <1>1 DEF Charged
<1>3. IsFiniteSet(1..Len(evals'))
  BY <1>2, FS_Interval
<1>4. IsFiniteSet(Charged(us)')
  BY <1>2, <1>3, FS_Subset
<1>5. QED
  BY <1>4, FS_CardinalityType DEF Reworks, Charged

\* Arithmetic of the budget: a smaller charge fits where a larger one did.
LEMMA AtMost ==
  ASSUME NEW a \in Nat, NEW b \in Nat, NEW c \in Nat, NEW d \in Nat, NEW n \in Nat,
         a + b <= c + d, c + d <= n
  PROVE  a + b <= n
  OBVIOUS

\* Arithmetic of the budget: nothing due adds nothing.
LEMMA NoMore ==
  ASSUME NEW a \in Nat, NEW c \in Nat, NEW d \in Nat, a <= c PROVE a + 0 <= c + d
  OBVIOUS

\* Counters at zero have been asked for.
LEMMA PaidZero ==
  ASSUME CloseInvariant, [CloseNext]_allVars, fix' = 0, ckpt'.fix = 0,
         phase' \notin {"observe", "route", "stuck"}
  PROVE  RoundsPaid'
<1>1. \A us : Reworks(us)' \in Nat
  BY ReworksNat
<1>2. Due' = 0
  BY DEF Due
<1>3. QED
  BY <1>1, <1>2 DEF RoundsPaid

\* Counters that take over each other's value have been asked for if they
\* were.
LEMMA PaidFrame ==
  ASSUME CloseInvariant, UNCHANGED <<evals, rows, task.accepted>>,
         ckpt'.fix \in {ckpt.fix, fix + Due, fix}, fix' \in Nat,
         fix' + Due' <= fix + Due \/ fix' + Due' <= ckpt.fix
  PROVE  RoundsPaid'
<1>1. \A us : Reworks(us)' = Reworks(us)
  BY ReworksSame
<1>2. \A u : IsNext(u)' <=> IsNext(u)
  BY DEF IsNext, Pending, Planned, CommittedRows
<1>3. /\ ckpt.fix \in Nat /\ fix \in Nat /\ Due \in {0, 1} /\ Due' \in {0, 1}
  BY Typed DEF Due
<1>4. RoundsPaid
  BY DEF CloseInvariant, BudgetInv
<1>5. \A us : Reworks(us) \in Nat
  BY ChargedFinite
<1>6. ckpt'.fix \in Nat
  BY <1>3
<1>7. ASSUME NEW n \in Nat, ckpt.fix <= n, fix + Due <= n
      PROVE  ckpt'.fix <= n /\ fix' + Due' <= n
  <2>1. Due \in Nat /\ Due' \in Nat
    BY <1>3
  <2> DEFINE e == fix + Due
             e2 == fix' + Due'
             c2 == ckpt'.fix
  <2>2. /\ e \in Nat /\ e2 \in Nat /\ ckpt.fix \in Nat /\ fix <= e
    <3>1. \A f \in Nat : \A d \in {0, 1} : f + d \in Nat /\ f <= f + d
      OBVIOUS
    <3>2. e \in Nat /\ fix <= e
      BY <1>3, <3>1
    <3>3. e2 \in Nat
      BY <1>3, <3>1
    <3>4. QED
      BY <1>3, <3>2, <3>3
  <2>3. ckpt.fix <= n /\ e <= n /\ (e2 <= e \/ e2 <= ckpt.fix) /\ c2 \in {ckpt.fix, e, fix}
    BY <1>7
  <2> HIDE DEF e, e2, c2
  <2>4. c2 <= n /\ e2 <= n
    BY <1>3, <2>2, <2>3
  <2>5. QED
    BY <2>4 DEF e2, c2
<1>8. \A us : ckpt.fix <= Reworks(us) /\ fix + Due <= Reworks(us) =>
               ckpt'.fix <= Reworks(us)' /\ fix' + Due' <= Reworks(us)'
  BY <1>1, <1>5, <1>7
<1>9. QED
  BY <1>2, <1>4, <1>8 DEF RoundsPaid

\* No step counts a round no review has asked for.
LEMMA PaidStep == ASSUME CloseInvariant, [CloseNext]_allVars PROVE RoundsPaid'
<1> USE DEF To, splitVars, taskFile, gitVars, memVars, closeVars, turnVars, summaryVars
<1>t. /\ ckpt.fix \in Nat /\ fix \in Nat /\ Due \in {0, 1}
      /\ ckpt \in [node : {"none", "planning", "implement", "review", "publish"}, fix : 0..MaxFix]
      /\ task \in [accepted : BOOLEAN, count : Units, active : Units, completed : Units]
  BY Typed DEF Due, CloseInvariant, CloseTypeOK, TableTypes
<1>f. ASSUME UNCHANGED <<evals, rows, task.accepted>>,
             ckpt'.fix \in {ckpt.fix, fix + Due, fix}, fix' \in Nat,
             fix' + Due' <= fix + Due \/ fix' + Due' <= ckpt.fix
      PROVE  RoundsPaid'
  BY <1>f, PaidFrame
<1>z. ASSUME fix' = 0, ckpt'.fix = 0, phase' \notin {"observe", "route", "stuck"} PROVE RoundsPaid'
  BY <1>z, PaidZero
<1>p. Pre' => RoundsPaid'
  <2>1. EarlyInv' /\ PhaseInv'
    BY EarlyStep, PhaseStep
  <2>2. QED
    BY <1>z, <2>1 DEF EarlyInv, PhaseInv, PrePhases
<1>i. PhaseInv /\ EvalInv /\ MemInv /\ EarlyInv
  BY DEF CloseInvariant
<1>1. CASE Begin /\ UNCHANGED closeVars
  BY <1>1, <1>p, <1>i DEF Begin, save_checkpoint, Pre, PhaseInv, PrePhases
<1>2. CASE \E p \in DOMAIN Plans : Planning(p) /\ UNCHANGED closeVars
  BY <1>2, <1>p, <1>i DEF Planning, Pre, PhaseInv, PrePhases
<1>3. CASE PersistTask /\ UNCHANGED closeVars
  BY <1>3, <1>p, <1>i DEF PersistTask, Pre, PhaseInv, PrePhases
<1>4. CASE write_subtask_artifacts /\ UNCHANGED closeVars
  BY <1>4, <1>p, <1>i DEF write_subtask_artifacts, Pre, PhaseInv, PrePhases
<1>5. CASE insert_subtasks /\ UNCHANGED closeVars
  BY <1>5, <1>p, <1>i DEF insert_subtasks, Pre, PhaseInv, PrePhases
<1>6. CASE LeavePre /\ UNCHANGED closeVars
  BY <1>6, <1>t, <1>f DEF LeavePre, save_checkpoint, Due, Verdict
<1>7. CASE FanOut /\ UNCHANGED closeVars
  BY <1>7, <1>t, <1>f DEF FanOut, Due, Verdict
<1>8. CASE NextUnit /\ UNCHANGED closeVars
  BY <1>8, <1>t, <1>f DEF NextUnit, Due, Verdict
<1>9. CASE EnterUnit /\ UNCHANGED closeVars
  BY <1>9, <1>t, <1>f DEF EnterUnit, save_checkpoint, Due, Verdict
<1>10. CASE \E c \in BOOLEAN : Implement(c) /\ UNCHANGED closeVars
  BY <1>10, <1>t, <1>f DEF Implement, save_checkpoint, Due, Verdict
<1>11. CASE \E fs \in Reports[unit] : Review(fs) /\ UNCHANGED closeVars
  <2>1. PICK fs \in Reports[unit] : Review(fs)
    BY <1>11
  <2>2. /\ phase = "review" /\ phase' = "observe" /\ UNCHANGED <<rows, task, ckpt, fix, unit>>
    BY <2>1 DEF Review
  <2>3. Due = 0 /\ Due' = IF evals'[Len(evals')].verdict = "rework" THEN 1 ELSE 0
    BY <2>2 DEF Due, Verdict
  <2>4. \A us : /\ Reworks(us) <= Reworks(us)' /\ Reworks(us)' \in Nat
                /\ evals'[Len(evals')].verdict = "rework" /\ unit \in us => Reworks(us) + 1 <= Reworks(us)'
    BY <2>1, ReworksReview
  <2>5. \A us : Reworks(us) \in Nat
    BY ChargedFinite
  <2>6. ASSUME NEW us, unit \in us, ckpt.fix <= Reworks(us), fix + Due <= Reworks(us)
        PROVE  ckpt.fix <= Reworks(us)' /\ fix + Due' <= Reworks(us)'
    BY <1>t, <2>3, <2>4, <2>5, <2>6
  <2>7. RoundsPaid
    BY DEF CloseInvariant, BudgetInv
  <2>8. CASE task.accepted
    <3>1. unit \in Orders /\ \A u \in Orders : IsNext(u) => u = unit
      BY <2>2, <2>8, UnitNext, UnitIsNext DEF UnitPhases
    <3>2. \A u : IsNext(u)' <=> IsNext(u)
      BY <2>2 DEF IsNext, Pending, Planned, CommittedRows
    <3>3. IsNext(unit) => ckpt.fix <= Reworks(0..unit)' /\ fix + Due' <= Reworks(0..unit)'
      <4>1. unit \in 0..unit
        BY <3>1 DEF Orders
      <4>2. IsNext(unit) => ckpt.fix <= Reworks(0..unit) /\ fix + Due <= Reworks(0..unit)
        BY <2>7, <2>8, <3>1 DEF RoundsPaid
      <4>3. \A us : unit \in us /\ ckpt.fix <= Reworks(us) /\ fix + Due <= Reworks(us)
                      => LET v == Reworks(us)' IN ckpt.fix <= v /\ fix + Due' <= v
        BY <2>6
      <4>4. unit' = unit
        BY <2>2
      <4>5. QED
        BY <4>1, <4>2, <4>3, <4>4
    <3>4. ASSUME NEW u \in Orders, IsNext(u)'
          PROVE  ckpt'.fix <= Reworks(0..u)' /\ fix' + Due' <= Reworks(0..u)'
      <4>1. u = unit /\ IsNext(unit) /\ unit' = unit
        BY <2>2, <3>1, <3>2, <3>4
      <4>2. QED
        BY <2>2, <3>3, <4>1
    <3>5. QED
      BY <2>2, <2>8, <3>4 DEF RoundsPaid
  <2>9. CASE ~task.accepted
    <3>1. unit = Whole
      BY <1>i, <2>2, <2>9 DEF MemInv, LoopPhases
    <3>2. ckpt.fix <= Reworks({Whole}) /\ fix + Due <= Reworks({Whole})
      BY <2>7, <2>9 DEF RoundsPaid
    <3>3. ckpt.fix <= Reworks({Whole})' /\ fix + Due' <= Reworks({Whole})'
      BY <2>6, <3>1, <3>2
    <3>4. QED
      BY <2>2, <2>9, <3>3 DEF RoundsPaid
  <2>10. QED
    BY <2>8, <2>9
<1>12. CASE Rework /\ UNCHANGED closeVars
  <2>1. Due = 1 /\ Due' = 0
    BY <1>12 DEF Rework, Due
  <2>2. UNCHANGED <<evals, rows, task>> /\ fix' = fix + 1 /\ ckpt'.fix = fix + 1
    BY <1>12 DEF Rework, save_checkpoint
  <2>3. QED
    BY <1>t, <1>f, <2>1, <2>2
<1>13. CASE Stuck /\ UNCHANGED closeVars
  BY <1>13, <1>t, <1>f DEF Stuck, Due, Verdict
<1>14. CASE Accept /\ UNCHANGED closeVars
  BY <1>14, <1>t, <1>f DEF Accept, save_checkpoint, Due, Verdict
<1>15. CASE CommitStep(CommitAgain)
  BY <1>15, <1>t, <1>f DEF CommitStep, CommitAgain, Due, Verdict
<1>16. CASE CommitStep(CommitNothing)
  BY <1>16, <1>t, <1>f DEF CommitStep, CommitNothing, Due, Verdict
<1>17. CASE CommitStep(CommitTree)
  BY <1>17, <1>t, <1>f DEF CommitStep, CommitTree, Due, Verdict
<1>18. CASE CommitStep(RecordOp)
  BY <1>18, <1>t, <1>f DEF CommitStep, RecordOp, Due, Verdict
<1>19. CASE update_subtask_index /\ UNCHANGED closeVars
  BY <1>19, <1>t, <1>f DEF update_subtask_index, Due, Verdict
<1>20. CASE set_subtask_commit /\ UNCHANGED closeVars
  <2>1. /\ phase = "row" /\ phase' = "count" /\ rows' = [rows EXCEPT ![unit].sha = sha]
        /\ UNCHANGED <<evals, task, ckpt, fix>>
    BY <1>20 DEF set_subtask_commit
  <2>2. Due = 0 /\ Due' = 0
    BY <2>1 DEF Due
  <2>3. task.accepted /\ unit \in Orders /\ IsNext(unit)
    BY <1>i, <2>1, UnitNext, UnitIsNext DEF UnitPhases, MemInv
  <2>4. sha # 0 /\ sha \in Nat
    BY <2>1, Typed DEF CloseInvariant, BranchInv, ShaKnown
  <2>5. /\ \A o \in Orders \ {unit} : rows'[o] = rows[o]
        /\ rows'[unit].sha # 0
    BY <2>1, <2>3, <2>4, Typed DEF Table
  <2>6. ASSUME NEW u \in Orders, IsNext(u)' PROVE unit <= u
    <3>1. u \in Pending' /\ u # unit
      BY <2>5, <2>6 DEF IsNext, Pending, CommittedRows
    <3>2. u \in Pending
      BY <2>3, <2>5, <3>1 DEF Pending, Planned, CommittedRows
    <3>3. QED
      BY <2>3, <3>2 DEF IsNext
  <2>7. ckpt.fix <= Reworks(0..unit) /\ fix + Due <= Reworks(0..unit)
    BY <2>3 DEF CloseInvariant, BudgetInv, RoundsPaid
  <2>8. ASSUME NEW u \in Orders, IsNext(u)'
        PROVE  ckpt.fix <= Reworks(0..u) /\ fix + Due <= Reworks(0..u)
    <3>1. 0..unit \subseteq 0..u
      BY <2>3, <2>6, <2>8 DEF Orders
    <3>2. Reworks(0..unit) <= Reworks(0..u) /\ Reworks(0..unit) \in Nat /\ Reworks(0..u) \in Nat
      BY <3>1, ReworksMono, ChargedFinite
    <3>3. QED
      BY <1>t, <2>7, <3>2
  <2>9. \A us : Reworks(us)' = Reworks(us)
    BY <2>1, ReworksSame
  <2>10. QED
    BY <2>1, <2>2, <2>3, <2>8, <2>9 DEF RoundsPaid
<1>21. CASE CountUnit /\ UNCHANGED closeVars
  <2>1. task'.accepted = task.accepted
    BY <1>21, <1>t DEF CountUnit
  <2>2. UNCHANGED <<evals, rows, ckpt>> /\ fix' \in {fix, 0} /\ phase' = "next"
    BY <1>21 DEF CountUnit, NextBudget
  <2>3. Due' = 0
    BY <2>2 DEF Due
  <2>a. Due \in Nat /\ fix \in Nat
    BY <1>t
  <2>b. fix' \in Nat /\ fix' <= fix
    BY <2>2, <2>a
  <2>c. ckpt'.fix = ckpt.fix
    BY <2>2
  <2>4. fix' \in Nat /\ fix' + Due' <= fix + Due /\ ckpt'.fix = ckpt.fix
    BY <2>3, <2>a, <2>b, <2>c, NoMore
  <2>5. QED
    BY <1>f, <2>1, <2>2, <2>4
<1>22. CASE AllUnits /\ UNCHANGED closeVars
  BY <1>22, <1>t, <1>f DEF AllUnits, save_checkpoint, Due, Verdict
<1>23. CASE Resume /\ UNCHANGED closeVars
  <2>1. phase' \notin {"observe", "route", "stuck"}
    BY <1>23, <1>t DEF Resume, ResumeAt
  <2>2. Due' = 0 /\ fix' = ckpt.fix /\ UNCHANGED <<evals, rows, task, ckpt>>
    BY <1>23, <2>1 DEF Resume, Due
  <2>3. QED
    BY <1>t, <1>f, <2>2
<1>24. CASE \E f \in BOOLEAN : _engine_post_node(f)
  <2>1. /\ phase = "observe" /\ phase' = "route" /\ Len(evals) > 0
        /\ UNCHANGED <<rows, task, ckpt, fix, unit>>
    BY <1>24, <1>i DEF _engine_post_node, EvalInv
  <2>2. CASE evals' = evals
    BY <1>t, <1>f, <2>1, <2>2 DEF Due, Verdict
  <2>3. CASE observe
    <3>1. /\ Similar(evals, evals') /\ evals' \in Seq(EvaluationRows)
          /\ \A i \in DOMAIN evals : evals'[i].live = evals[i].live
      BY <2>1, <2>3, SeenRow
    <3>2. \A us : Reworks(us)' = Reworks(us)
      BY <3>1, ReworksSeen
    <3>3. Len(evals') = Len(evals) /\ Len(evals) \in DOMAIN evals
      BY <2>1, <3>1, Typed DEF Similar
    <3>4. Due' = Due
      BY <2>1, <3>1, <3>3 DEF Due, Verdict, Similar
    <3>5. \A u : IsNext(u)' <=> IsNext(u)
      BY <2>1 DEF IsNext, Pending, Planned, CommittedRows
    <3>6. RoundsPaid
      BY DEF CloseInvariant, BudgetInv
    <3>7. QED
      BY <2>1, <3>2, <3>4, <3>5, <3>6 DEF RoundsPaid
  <2>4. QED
    BY <1>24, <2>2, <2>3 DEF _engine_post_node
<1>25. CASE finalize
  BY <1>25, <1>t, <1>f DEF finalize, _finalize_turn, Stay, Due, Verdict
<1>26. CASE _write_summary_json
  BY <1>26, <1>t, <1>f DEF _write_summary_json, Stay, Due, Verdict
<1>27. CASE _engine_finalize
  BY <1>27, <1>t, <1>f DEF _engine_finalize, Stay, Due, Verdict
<1>28. CASE ReportJson
  BY <1>28, <1>t, <1>f DEF ReportJson, Stay, Due, Verdict
<1>29. CASE write_summary_report
  BY <1>29, <1>t, <1>f DEF write_summary_report, Stay, Due, Verdict
<1>30. CASE SummaryStands
  BY <1>30, <1>t, <1>f DEF SummaryStands, Stay, Due, Verdict
<1>31. CASE _append_follow_ups_file
  BY <1>31, <1>t, <1>f DEF _append_follow_ups_file, AfterFile, Stay, Due, Verdict
<1>32. CASE PublishDone
  BY <1>32, <1>t, <1>f DEF PublishDone, Stay, Due, Verdict
<1>33. CASE PublishFailed
  BY <1>33, <1>t, <1>f DEF PublishFailed, Stay, Due, Verdict
<1>34. CASE _explain_terminal
  BY <1>34, <1>t, <1>f DEF _explain_terminal, Stay, Due, Verdict
<1>35. CASE Die
  BY <1>35, <1>t, <1>f DEF Die, LoseMemory, ForgetTurn, Working, Due, Verdict
<1>36. CASE ClearTree
  BY <1>36, <1>t, <1>f DEF ClearTree, Due, Verdict
<1>37. CASE \E r \in BOOLEAN : RerunContinue(r)
  <2>1. fix' = 0 /\ phase' = "down" /\ UNCHANGED <<rows, task>>
    BY <1>37 DEF RerunContinue, LoseMemory
  <2>2. CASE UNCHANGED <<ckpt, evals>>
    BY <1>t, <1>f, <2>1, <2>2 DEF Due
  <2>3. CASE ckpt' = [ckpt EXCEPT !.fix = 0]
    BY <1>t, <1>z, <2>1, <2>3
  <2>4. QED
    BY <1>37, <2>2, <2>3 DEF RerunContinue, _apply_continue_controls
<1>38. CASE RerunFresh
  BY <1>38, <1>p DEF RerunFresh, reset_task_for_rerun, Pre
<1>39. CASE UNCHANGED allVars
  BY <1>39, <1>t, <1>f DEF allVars, subVars, Due, Verdict
<1>q. QED
  BY <1>1, <1>2, <1>3, <1>4, <1>5, <1>6, <1>7, <1>8, <1>9, <1>10, <1>11, <1>12, <1>13,
       <1>14, <1>15, <1>16, <1>17, <1>18, <1>19, <1>20, <1>21, <1>22, <1>23, <1>24,
       <1>25, <1>26, <1>27, <1>28, <1>29, <1>30, <1>31, <1>32, <1>33, <1>34, <1>35,
       <1>36, <1>37, <1>38, <1>39, Cases

\* Without a crash no unit starts on the rounds of the one before it.
LEMMA FreshStep == ASSUME CloseInvariant, [CloseNext]_allVars PROVE FreshBudget'
<1> USE DEF To, splitVars, taskFile, gitVars, memVars, closeVars, turnVars, summaryVars
<1>t. /\ ckpt.fix \in Nat /\ fix \in Nat /\ Due \in {0, 1} /\ crashes \in Nat
      /\ ckpt \in [node : {"none", "planning", "implement", "review", "publish"}, fix : 0..MaxFix]
      /\ task.accepted \in BOOLEAN
  BY Typed DEF Due, CloseInvariant, CloseTypeOK, TableTypes
<1>i. PhaseInv /\ EvalInv /\ MemInv /\ EarlyInv /\ FreshBudget
  BY DEF CloseInvariant, BudgetInv
<1>n. \A us : Reworks(us) \in Nat /\ Reworks(us)' \in Nat
  BY ReworksNat, ChargedFinite
<1>s. evals' = evals => \A us : Reworks(us)' = Reworks(us)
  BY ReworksSame
<1>r. rows' = rows => CommittedRows' = CommittedRows
  BY DEF CommittedRows
<1>1. CASE Begin /\ UNCHANGED closeVars
  BY <1>1, <1>r, <1>i DEF Begin, save_checkpoint, FreshBudget, LoopPhases
<1>2. CASE \E p \in DOMAIN Plans : Planning(p) /\ UNCHANGED closeVars
  BY <1>2, <1>r, <1>i DEF Planning, FreshBudget, LoopPhases
<1>3. CASE PersistTask /\ UNCHANGED closeVars
  BY <1>3, <1>r, <1>i DEF PersistTask, FreshBudget, LoopPhases
<1>4. CASE write_subtask_artifacts /\ UNCHANGED closeVars
  BY <1>4, <1>r, <1>i DEF write_subtask_artifacts, FreshBudget, LoopPhases
<1>5. CASE insert_subtasks /\ UNCHANGED closeVars
  BY <1>5, <1>r, <1>i DEF insert_subtasks, FreshBudget, LoopPhases
<1>6. CASE LeavePre /\ UNCHANGED closeVars
  <2>1. Pre /\ fix = 0
    BY <1>6, <1>i DEF LeavePre, PhaseInv, PrePhases, EarlyInv
  <2>2. QED
    BY <1>6, <2>1 DEF LeavePre, FreshBudget, LoopPhases
<1>7. CASE FanOut /\ UNCHANGED closeVars
  BY <1>7, <1>r, <1>i DEF FanOut, FreshBudget, LoopPhases
<1>8. CASE NextUnit /\ UNCHANGED closeVars
  <2>1. fix = 0 \/ crashes # 0
    <3>1. plan.units \cap committed = plan.units \cap CommittedRows
      BY <1>8 DEF NextUnit, CloseInvariant, UnitInv
    <3>2. ~(plan.units \subseteq CommittedRows)
      BY <1>8, <3>1 DEF NextUnit, Left
    <3>3. QED
      BY <1>8, <1>i, <3>2 DEF NextUnit, FreshBudget
  <2>2. QED
    BY <1>8, <2>1 DEF NextUnit, FreshBudget, LoopPhases
<1>9. CASE EnterUnit /\ UNCHANGED closeVars
  <2>1. phase \in {"enter", "whole"} /\ phase' = "implement" /\ UNCHANGED <<fix, crashes, evals>>
    BY <1>9 DEF EnterUnit
  <2>2. Due' = 0 /\ (crashes = 0 => fix = 0)
    BY <1>i, <2>1 DEF FreshBudget, Due
  <2>3. crashes = 0 => fix' + Due' <= Reworks({unit})'
    <3>1. \A us : Reworks(us)' \in Nat
      BY <1>n
    <3>2. Reworks({unit})' \in Nat
      BY <3>1
    <3>3. QED
      BY <2>1, <2>2, <3>2
  <2>4. QED
    BY <2>1, <2>3 DEF FreshBudget
<1>10. CASE \E c \in BOOLEAN : Implement(c) /\ UNCHANGED closeVars
  <2>1. /\ UNCHANGED <<evals, rows, plan, unit, crashes>>
        /\ fix' + Due' <= fix + Due \/ phase' \notin LoopPhases
    BY <1>10, <1>t DEF Implement, save_checkpoint, Due, Verdict, LoopPhases
  <2>2. crashes = 0 => fix + Due <= Reworks({unit}) \/ phase \notin LoopPhases
    BY <1>i DEF FreshBudget
  <2>3. Reworks({unit})' = Reworks({unit}) /\ Reworks({unit}) \in Nat
    BY <1>n, <1>s, <2>1
  <2>4. ASSUME crashes = 0, phase \in LoopPhases, phase' \in LoopPhases
        PROVE  fix' + Due' <= Reworks({unit})'
    <3>1. fix' + Due' <= fix + Due /\ fix + Due <= Reworks({unit}) /\ fix' \in Nat /\ Due' \in {0, 1}
      BY <1>10, <1>t, <2>1, <2>2, <2>4 DEF Implement, save_checkpoint, Due
    <3>2. Due \in Nat /\ fix \in Nat /\ Due' \in Nat
      BY <1>t, <3>1
    <3>3. QED
      BY <2>3, <3>1, <3>2, AtMost
  <2>5. QED
    BY <1>10, <1>r, <2>1, <2>4 DEF Implement, save_checkpoint, FreshBudget, LoopPhases
<1>11. CASE \E fs \in Reports[unit] : Review(fs) /\ UNCHANGED closeVars
  <2>1. PICK fs \in Reports[unit] : Review(fs)
    BY <1>11
  <2>2. /\ phase = "review" /\ phase' = "observe" /\ UNCHANGED <<rows, task, ckpt, fix, unit, crashes>>
    BY <2>1 DEF Review
  <2>3. Due = 0 /\ Due' = IF evals'[Len(evals')].verdict = "rework" THEN 1 ELSE 0
    BY <2>2 DEF Due, Verdict
  <2>4. LET us == {unit} IN
          /\ Reworks(us) <= Reworks(us)' /\ Reworks(us)' \in Nat
          /\ evals'[Len(evals')].verdict = "rework" => Reworks(us) + 1 <= Reworks(us)'
    <3>1. ASSUME NEW us, unit \in us
          PROVE  /\ Reworks(us) <= Reworks(us)' /\ Reworks(us)' \in Nat
                 /\ evals'[Len(evals')].verdict = "rework" => Reworks(us) + 1 <= Reworks(us)'
      BY <2>1, <3>1, ReworksReview
    <3>2. unit' = unit
      BY <2>2
    <3>3. QED
      BY <3>1, <3>2
  <2>5. crashes = 0 => fix + Due <= Reworks({unit})
    BY <1>i, <2>2 DEF FreshBudget, LoopPhases
  <2>6. crashes = 0 => fix + Due' <= Reworks({unit})'
    BY <1>t, <1>n, <2>3, <2>4, <2>5
  <2>7. QED
    BY <2>2, <2>6 DEF FreshBudget
<1>12. CASE Rework /\ UNCHANGED closeVars
  <2>1. /\ UNCHANGED <<evals, rows, plan, unit, crashes>>
        /\ fix' + Due' <= fix + Due \/ phase' \notin LoopPhases
    BY <1>12, <1>t DEF Rework, save_checkpoint, Due, Verdict, LoopPhases
  <2>2. crashes = 0 => fix + Due <= Reworks({unit}) \/ phase \notin LoopPhases
    BY <1>i DEF FreshBudget
  <2>3. Reworks({unit})' = Reworks({unit}) /\ Reworks({unit}) \in Nat
    BY <1>n, <1>s, <2>1
  <2>4. ASSUME crashes = 0, phase \in LoopPhases, phase' \in LoopPhases
        PROVE  fix' + Due' <= Reworks({unit})'
    <3>1. fix' + Due' <= fix + Due /\ fix + Due <= Reworks({unit}) /\ fix' \in Nat /\ Due' \in {0, 1}
      BY <1>12, <1>t, <2>1, <2>2, <2>4 DEF Rework, save_checkpoint, Due
    <3>2. Due \in Nat /\ fix \in Nat /\ Due' \in Nat
      BY <1>t, <3>1
    <3>3. QED
      BY <2>3, <3>1, <3>2, AtMost
  <2>5. QED
    BY <1>12, <1>r, <2>1, <2>4 DEF Rework, save_checkpoint, FreshBudget, LoopPhases
<1>13. CASE Stuck /\ UNCHANGED closeVars
  <2>1. /\ UNCHANGED <<evals, rows, plan, unit, crashes>>
        /\ fix' + Due' <= fix + Due \/ phase' \notin LoopPhases
    BY <1>13, <1>t DEF Stuck, Due, Verdict, LoopPhases
  <2>2. crashes = 0 => fix + Due <= Reworks({unit}) \/ phase \notin LoopPhases
    BY <1>i DEF FreshBudget
  <2>3. Reworks({unit})' = Reworks({unit}) /\ Reworks({unit}) \in Nat
    BY <1>n, <1>s, <2>1
  <2>4. ASSUME crashes = 0, phase \in LoopPhases, phase' \in LoopPhases
        PROVE  fix' + Due' <= Reworks({unit})'
    <3>1. fix' + Due' <= fix + Due /\ fix + Due <= Reworks({unit}) /\ fix' \in Nat /\ Due' \in {0, 1}
      BY <1>13, <1>t, <2>1, <2>2, <2>4 DEF Stuck, Due
    <3>2. Due \in Nat /\ fix \in Nat /\ Due' \in Nat
      BY <1>t, <3>1
    <3>3. QED
      BY <2>3, <3>1, <3>2, AtMost
  <2>5. QED
    BY <1>13, <1>r, <2>1, <2>4 DEF Stuck, FreshBudget, LoopPhases
<1>14. CASE Accept /\ UNCHANGED closeVars
  BY <1>14, <1>r, <1>i DEF Accept, save_checkpoint, FreshBudget, LoopPhases
<1>15. CASE CommitStep(CommitAgain)
  BY <1>15, <1>r, <1>i DEF CommitStep, CommitAgain, FreshBudget, LoopPhases
<1>16. CASE CommitStep(CommitNothing)
  BY <1>16, <1>r, <1>i DEF CommitStep, CommitNothing, FreshBudget, LoopPhases
<1>17. CASE CommitStep(CommitTree)
  BY <1>17, <1>r, <1>i DEF CommitStep, CommitTree, FreshBudget, LoopPhases
<1>18. CASE CommitStep(RecordOp)
  BY <1>18, <1>r, <1>i DEF CommitStep, RecordOp, FreshBudget, LoopPhases
<1>19. CASE update_subtask_index /\ UNCHANGED closeVars
  BY <1>19, <1>r, <1>i DEF update_subtask_index, FreshBudget, LoopPhases
<1>20. CASE set_subtask_commit /\ UNCHANGED closeVars
  BY <1>20, <1>r, <1>i DEF set_subtask_commit, FreshBudget, LoopPhases
<1>21. CASE CountUnit /\ UNCHANGED closeVars
  <2>1. fix' = 0 \/ (IsLastUnit /\ fix' = fix)
    BY <1>21 DEF CountUnit, NextBudget
  <2>2. task.accepted /\ phase = "count"
    BY <1>21, <1>i DEF CountUnit, MemInv
  <2>3. /\ unit \in plan.units /\ \A v \in plan.units : v < unit => v \in CommittedRows
    BY <2>2, UnitNext
  <2>4. unit \in CommittedRows
    BY <2>2, <2>3 DEF CloseInvariant, UnitInv
  <2>5. plan.units \subseteq Orders
    BY Typed
  <2>6. IsLastUnit => plan.units \subseteq CommittedRows
    <3>1. SUFFICES ASSUME IsLastUnit, NEW v \in plan.units PROVE v \in CommittedRows
      OBVIOUS
    <3>2. PICK m \in plan.units : \A q \in plan.units : q <= m
      <4>1. plan.units \in SUBSET (0..MaxSubtasks) /\ plan.units # {} /\ MaxSubtasks \in Nat
        BY <2>3, <2>5, RunRecordAssumption DEF Orders
      <4>2. QED
        BY <4>1, GreatestOf
    <3>3. \A q \in plan.units : q <= unit
      BY <3>1, <3>2 DEF IsLastUnit
    <3>4. QED
      BY <2>3, <2>4, <2>5, <3>1, <3>3 DEF Orders
  <2>7. QED
    BY <1>21, <1>r, <2>1, <2>6 DEF CountUnit, FreshBudget, LoopPhases
<1>22. CASE AllUnits /\ UNCHANGED closeVars
  BY <1>22, <1>r, <1>i DEF AllUnits, save_checkpoint, FreshBudget, LoopPhases
<1>23. CASE Resume /\ UNCHANGED closeVars
  <2>1. /\ phase = "down" /\ phase' = ResumeAt /\ fix' = ckpt.fix
        /\ UNCHANGED <<evals, rows, task, ckpt, unit, crashes>>
    BY <1>23 DEF Resume
  <2>2. /\ ResumeAt \in {"begin", "planning", "fan_out", "finalize", "implement", "review"}
        /\ ResumeAt = "fan_out" => task.accepted /\ ckpt.node \in {"implement", "review", "publish"}
        /\ ResumeAt \in {"implement", "review"} => ckpt.node # "publish"
    BY <1>t DEF ResumeAt
  <2>3. crashes = 0 => ckpt.fix = 0 \/ ckpt.node = "publish"
    BY <1>i, <2>1 DEF FreshBudget
  <2>4. Due' = 0
    BY <2>1, <2>2 DEF Due
  <2>5. ASSUME crashes = 0, phase' = "fan_out", ckpt.node = "publish" PROVE plan'.units \subseteq CommittedRows
    <3>1. task.accepted /\ Planned \subseteq CommittedRows
      BY <2>1, <2>2, <2>5 DEF CloseInvariant, FirstInv
    <3>2. plan'.units = Planned
      BY <1>23, <3>1 DEF Resume, _rebuild_decomposition, Planned
    <3>3. QED
      BY <3>1, <3>2
  <2>6. crashes = 0 /\ phase' \in {"implement", "review"} => fix' + Due' <= Reworks({unit})'
    <3>1. LET us == {unit} IN Reworks(us)' \in Nat
      BY <1>n, <2>1
    <3>2. QED
      BY <2>1, <2>2, <2>3, <2>4, <3>1
  <2>7. QED
    BY <1>r, <2>1, <2>2, <2>3, <2>5, <2>6 DEF FreshBudget, LoopPhases
<1>24. CASE \E f \in BOOLEAN : _engine_post_node(f)
  <2>1. /\ phase = "observe" /\ phase' = "route" /\ Len(evals) > 0
        /\ UNCHANGED <<rows, task, ckpt, fix, unit, crashes>>
    BY <1>24, <1>i DEF _engine_post_node, EvalInv
  <2>2. Due' = Due /\ \A us : Reworks(us)' = Reworks(us)
    <3>1. CASE evals' = evals
      BY <1>s, <2>1, <3>1 DEF Due, Verdict
    <3>2. CASE observe
      <4>1. /\ Similar(evals, evals') /\ evals' \in Seq(EvaluationRows)
            /\ \A i \in DOMAIN evals : evals'[i].live = evals[i].live
        BY <2>1, <3>2, SeenRow
      <4>2. Len(evals') = Len(evals) /\ Len(evals) \in DOMAIN evals
        BY <2>1, <4>1, Typed DEF Similar
      <4>3. Due' = Due
        BY <2>1, <4>1, <4>2 DEF Due, Verdict, Similar
      <4>4. QED
        BY <4>1, <4>3, ReworksSeen
    <3>3. QED
      BY <1>24, <3>1, <3>2 DEF _engine_post_node
  <2>3. crashes = 0 => fix + Due <= Reworks({unit})
    BY <1>i, <2>1 DEF FreshBudget, LoopPhases
  <2>4. crashes = 0 => fix' + Due' <= Reworks({unit})'
    BY <2>1, <2>2, <2>3
  <2>5. QED
    BY <2>1, <2>4 DEF FreshBudget
<1>25. CASE finalize
  BY <1>25, <1>r, <1>i DEF finalize, _finalize_turn, Stay, FreshBudget, LoopPhases
<1>26. CASE _write_summary_json
  BY <1>26, <1>r, <1>i DEF _write_summary_json, Stay, FreshBudget, LoopPhases
<1>27. CASE _engine_finalize
  BY <1>27, <1>r, <1>i DEF _engine_finalize, Stay, FreshBudget, LoopPhases
<1>28. CASE ReportJson
  BY <1>28, <1>r, <1>i DEF ReportJson, Stay, FreshBudget, LoopPhases
<1>29. CASE write_summary_report
  BY <1>29, <1>r, <1>i DEF write_summary_report, Stay, FreshBudget, LoopPhases
<1>30. CASE SummaryStands
  BY <1>30, <1>r, <1>i DEF SummaryStands, Stay, FreshBudget, LoopPhases
<1>31. CASE _append_follow_ups_file
  BY <1>31, <1>r, <1>i DEF _append_follow_ups_file, AfterFile, Stay, FreshBudget,
       LoopPhases
<1>32. CASE PublishDone
  BY <1>32, <1>r, <1>i DEF PublishDone, Stay, FreshBudget, LoopPhases
<1>33. CASE PublishFailed
  BY <1>33, <1>r, <1>i DEF PublishFailed, Stay, FreshBudget, LoopPhases
<1>34. CASE _explain_terminal
  BY <1>34, <1>r, <1>i DEF _explain_terminal, Stay, FreshBudget, LoopPhases
<1>35. CASE Die
  BY <1>35, <1>t DEF Die, FreshBudget
<1>36. CASE ClearTree
  BY <1>36, <1>r, <1>i DEF ClearTree, FreshBudget, LoopPhases
<1>37. CASE \E r \in BOOLEAN : RerunContinue(r)
  <2>1. phase = "stopped" /\ phase' = "down" /\ crashes' = crashes
    BY <1>37 DEF RerunContinue, cmd_rerun
  <2>a. PICK r \in BOOLEAN : _resolve_reset_fix_budget(r) /\ _apply_continue_controls(r)
    BY <1>37 DEF RerunContinue
  <2>b. ASSUME r PROVE ckpt'.fix = 0
    BY <1>t, <2>a, <2>b DEF _apply_continue_controls
  <2>c. ASSUME ~r PROVE ckpt' = ckpt /\ (ckpt.node = "publish" \/ ~(ckpt.fix >= MaxFix))
    BY <1>t, <2>a, <2>c DEF _apply_continue_controls, _resolve_reset_fix_budget
  <2>2. ckpt'.fix = 0 \/ (ckpt' = ckpt /\ (ckpt.node = "publish" \/ ~(ckpt.fix >= MaxFix)))
    BY <2>b, <2>c
  <2>3. ckpt.node = "publish" \/ ckpt.fix >= MaxFix
    BY <1>i, <2>1 DEF PhaseInv
  <2>4. MaxFix \in Nat
    BY SubtasksAssumption
  <2>5. ckpt'.fix = 0 \/ ckpt'.node = "publish"
    BY <1>t, <2>2, <2>3, <2>4
  <2>6. QED
    BY <2>1, <2>5 DEF FreshBudget, LoopPhases
<1>38. CASE RerunFresh
  BY <1>38, <1>r, <1>i DEF RerunFresh, cmd_rerun, plan_rerun, reset_task_for_rerun,
       ForgetTurn, FreshBudget, LoopPhases
<1>39. CASE UNCHANGED allVars
  BY <1>39, <1>i DEF allVars, subVars, FreshBudget, Due, Verdict, Reworks, CommittedRows, LoopPhases
<1>q. QED
  BY <1>1, <1>2, <1>3, <1>4, <1>5, <1>6, <1>7, <1>8, <1>9, <1>10, <1>11, <1>12, <1>13,
       <1>14, <1>15, <1>16, <1>17, <1>18, <1>19, <1>20, <1>21, <1>22, <1>23, <1>24,
       <1>25, <1>26, <1>27, <1>28, <1>29, <1>30, <1>31, <1>32, <1>33, <1>34, <1>35,
       <1>36, <1>37, <1>38, <1>39, Cases

\* Both parts of the budget are kept.
LEMMA BudgetStep == ASSUME CloseInvariant, [CloseNext]_allVars PROVE BudgetInv'
  BY PaidStep, FreshStep DEF BudgetInv

\* Induction on the numbers up to n, over a set.
LEMMA UpTo ==
  ASSUME NEW n \in Nat, NEW S, 0 \in S, \A i \in 1..n : i - 1 \in S => i \in S
  PROVE  \A i \in 0..n : i \in S
<1> DEFINE T == {i \in 0..n : i \notin S}
<1>1. SUFFICES ASSUME T # {} PROVE FALSE
  OBVIOUS
<1>2. T \in SUBSET Nat
  OBVIOUS
<1>3. Least(T) \in T /\ \A v \in T : Least(T) <= v
  BY <1>1, <1>2, LeastOf
<1>4. Least(T) \in 0..n /\ Least(T) \notin S
  BY <1>3
<1>5. Least(T) # 0
  BY <1>4
<1>6. Least(T) - 1 \in 0..n /\ Least(T) \in 1..n
  BY <1>4, <1>5
<1>7. Least(T) - 1 \notin T
  BY <1>3, <1>6
<1>8. Least(T) - 1 \in S
  BY <1>6, <1>7
<1>9. QED
  BY <1>4, <1>6, <1>8

\* f runs through 0..n from a by the steps of g.
Unfolds(f, n, a, g) == \A i \in 0..n : f[i] = IF i = 0 THEN a ELSE g[<<i, f[i - 1]>>]

\* The steps of such a function: from a place and a value to a value.
StepsOn(n, V) == [(1..n) \X V -> V]

\* A function defined by recursion on 0..n with values in a set exists.
LEMMA Recursion ==
  ASSUME NEW n \in Nat, NEW V, NEW a \in V, NEW g \in StepsOn(n, V)
  PROVE  \E f \in [0..n -> V] : Unfolds(f, n, a, g)
<1> DEFINE Good(f, k) == /\ f \in [0..k -> V]
                         /\ \A i \in 0..k : f[i] = IF i = 0 THEN a ELSE g[<<i, f[i - 1]>>]
           S == {k \in 0..n : \E f : Good(f, k)}
<1>1. 0 \in S
  <2>1. Good([i \in 0..0 |-> a], 0)
    OBVIOUS
  <2>2. 0 \in 0..n
    OBVIOUS
  <2> HIDE DEF Good
  <2>3. QED
    BY <2>1, <2>2
<1>2. ASSUME NEW k \in 1..n, k - 1 \in S PROVE k \in S
  <2>1. PICK f : Good(f, k - 1)
    BY <1>2
  <2> DEFINE h == [i \in 0..k |-> IF i = k THEN g[<<k, f[k - 1]>>] ELSE f[i]]
  <2>2. f \in [0..(k - 1) -> V] /\ \A i \in 0..(k - 1) : f[i] = IF i = 0 THEN a ELSE g[<<i, f[i - 1]>>]
    BY <2>1
  <2>3. g[<<k, f[k - 1]>>] \in V
    BY <2>2 DEF StepsOn
  <2>4. \A i \in 0..k : i = k \/ i \in 0..(k - 1)
    OBVIOUS
  <2>5. h \in [0..k -> V]
    BY <2>2, <2>3, <2>4
  <2>6. \A i \in 0..(k - 1) : h[i] = f[i]
    OBVIOUS
  <2>7. h[k] = g[<<k, f[k - 1]>>]
    OBVIOUS
  <2> HIDE DEF h
  <2>8. \A i \in 0..k : h[i] = IF i = 0 THEN a ELSE g[<<i, h[i - 1]>>]
    <3>1. ASSUME NEW i \in 0..(k - 1) PROVE h[i] = IF i = 0 THEN a ELSE g[<<i, h[i - 1]>>]
      <4>1. i # 0 => i - 1 \in 0..(k - 1)
        OBVIOUS
      <4>2. QED
        BY <2>2, <2>6, <4>1
    <3>2. h[k] = g[<<k, h[k - 1]>>]
      BY <2>6, <2>7
    <3>3. QED
      BY <2>4, <3>1, <3>2
  <2>9. Good(h, k)
    BY <2>5, <2>8
  <2>10. QED
    BY <2>9
<1>3. \A i \in 0..n : i \in S
  <2> HIDE DEF S
  <2>1. QED
    BY <1>1, <1>2, UpTo
<1>4. n \in S
  <2>1. n \in 0..n
    OBVIOUS
  <2> HIDE DEF S
  <2>2. QED
    BY <1>3, <2>1
<1>5. PICK f : Good(f, n)
  BY <1>4
<1>6. QED
  BY <1>5 DEF Unfolds

\* A finding takes some room in the packet.
LEMMA SizeNat ==
  ASSUME NEW f \in Findings, NEW final_ \in BOOLEAN PROVE PacketSize(f, final_) \in Nat
  BY RunRecordAssumption DEF PacketSize, NoteBudget

\* So do the first k of a list, and none take none.
LEMMA UsedNat ==
  ASSUME NEW fs \in Seq(Findings), NEW whole \in BOOLEAN, NEW k \in 0..Len(fs)
  PROVE  Used(fs, whole, k) \in Nat /\ (k = 0 => Used(fs, whole, k) = 0)
<1> DEFINE g == [p \in (1..k) \X Nat |-> p[2] + PacketSize(fs[p[1]], whole)]
           IsSum(f) == f = [j \in 0..k |-> IF j = 0 THEN 0 ELSE f[j - 1] + PacketSize(fs[j], whole)]
           sum == CHOOSE f : IsSum(f)
<1>1. k \in Nat /\ \A j \in 1..k : PacketSize(fs[j], whole) \in Nat
  BY SizeNat
<1>2. g \in [(1..k) \X Nat -> Nat]
  BY <1>1
<1>3. \A j \in 1..k : \A v \in Nat : g[<<j, v>>] = v + PacketSize(fs[j], whole)
  OBVIOUS
<1> HIDE DEF g
<1>4. PICK f \in [0..k -> Nat] : \A i \in 0..k : f[i] = IF i = 0 THEN 0 ELSE g[<<i, f[i - 1]>>]
  <2>1. 0 \in Nat /\ g \in StepsOn(k, Nat)
    BY <1>2 DEF StepsOn
  <2>2. \E f \in [0..k -> Nat] : Unfolds(f, k, 0, g)
    BY <1>1, <2>1, Recursion
  <2>3. QED
    BY <2>2 DEF Unfolds
<1>5. ASSUME NEW i \in 0..k PROVE f[i] = IF i = 0 THEN 0 ELSE f[i - 1] + PacketSize(fs[i], whole)
  <2>1. CASE i = 0
    BY <1>4, <2>1
  <2>2. CASE i # 0
    <3>1. i \in 1..k /\ i - 1 \in 0..k
      BY <2>2
    <3>2. f[i - 1] \in Nat
      BY <1>4, <3>1
    <3>3. QED
      BY <1>3, <1>4, <2>2, <3>1, <3>2
  <2>3. QED
    BY <2>1, <2>2
<1>6. IsSum(f)
  BY <1>4, <1>5
<1>7. IsSum(sum)
  BY <1>6
<1>8. /\ sum[0] = 0
      /\ \A j \in 1..k : sum[j] = sum[j - 1] + PacketSize(fs[j], whole)
  <2> HIDE DEF sum
  <2>1. sum = [j \in 0..k |-> IF j = 0 THEN 0 ELSE sum[j - 1] + PacketSize(fs[j], whole)]
    BY <1>7
  <2>2. \A j \in 0..k : sum[j] = IF j = 0 THEN 0 ELSE sum[j - 1] + PacketSize(fs[j], whole)
    BY <2>1, Zenon
  <2>3. 0 \in 0..k /\ \A j \in 1..k : j \in 0..k /\ j # 0
    BY <1>1
  <2>4. QED
    BY <2>2, <2>3, Zenon
<1> DEFINE S == {j \in 0..k : sum[j] \in Nat}
<1> HIDE DEF sum
<1>9. \A j \in 0..k : j \in S
  <2>1. 0 \in S
    BY <1>1, <1>8
  <2>2. \A j \in 1..k : j - 1 \in S => j \in S
    BY <1>1, <1>8
  <2>3. QED
    BY <1>1, <2>1, <2>2, UpTo
<1>10. Used(fs, whole, k) = sum[k]
  BY DEF Used, sum
<1>11. QED
  BY <1>1, <1>8, <1>9, <1>10

\* The findings kept of a list fit the budget, and a final verdict keeps one.
LEMMA KeptFits ==
  ASSUME NEW fs \in Seq(Findings), NEW whole \in BOOLEAN, NEW budget \in Nat
  PROVE  LET k == Kept(fs, whole, budget) IN
           /\ k \in 0..Len(fs)
           /\ \A j \in 1..k : Used(fs, whole, j) <= budget \/ (whole /\ j = 1)
           /\ whole /\ Len(fs) > 0 => k > 0
<1> DEFINE Fits(j) == Used(fs, whole, j) <= budget \/ (whole /\ j = 1)
           S == {k \in 0..Len(fs) : \A j \in 1..k : Fits(j)}
<1>1. Len(fs) \in Nat
  OBVIOUS
<1>2. 0 \in S
  BY <1>1
<1>3. PICK m \in S : \A q \in S : q <= m
  <2>1. S \in SUBSET (0..Len(fs)) /\ S # {}
    BY <1>2
  <2> HIDE DEF S
  <2>2. QED
    BY <1>1, <2>1, GreatestOf
<1>4. ASSUME m < Len(fs), Fits(m + 1) PROVE FALSE
  <2>1. m + 1 \in 0..Len(fs) /\ \A j \in 1..(m + 1) : j \in 1..m \/ j = m + 1
    BY <1>1, <1>4
  <2>2. \A j \in 1..(m + 1) : Fits(j)
    BY <1>4, <2>1
  <2>3. m + 1 \in S
    BY <2>1, <2>2
  <2>4. QED
    BY <1>1, <1>3, <2>3
<1>5. /\ m \in 0..Len(fs) /\ \A j \in 1..m : Used(fs, whole, j) <= budget \/ (whole /\ j = 1)
      /\ m < Len(fs) => ~(Used(fs, whole, m + 1) <= budget \/ (whole /\ m = 0))
  <2>1. m + 1 = 1 <=> m = 0
    BY <1>1
  <2>2. QED
    BY <1>4, <2>1
<1> DEFINE Right(k) == /\ \A j \in 1..k : Used(fs, whole, j) <= budget \/ (whole /\ j = 1)
                       /\ k < Len(fs) => ~(Used(fs, whole, k + 1) <= budget \/ (whole /\ k = 0))
           c == CHOOSE k \in 0..Len(fs) : Right(k)
<1>6. c \in 0..Len(fs) /\ Right(c)
  BY <1>5
<1>7. Kept(fs, whole, budget) = c
  BY DEF Kept
<1>8. whole /\ Len(fs) > 0 => c > 0
  <2> HIDE DEF c
  <2>1. SUFFICES ASSUME whole, Len(fs) > 0, c = 0 PROVE FALSE
    BY <1>1, <1>6
  <2>2. c < Len(fs)
    BY <2>1
  <2>3. QED
    BY <1>6, <2>1, <2>2
<1>9. QED
  BY <1>6, <1>7, <1>8

\* What the packet holds of one step.
Entries == [kept : Nat, total : Nat, used : Nat]

\* An entry takes no more than is left, and that of a final verdict is not
\* empty.
LEMMA EntryFits ==
  ASSUME NEW fs \in Seq(Findings), NEW whole \in BOOLEAN, NEW left \in Nat
  PROVE  LET e == findings_entry(fs, whole, left) IN
           /\ e \in Entries /\ e.used <= left
           /\ whole /\ e.total > 0 => e.kept > 0
<1> DEFINE budget == IF whole THEN FinalBudget ELSE left
           k == Kept(fs, whole, budget)
<1>1. budget \in Nat
  BY RunRecordAssumption
<1> HIDE DEF budget
<1>2. /\ k \in 0..Len(fs)
      /\ \A j \in 1..k : Used(fs, whole, j) <= budget \/ (whole /\ j = 1)
      /\ whole /\ Len(fs) > 0 => k > 0
  BY <1>1, KeptFits
<1> HIDE DEF k
<1>3. Used(fs, whole, k) \in Nat /\ (k = 0 => Used(fs, whole, k) = 0)
  BY <1>2, UsedNat
<1>4. findings_entry(fs, whole, left) =
        [kept |-> k, total |-> Len(fs), used |-> IF whole THEN 0 ELSE Used(fs, whole, k)]
  BY DEF findings_entry, k, budget
<1>5. ~whole => Used(fs, whole, k) <= left
  <2>1. CASE k = 0
    BY <1>3, <2>1
  <2>2. CASE k # 0
    <3>1. k \in 1..k
      BY <1>2, <2>2
    <3>2. QED
      BY <1>2, <3>1 DEF budget
  <2>3. QED
    BY <2>1, <2>2
<1>6. Len(fs) \in Nat /\ k \in Nat
  BY <1>2
<1>7. QED
  BY <1>2, <1>3, <1>4, <1>5, <1>6 DEF Entries

\* Evaluations of units.
Judged == {r \in EvaluationRows : r.unit # NoUnit}

\* An evaluation holds a list of findings.
LEMMA FindingsSeq == ASSUME NEW r \in EvaluationRows PROVE r.findings \in Seq(Findings)
<1>1. r.findings \in {<<>>} \cup UNION {Reports[u] : u \in Units}
  BY DEF EvaluationRows
<1>2. CASE r.findings = <<>>
  BY <1>2
<1>3. CASE r.findings # <<>>
  <2>1. PICK u \in Units : r.findings \in Reports[u]
    BY <1>1, <1>3
  <2>2. u \in 0..MaxSubtasks
    BY <2>1, RunRecordAssumption DEF Units, Whole, Orders
  <2>3. QED
    BY <2>1, <2>2, SubtasksAssumption
<1>4. QED
  BY <1>2, <1>3

\* The rows the packet is made of are evaluations of units.
LEMMA PacketSeq ==
  ASSUME NEW es \in Seq(EvaluationRows),
         \A i \in DOMAIN es : es[i].verdict = "reset" <=> es[i].unit = NoUnit
  PROVE  PacketRows(es) \in Seq(Judged)
<1> DEFINE n == Len(es)
           V == Seq(Judged)
           G(i, v) == IF es[i].live /\ es[i].verdict # "reset" THEN Append(v, es[i]) ELSE v
           g == [p \in (1..n) \X V |-> G(p[1], p[2])]
           IsKept(f) == f = [i \in 0..Len(es) |->
                               IF i = 0 THEN <<>>
                               ELSE IF es[i].live /\ es[i].verdict # "reset"
                                    THEN Append(f[i - 1], es[i]) ELSE f[i - 1]]
           kept == CHOOSE f : IsKept(f)
<1>1. n \in Nat /\ <<>> \in V /\ \A i \in 1..n : i \in DOMAIN es
  OBVIOUS
<1>2. ASSUME NEW i \in 1..n, NEW v \in V PROVE G(i, v) \in V
  <2>1. CASE es[i].live /\ es[i].verdict # "reset"
    <3>1. es[i] \in Judged
      BY <1>1, <2>1 DEF Judged
    <3>2. QED
      BY <2>1, <3>1
  <2>2. CASE ~(es[i].live /\ es[i].verdict # "reset")
    BY <2>2
  <2>3. QED
    BY <2>1, <2>2
<1>3. g \in StepsOn(n, V)
  <2> HIDE DEF G, V
  <2>1. QED
    BY <1>2 DEF StepsOn
<1>4. \A i \in 1..n : \A v \in V : g[<<i, v>>] = G(i, v)
  OBVIOUS
<1> HIDE DEF g, V
<1>5. PICK f \in [0..n -> V] : Unfolds(f, n, <<>>, g)
  BY <1>1, <1>3, Recursion
<1>6. ASSUME NEW i \in 0..n PROVE f[i] = IF i = 0 THEN <<>> ELSE G(i, f[i - 1])
  <2>1. CASE i = 0
    BY <1>5, <2>1 DEF Unfolds
  <2>2. CASE i # 0
    <3>1. i \in 1..n /\ i - 1 \in 0..n
      BY <1>1, <2>2
    <3>2. f[i - 1] \in V
      BY <1>5, <3>1
    <3> HIDE DEF G
    <3>3. QED
      BY <1>4, <1>5, <2>2, <3>1, <3>2 DEF Unfolds
  <2>3. QED
    BY <2>1, <2>2
<1>7. IsKept(f)
  BY <1>5, <1>6
<1>8. IsKept(kept)
  BY <1>7
<1> HIDE DEF kept
<1>9. \A i \in 0..n : kept[i] = IF i = 0 THEN <<>> ELSE G(i, kept[i - 1])
  BY <1>8
<1> DEFINE S == {i \in 0..n : kept[i] \in V}
<1>10. \A j \in 0..n : j \in S
  <2>1. 0 \in 0..n /\ \A j \in 1..n : j \in 0..n /\ j # 0
    BY <1>1
  <2> HIDE DEF G, IsKept
  <2>2. 0 \in S
    BY <1>1, <1>9, <2>1
  <2>3. ASSUME NEW j \in 1..n, j - 1 \in S PROVE j \in S
    BY <1>2, <1>9, <2>1, <2>3
  <2> HIDE DEF S
  <2>4. QED
    BY <1>1, <2>2, <2>3, UpTo
<1>11. PacketRows(es) = kept[n]
  BY DEF PacketRows, kept
<1>12. QED
  BY <1>1, <1>10, <1>11 DEF V

\* The entry of step i of a run when the packet has b characters left.
EntryOf(run, i, b) ==
  findings_entry(run[i].findings, i \in FinalRows(run),
                 IF b < SupersededBudget THEN b ELSE SupersededBudget)

\* It takes no more than is left, and a final verdict's is not empty.
LEMMA EntryOfFits ==
  ASSUME NEW run \in Seq(Judged), NEW i \in 1..Len(run), NEW b \in Nat
  PROVE  /\ EntryOf(run, i, b) \in Entries /\ EntryOf(run, i, b).used <= b
         /\ i \in FinalRows(run) /\ EntryOf(run, i, b).total > 0 => EntryOf(run, i, b).kept > 0
<1> DEFINE c == IF b < SupersededBudget THEN b ELSE SupersededBudget
           whole == i \in FinalRows(run)
<1>1. c \in Nat /\ c <= b
  BY RunRecordAssumption
<1>2. run[i] \in EvaluationRows
  BY DEF Judged
<1>3. run[i].findings \in Seq(Findings) /\ whole \in BOOLEAN
  BY <1>2, FindingsSeq
<1>4. EntryOf(run, i, b) = findings_entry(run[i].findings, whole, c)
  BY DEF EntryOf
<1> HIDE DEF c, whole
<1>5. /\ EntryOf(run, i, b) \in Entries /\ EntryOf(run, i, b).used <= c
      /\ whole /\ EntryOf(run, i, b).total > 0 => EntryOf(run, i, b).kept > 0
  BY <1>1, <1>3, <1>4, EntryFits
<1>6. EntryOf(run, i, b).used \in Nat
  BY <1>5 DEF Entries
<1>7. QED
  BY <1>1, <1>5, <1>6 DEF whole

\* What the walk over the steps has built, and what the packet has left.
Walks == [entries : Seq(Entries), left : 0..PacketBudget]

\* The entries of the packet, one per row, with what is left before each.
LEMMA Walk ==
  ASSUME NEW es, PacketRows(es) \in Seq(Judged)
  PROVE  LET run == PacketRows(es)
             n == Len(run)
         IN  \E w \in [0..n -> 0..PacketBudget] :
               /\ w[0] = PacketBudget /\ steps(es) \in Seq(Entries) /\ Len(steps(es)) = n
               /\ \A j \in 1..n : /\ steps(es)[j] = EntryOf(run, j, w[j - 1])
                                  /\ w[j] = w[j - 1] - steps(es)[j].used
<1> DEFINE run == PacketRows(es)
           n == Len(run)
           first == [entries |-> <<>>, left |-> PacketBudget]
           G(i, v) == [entries |-> Append(v.entries, EntryOf(run, i, v.left)),
                       left |-> v.left - EntryOf(run, i, v.left).used]
           g == [p \in (1..n) \X Walks |-> G(p[1], p[2])]
           IsWalk(f) == f = [i \in 0..Len(run) |->
             IF i = 0 THEN [entries |-> <<>>, left |-> PacketBudget]
             ELSE LET before == f[i - 1]
                      left == IF before.left < SupersededBudget THEN before.left
                              ELSE SupersededBudget
                      e == findings_entry(run[i].findings, i \in FinalRows(run), left)
                  IN  [entries |-> Append(before.entries, e), left |-> before.left - e.used]]
           walk == CHOOSE f : IsWalk(f)
<1>1. steps(es) = walk[n].entries
  BY DEF steps
<1> DEFINE Next_(f) == [i \in 0..n |-> IF i = 0 THEN first ELSE G(i, f[i - 1])]
<1>2. ASSUME NEW f PROVE IsWalk(f) <=> f = Next_(f)
  BY DEF EntryOf
<1>3. run \in Seq(Judged)
  OBVIOUS
<1> HIDE DEF run, IsWalk
<1>4. n \in Nat /\ PacketBudget \in Nat
  BY <1>3, RunRecordAssumption
<1>5. first \in Walks
  BY <1>4 DEF Walks
<1>6. ASSUME NEW i \in 1..n, NEW v \in Walks PROVE G(i, v) \in Walks
  <2>1. v.left \in Nat /\ v.left <= PacketBudget /\ v.entries \in Seq(Entries)
    BY <1>4 DEF Walks
  <2>2. EntryOf(run, i, v.left) \in Entries /\ EntryOf(run, i, v.left).used <= v.left
    BY <1>3, <2>1, EntryOfFits
  <2>3. EntryOf(run, i, v.left).used \in Nat
    BY <2>2 DEF Entries
  <2>4. v.left - EntryOf(run, i, v.left).used \in 0..PacketBudget
    BY <1>4, <2>1, <2>2, <2>3
  <2>5. Append(v.entries, EntryOf(run, i, v.left)) \in Seq(Entries)
    BY <2>1, <2>2
  <2>6. QED
    BY <2>4, <2>5 DEF Walks
<1>7. g \in StepsOn(n, Walks)
  <2> HIDE DEF G
  <2>1. QED
    BY <1>6 DEF StepsOn
<1>8. \A i \in 1..n : \A v \in Walks : g[<<i, v>>] = G(i, v)
  OBVIOUS
<1> HIDE DEF g, first
<1>9. PICK f \in [0..n -> Walks] : Unfolds(f, n, first, g)
  BY <1>4, <1>5, <1>7, Recursion
<1>10. ASSUME NEW i \in 0..n PROVE f[i] = IF i = 0 THEN first ELSE G(i, f[i - 1])
  <2>1. CASE i = 0
    BY <1>9, <2>1 DEF Unfolds
  <2>2. CASE i # 0
    <3>1. i \in 1..n /\ i - 1 \in 0..n
      BY <1>4, <2>2
    <3>2. f[i - 1] \in Walks
      BY <1>9, <3>1
    <3> HIDE DEF G
    <3>3. QED
      BY <1>8, <1>9, <2>2, <3>1, <3>2 DEF Unfolds
  <2>3. QED
    BY <2>1, <2>2
<1>11. walk = Next_(walk)
  <2>1. f = Next_(f)
    <3> HIDE DEF G
    <3>1. QED
      BY <1>9, <1>10
  <2>2. IsWalk(walk)
    BY <1>2, <2>1
  <2> HIDE DEF walk, Next_
  <2>3. QED
    BY <1>2, <2>2
<1> HIDE DEF walk
<1>12. walk[0] = first /\ \A i \in 1..n : walk[i] = G(i, walk[i - 1])
  <2>1. 0 \in 0..n /\ \A i \in 1..n : i \in 0..n /\ i # 0
    BY <1>4
  <2> HIDE DEF G
  <2>2. \A i \in 0..n : walk[i] = IF i = 0 THEN first ELSE G(i, walk[i - 1])
    BY <1>11
  <2>3. QED
    BY <2>1, <2>2
<1> DEFINE S == {i \in 0..n : /\ walk[i] \in Walks /\ Len(walk[i].entries) = i
                              /\ \A j \in 1..i :
                                   walk[i].entries[j] = EntryOf(run, j, walk[j - 1].left)}
<1>13. \A i \in 0..n : i \in S
  <2>1. 0 \in S
    BY <1>4, <1>5, <1>12 DEF first
  <2>2. ASSUME NEW i \in 1..n, i - 1 \in S PROVE i \in S
    <3> DEFINE v == walk[i - 1]
               e == EntryOf(run, i, v.left)
    <3>1. /\ v \in Walks /\ Len(v.entries) = i - 1
          /\ \A j \in 1..(i - 1) : v.entries[j] = EntryOf(run, j, walk[j - 1].left)
      BY <2>2
    <3>2. walk[i] = G(i, v)
      BY <1>12
    <3>3. walk[i] \in Walks
      BY <1>6, <3>1, <3>2
    <3>4. walk[i].entries = Append(v.entries, e)
      BY <3>2
    <3>5. v.entries \in Seq(Entries)
      BY <3>1 DEF Walks
    <3>6. i \in Nat /\ i \in 0..n /\ \A j \in 1..i : j = i \/ j \in 1..(i - 1)
      BY <1>4
    <3> HIDE DEF v, e
    <3>7. Len(walk[i].entries) = i
      BY <3>1, <3>4, <3>5, <3>6
    <3>8. walk[i].entries[i] = e
      BY <3>1, <3>4, <3>5, <3>6
    <3>9. \A j \in 1..(i - 1) : walk[i].entries[j] = v.entries[j]
      BY <3>1, <3>4, <3>5, <3>6
    <3>10. \A j \in 1..i : walk[i].entries[j] = EntryOf(run, j, walk[j - 1].left)
      BY <3>1, <3>6, <3>8, <3>9 DEF e, v
    <3>11. QED
      BY <3>3, <3>6, <3>7, <3>10
  <2> HIDE DEF S
  <2>3. QED
    BY <1>4, <2>1, <2>2, UpTo
<1> DEFINE w == [i \in 0..n |-> walk[i].left]
<1>14. \A i \in 0..n : walk[i] \in Walks /\ w[i] = walk[i].left
  BY <1>13
<1>15. w \in [0..n -> 0..PacketBudget]
  BY <1>14 DEF Walks
<1>16. n \in 0..n /\ 0 \in 0..n /\ \A j \in 1..n : j \in 0..n /\ j - 1 \in 0..n
  BY <1>4
<1>17. w[0] = PacketBudget
  BY <1>12, <1>14, <1>16 DEF first
<1>18. steps(es) \in Seq(Entries) /\ Len(steps(es)) = n
  BY <1>1, <1>13, <1>16 DEF Walks
<1>19. \A j \in 1..n : steps(es)[j] = EntryOf(run, j, w[j - 1])
  BY <1>1, <1>13, <1>14, <1>16
<1>20. \A j \in 1..n : w[j] = w[j - 1] - EntryOf(run, j, w[j - 1]).used
  <2>1. TAKE j \in 1..n
  <2>2. walk[j] = G(j, walk[j - 1])
    BY <1>12
  <2>3. walk[j].left = walk[j - 1].left - EntryOf(run, j, walk[j - 1].left).used
    BY <2>2
  <2>4. w[j] = walk[j].left /\ w[j - 1] = walk[j - 1].left
    BY <1>14, <1>16
  <2> HIDE DEF w, G
  <2>5. QED
    BY <2>3, <2>4
<1> HIDE DEF w, n
<1>21. \A j \in 1..n : w[j] = w[j - 1] - steps(es)[j].used
  BY <1>19, <1>20
<1>22. QED
  BY <1>15, <1>17, <1>18, <1>19, <1>21 DEF run, n

\* The packet of any recorded run keeps to its budgets.
LEMMA PacketKept ==
  ASSUME CloseTypeOK, EvalInv PROVE FinalFindingsInPacket
<1> DEFINE run == PacketRows(evals)
           s == steps(evals)
           n == Len(run)
           IsSpent(f) == f = [i \in 0..Len(s) |-> IF i = 0 THEN 0 ELSE f[i - 1] + s[i].used]
           spent == CHOOSE f : IsSpent(f)
<1>1. evals \in Seq(EvaluationRows)
  BY DEF CloseTypeOK, TableTypes
<1>2. run \in Seq(Judged)
  BY <1>1, PacketSeq DEF EvalInv
<1>3. PICK w \in [0..n -> 0..PacketBudget] :
         /\ w[0] = PacketBudget /\ s \in Seq(Entries) /\ Len(s) = n
         /\ \A j \in 1..n : s[j] = EntryOf(run, j, w[j - 1]) /\ w[j] = w[j - 1] - s[j].used
  BY <1>2, Walk
<1>4. FinalFindingsInPacket <=>
        (phase = "finalize" =>
          /\ \A i \in DOMAIN run :
               (\A j \in DOMAIN run : run[j].unit = run[i].unit => j <= i) /\ s[i].total > 0
                 => s[i].kept > 0
          /\ spent[Len(s)] <= PacketBudget)
  BY DEF FinalFindingsInPacket
<1> HIDE DEF run, s
<1>5. n \in Nat /\ PacketBudget \in Nat
  BY <1>2, RunRecordAssumption
<1>6. /\ \A i \in 0..n : w[i] \in Nat
      /\ \A j \in 1..n : j - 1 \in 0..n /\ s[j].used \in Nat /\ j \in 0..n /\ j # 0
      /\ 0 \in 0..n /\ n \in 0..n
  <2>1. \A i \in 0..n : w[i] \in 0..PacketBudget
    BY <1>3
  <2>2. \A j \in 1..n : s[j] \in Entries
    BY <1>3, <1>5
  <2> HIDE DEF n
  <2>3. QED
    BY <1>5, <2>1, <2>2 DEF Entries
<1> DEFINE f == [i \in 0..n |-> PacketBudget - w[i]]
<1>7. ASSUME NEW i \in 0..n PROVE f[i] = IF i = 0 THEN 0 ELSE f[i - 1] + s[i].used
  <2>1. CASE i = 0
    BY <1>3, <1>5, <1>6, <2>1
  <2>2. CASE i # 0
    <3>1. i \in 1..n
      BY <1>5, <2>2
    <3>2. w[i] = w[i - 1] - s[i].used
      BY <1>3, <3>1
    <3>3. f[i - 1] = PacketBudget - w[i - 1] /\ f[i] = PacketBudget - w[i]
      BY <1>6, <3>1
    <3>4. w[i - 1] \in Nat /\ s[i].used \in Nat
      BY <1>6, <3>1
    <3> HIDE DEF f
    <3>5. QED
      BY <1>5, <2>2, <3>2, <3>3, <3>4
  <2>3. QED
    BY <2>1, <2>2
<1>8. DOMAIN f = 0..n /\ f = [i \in 0..n |-> f[i]]
  OBVIOUS
<1> HIDE DEF f
<1>9. IsSpent(f)
  BY <1>3, <1>7, <1>8
<1>10. IsSpent(spent)
  BY <1>9
<1> HIDE DEF spent
<1>11. spent[0] = 0 /\ \A i \in 1..n : spent[i] = spent[i - 1] + s[i].used
  <2>1. \A i \in 0..n : spent[i] = IF i = 0 THEN 0 ELSE spent[i - 1] + s[i].used
    BY <1>3, <1>10, Zenon
  <2>2. QED
    BY <1>6, <2>1, Zenon
<1> DEFINE S == {i \in 0..n : spent[i] = PacketBudget - w[i]}
<1>12. \A i \in 0..n : i \in S
  <2>1. 0 \in S
    BY <1>3, <1>5, <1>6, <1>11
  <2>2. ASSUME NEW i \in 1..n, i - 1 \in S PROVE i \in S
    <3>1. spent[i - 1] = PacketBudget - w[i - 1] /\ spent[i] = spent[i - 1] + s[i].used
      BY <1>11, <2>2
    <3>2. w[i] = w[i - 1] - s[i].used /\ w[i - 1] \in Nat /\ s[i].used \in Nat /\ i \in 0..n
      BY <1>3, <1>6
    <3>3. spent[i] = PacketBudget - w[i]
      BY <1>5, <3>1, <3>2
    <3>4. QED
      BY <3>2, <3>3
  <2> HIDE DEF S
  <2>3. QED
    BY <1>5, <2>1, <2>2, UpTo
<1>13. spent[Len(s)] <= PacketBudget
  <2>1. spent[n] = PacketBudget - w[n]
    BY <1>6, <1>12
  <2>2. QED
    BY <1>3, <1>5, <1>6, <2>1
<1>14. ASSUME NEW i \in DOMAIN run,
              \A j \in DOMAIN run : run[j].unit = run[i].unit => j <= i,
              s[i].total > 0
       PROVE  s[i].kept > 0
  <2>1. i \in 1..n /\ run[i] \in Judged
    BY <1>2
  <2>2. run[i].unit # NoUnit
    BY <2>1 DEF Judged
  <2>3. i \in FinalRows(run)
    BY <1>14, <2>2 DEF FinalRows, RowsOf, IsLast
  <2>4. w[i - 1] \in Nat /\ s[i] = EntryOf(run, i, w[i - 1])
    BY <1>3, <1>6, <2>1
  <2>5. QED
    BY <1>2, <1>14, <2>1, <2>3, <2>4, EntryOfFits
<1>15. QED
  BY <1>4, <1>13, <1>14

-----------------------------------------------------------------------------
\* A task that has not begun satisfies the invariant.
LEMMA CloseInitInv == ASSUME CloseInit PROVE CloseInvariant
<1>a. USE RunRecordAssumption, SubtasksAssumption, CloseOutAssumption
<1>1. /\ task = [accepted |-> FALSE, count |-> 0, active |-> 0, completed |-> 0]
      /\ rows = [o \in Orders |-> NoRow] /\ index = [o \in Orders |-> NoRow]
      /\ op = [o \in Orders |-> 0] /\ commits = <<{}>> /\ tree = {} /\ sha = 0
      /\ ckpt = [node |-> "none", fix |-> 0] /\ evals = <<>>
      /\ unit = Whole /\ plan = Single /\ fix = 0 /\ committed = {} /\ handed = {}
      /\ authored \in Authored \cup {NoPlan} /\ disabled \in BOOLEAN /\ crashes = 0
      /\ operator = (authored # NoPlan) /\ todo = authored
      /\ phase = IF authored # NoPlan THEN "persist" ELSE "begin"
  BY DEF CloseInit, SubInit
<1>2. /\ clean_summary = "none" /\ follow_ups = {} /\ degraded = FALSE /\ final = "done"
      /\ summary_json = "absent" /\ summary_md = NoBody /\ file = <<>> /\ body = NoBody
      /\ reruns = 0
  BY DEF CloseInit
<1>3. CommittedRows = {} /\ Planned = {} /\ Pre
  BY <1>1 DEF CommittedRows, Planned, NoRow, Pre
<1>4. \/ phase = "persist" /\ authored # NoPlan /\ authored \in Authored
      \/ phase = "begin" /\ authored = NoPlan
  BY <1>1
<1>5. 0 \in Units /\ NoRow \in [plan : DOMAIN Plans \cup {NoPlan}, sha : Nat]
  BY DEF Units, Whole, NoRow
<1>6. TableTypes
  <2>1. rows \in Table /\ index \in Table /\ op \in [Orders -> Nat]
    BY <1>1, <1>5 DEF Table
  <2>2. evals \in Seq(EvaluationRows)
    BY <1>1
  <2>3. ckpt \in [node : {"none", "planning", "implement", "review", "publish"}, fix : 0..MaxFix]
    BY <1>1
  <2>4. QED
    BY <1>1, <1>5, <2>1, <2>2, <2>3 DEF TableTypes
<1>7. BranchTypes
  BY <1>1 DEF BranchTypes
<1>8. RunTypes
  <2>1. plan \in [accepted : BOOLEAN, units : SUBSET Orders]
    BY <1>1, SingleTyped
  <2>2. todo \in DOMAIN Plans \cup {NoPlan} /\ operator \in BOOLEAN
    BY <1>1
  <2>3. crashes \in 0..MaxCrashes /\ reruns \in 0..MaxReruns /\ fix \in 0..MaxFix
    BY <1>1, <1>2
  <2>4. unit \in Units /\ committed \subseteq Orders /\ handed \subseteq Orders
    BY <1>1, <1>5 DEF Whole
  <2>5. QED
    BY <2>1, <2>2, <2>3, <2>4 DEF RunTypes
<1>9. TurnTypes
  <2>1. NoBody \in Bodies
    BY DEF NoBody, Bodies
  <2>2. file \in Seq(SUBSET Items)
    BY <1>2
  <2>3. QED
    BY <1>2, <2>1, <2>2 DEF TurnTypes
<1>10. CloseTypeOK
  BY <1>6, <1>7, <1>8, <1>9 DEF CloseTypeOK
<1>11. PhaseInv
  BY <1>1, <1>2, <1>3, <1>4 DEF PhaseInv, Phases, PrePhases, LoopPhases, ReportPhases, Closing,
     DonePhases
<1>12. MemInv
  BY <1>1, <1>4 DEF MemInv, LoopPhases, Single
<1>13. EarlyInv
  BY <1>1, <1>3 DEF EarlyInv
<1>14. RowsInv
  BY <1>1, <1>3, <1>4 DEF RowsInv
<1>15. UnitInv
  BY <1>1, <1>4 DEF UnitInv, UnitPhases
<1>16. BranchInv
  <2>1. Tip = 1 /\ Tracked(Tip) /\ DOMAIN commits = 1..1 /\ commits[1] = {}
    BY <1>1 DEF Tip, Tracked
  <2>2. BranchShape
    BY <1>1, <2>1 DEF BranchShape, Tip
  <2>3. RecordedWork /\ HiddenWork /\ TreeWork /\ TipWork
    BY <1>1, <2>1 DEF RecordedWork, HiddenWork, Hidden, TreeWork, TipWork
  <2>4. ShaKnown
    BY <1>3, <1>4 DEF ShaKnown
  <2>5. QED
    BY <2>2, <2>3, <2>4 DEF BranchInv
<1>17. DOMAIN evals = {}
  BY <1>1
<1>18. EvalInv
  BY <1>3, <1>4, <1>17 DEF EvalInv, CommittedAccepted
<1>19. BudgetInv
  <2>1. ASSUME NEW us PROVE Reworks(us) = 0
    <3>1. {i \in DOMAIN evals : evals[i].unit \in us /\ InForce(evals, i)} = {}
      BY <1>17
    <3>2. QED
      BY <3>1, FS_EmptySet DEF Reworks
  <2>2. Due = 0
    BY <1>4 DEF Due
  <2>3. RoundsPaid
    BY <1>1, <2>1, <2>2 DEF RoundsPaid
  <2>4. FreshBudget
    BY <1>1, <1>4 DEF FreshBudget, LoopPhases
  <2>5. QED
    BY <2>3, <2>4 DEF BudgetInv
<1>20. FirstInv
  BY <1>1, <1>3, <1>4 DEF FirstInv, Settled
<1>21. TurnInv
  BY <1>2, <1>4 DEF TurnInv, ReportPhases
<1>22. BodyInv
  BY <1>2 DEF BodyInv, Fin, NoBody
<1>23. SeenInv
  <2>1. Missed = {}
    BY <1>17 DEF Missed
  <2>2. QED
    BY <1>1, <2>1, FS_EmptySet DEF SeenInv
<1>24. QED
  BY <1>10, <1>11, <1>12, <1>13, <1>14, <1>15, <1>16, <1>18, <1>19, <1>20, <1>21, <1>22, <1>23
     DEF CloseInvariant

\* Every step keeps it.
LEMMA CloseInductive == ASSUME CloseInvariant, [CloseNext]_allVars PROVE CloseInvariant'
<1>1. CloseTypeOK'
  BY TableStep, BranchTypeStep, RunTypeStep, TurnTypeStep DEF CloseTypeOK
<1>2. QED
  BY <1>1, PhaseStep, MemStep, EarlyStep, RowsStep, UnitStep, BranchStep, EvalStep, BudgetStep,
     FirstStep, TurnStep, BodyStep, SeenStep DEF CloseInvariant

\* So it always holds.
LEMMA CloseAlways == CloseSpec => []CloseInvariant
<1>1. CloseInit => CloseInvariant
  BY CloseInitInv
<1>2. CloseInvariant /\ [CloseNext]_allVars => CloseInvariant'
  BY CloseInductive
<1>3. QED
  BY <1>1, <1>2, PTL DEF CloseSpec

-----------------------------------------------------------------------------
\* The unit at hand comes after those of its plan that are committed, and was
\* told of each.
LEMMA LandedKnown == ASSUME CloseInvariant PROVE PredecessorsLanded
<1>1. SUFFICES ASSUME InRegion, unit # Whole
      PROVE  /\ unit \notin CommittedRows
             /\ \A v \in plan.units : v < unit => v \in CommittedRows
             /\ handed = {v \in plan.units : v < unit}
  BY DEF PredecessorsLanded
<1>2. phase \in UnitPhases
  BY <1>1 DEF InRegion, UnitPhases
<1>3. task.accepted
  <2>1. task.accepted \in BOOLEAN
    BY DEF CloseInvariant, CloseTypeOK, TableTypes
  <2>2. phase \in LoopPhases \/ phase \in {"enter", "commit", "op", "index", "row"}
    BY <1>2 DEF UnitPhases, LoopPhases
  <2>3. QED
    BY <1>1, <2>1, <2>2 DEF CloseInvariant, MemInv
<1>4. /\ unit \in plan.units /\ unit \in Orders /\ unit \notin CommittedRows
  <2>1. phase # "count"
    BY <1>2 DEF UnitPhases
  <2>2. QED
    BY <1>2, <1>3, <2>1, UnitNext
<1>5. /\ plan.units \cap committed = plan.units \cap CommittedRows
      /\ \A v \in Left : unit <= v
      /\ handed = Landed(unit)
  BY <1>2, <1>3 DEF CloseInvariant, UnitInv
<1>6. plan.units \subseteq Orders /\ Orders \subseteq Nat
  BY RunRecordAssumption DEF CloseInvariant, CloseTypeOK, RunTypes, Orders
<1>7. ASSUME NEW v \in plan.units, v < unit PROVE v \in CommittedRows
  <2>1. v \notin Left
    <3>1. unit \in Nat /\ v \in Nat
      BY <1>4, <1>6
    <3>2. ~(unit <= v)
      BY <1>7, <3>1
    <3>3. QED
      BY <1>5, <3>2
  <2>2. QED
    BY <1>5, <1>7, <2>1 DEF Left
<1>8. QED
  BY <1>4, <1>5, <1>7 DEF Landed

\* A unit's commit is that of an operation, which holds the unit's own work.
LEMMA WorkOwned == ASSUME CloseInvariant PROVE WorkInOwnCommit
<1>1. SUFFICES ASSUME NEW u \in CommittedRows, NEW w \in commits[rows[u].sha]
      PROVE  w.unit = u \/ op[w.unit] = rows[u].sha \/ Late(w, rows[u].sha)
  BY DEF WorkInOwnCommit
<1>2. Tracked(rows[u].sha) /\ commits[1] = {} /\ RecordedWork
  BY DEF CloseInvariant, BranchInv, ShaKnown, BranchShape
<1>3. PICK o \in Orders : op[o] = rows[u].sha
  BY <1>1, <1>2 DEF Tracked
<1>4. op[o] # 0
  BY <1>3 DEF CommittedRows
<1>5. QED
  BY <1>1, <1>2, <1>3, <1>4 DEF RecordedWork

\* The index and the branch know the sha of a committed row.
LEMMA IndexKnown == ASSUME CloseInvariant PROVE IndexAgrees
BY DEF CloseInvariant, RowsInv, BranchInv, ShaKnown, IndexAgrees, Tip

\* A unit is parked on rounds its reviews asked for.
LEMMA BudgetCharged == ASSUME CloseInvariant PROVE BudgetOwn
<1>1. SUFFICES ASSUME phase = "stuck"
      PROVE  Reworks({unit}) > MaxFix \/ (crashes > 0 /\ Reworks(0..unit) > MaxFix)
  BY DEF BudgetOwn
<1>2. fix >= MaxFix /\ Due = 1
  BY <1>1 DEF CloseInvariant, PhaseInv, EvalInv, Due
<1>3. fix \in Nat /\ MaxFix \in Nat /\ task.accepted \in BOOLEAN /\ crashes \in Nat
  BY SubtasksAssumption DEF CloseInvariant, CloseTypeOK, RunTypes, TableTypes
<1>4. \A us : Reworks(us) \in Nat
  BY ChargedFinite
<1>5. RoundsPaid /\ FreshBudget
  BY DEF CloseInvariant, BudgetInv
<1>6. CASE ~task.accepted
  <2>1. unit = Whole
    BY <1>1, <1>6 DEF CloseInvariant, MemInv, LoopPhases
  <2>2. fix + 1 <= Reworks({unit})
    BY <1>2, <1>5, <1>6, <2>1 DEF RoundsPaid
  <2>3. QED
    BY <1>2, <1>3, <1>4, <2>2
<1>7. CASE task.accepted /\ crashes = 0
  <2>1. fix + 1 <= Reworks({unit})
    BY <1>1, <1>2, <1>5, <1>7 DEF FreshBudget, LoopPhases
  <2>2. QED
    BY <1>2, <1>3, <1>4, <2>1
<1>8. CASE task.accepted /\ crashes # 0
  <2>1. IsNext(unit) /\ unit \in Orders
    BY <1>1, <1>8, UnitIsNext, UnitTyped
  <2>2. fix + 1 <= Reworks(0..unit)
    BY <1>2, <1>5, <1>8, <2>1 DEF RoundsPaid
  <2>3. QED
    BY <1>2, <1>3, <1>4, <1>8, <2>2
<1>9. QED
  BY <1>3, <1>6, <1>7, <1>8

\* Behind planning the decision is written whole, or a crash left none of it.
LEMMA SettledThen ==
  ASSUME CloseInvariant, task.accepted, ~Pre PROVE Persisted \/ Unwritten
BY DEF CloseInvariant, RowsInv, Settled

\* The operator's split is the one run.
LEMMA OperatorKept == ASSUME CloseInvariant PROVE OperatorSplitStands
<1>1. SUFFICES ASSUME authored # NoPlan, InRegion, ~(crashes > 0)
      PROVE  plan.units = 1..Len(Plans[authored]) /\ \A o \in plan.units : rows[o].plan = authored
  BY DEF OperatorSplitStands
<1>2. crashes = 0
  BY <1>1 DEF CloseInvariant, CloseTypeOK, RunTypes
<1>3. ~Pre /\ phase # "down"
  BY <1>1 DEF CloseInvariant, PhaseInv, InRegion, PrePhases
<1>4. Settled
  BY <1>3 DEF Settled
<1>5. /\ task.accepted /\ task.count = Len(Plans[authored]) /\ Planned = 1..task.count
      /\ \A o \in Planned : rows[o].plan = authored
  BY <1>1, <1>2, <1>4 DEF CloseInvariant, FirstInv
<1>6. Persisted
  BY <1>2, <1>3, <1>5, SettledThen DEF Unwritten
<1>7. Planned # {}
  <2>1. 1 \in 1..task.count
    BY <1>6 DEF Persisted
  <2>2. QED
    BY <1>5, <2>1
<1>8. plan.units = Planned
  BY <1>3, <1>5, <1>7, ListedUnits
<1>9. QED
  BY <1>5, <1>8

\* What is published is the whole split.
LEMMA WholePublished == ASSUME CloseInvariant PROVE PublishedWhole
<1>1. SUFFICES ASSUME phase = "published", task.accepted
      PROVE  \/ CommittedRows = 1..task.count
             \/ crashes > 0 /\ disabled /\ \A o \in Orders : rows[o] = NoRow
  BY DEF PublishedWhole
<1>2. ~Pre /\ Closing
  BY <1>1 DEF CloseInvariant, PhaseInv, PrePhases, Closing, DonePhases
<1>3. plan.units \subseteq CommittedRows
  BY <1>1, <1>2 DEF CloseInvariant, UnitInv
<1>4. /\ \A u \in CommittedRows : u <= task.count
      /\ 1..task.count \subseteq plan.units \/ Planned = {}
  BY <1>1, <1>2, ListedUnits
<1>5. CommittedRows \subseteq Orders /\ Orders = 1..MaxSubtasks /\ task.count \in Nat
  BY RunRecordAssumption DEF CommittedRows, Orders, CloseInvariant, CloseTypeOK, TableTypes, Units,
     Whole
<1>6. CASE 1..task.count \subseteq plan.units
  <2>1. \A u \in CommittedRows : u \in 1..task.count
    BY <1>4, <1>5, RunRecordAssumption
  <2>2. QED
    BY <1>3, <1>6, <2>1
<1>7. CASE Planned = {}
  <2>1. ~Persisted
    <3>1. Persisted => 1 \in 1..task.count
      BY DEF Persisted
    <3>2. QED
      BY <1>7, <3>1 DEF Persisted
  <2>2. Unwritten
    BY <1>1, <1>2, <2>1, SettledThen
  <2>3. QED
    BY <1>7, <2>2 DEF Unwritten, Planned
<1>8. QED
  BY <1>4, <1>6, <1>7

\* A fresh rerun is counted.
LEMMA FreshCounts == ASSUME CloseInvariant, RerunFresh PROVE reruns' > reruns
BY DEF RerunFresh, cmd_rerun, CloseInvariant, CloseTypeOK, RunTypes

\* Nothing but a fresh rerun takes a committed row away or changes it.
LEMMA CommittedStay ==
  ASSUME CloseInvariant, [CloseNext]_allVars, NEW u \in CommittedRows
  PROVE  rows'[u] = rows[u] \/ reruns' > reruns
<1>1. CASE Pre
  BY <1>1 DEF CloseInvariant, EarlyInv
<1>2. CASE RerunFresh
  BY <1>2, FreshCounts
<1>3. CASE ~Pre /\ ~RerunFresh
  BY <1>3, RowsKept
<1>4. QED
  BY <1>1, <1>2, <1>3

\* The supervisor is shown each deviation but for those of crashes.
LEMMA DeviationsKnown == ASSUME CloseInvariant PROVE DeviationsSeen
BY DEF CloseInvariant, SeenInv, Missed, Deviating, DeviationsSeen

\* A published body that is not stale was written from what the reviews left open.
LEMMA BodyOpen ==
  ASSUME CloseInvariant, phase = "published", ~Stale
  PROVE  AllOpen(body.items) /\ (body.by = "report" => body.degraded)
<1>1. body = summary_md /\ summary_md # NoBody
  BY DEF CloseInvariant, TurnInv
<1>2. summary_md \in Bodies
  BY DEF CloseInvariant, CloseTypeOK, TurnTypes
<1>3. ~Pre /\ Closing
  BY DEF CloseInvariant, PhaseInv, PrePhases, Closing, DonePhases
<1>4. summary_md.by \in {"synthesis", "report"}
  BY <1>1, <1>2 DEF Bodies, CloseInvariant, BodyInv
<1>5. summary_md.by = "report" => summary_md.degraded
  <2>1. SUFFICES ASSUME summary_md.by = "report", ~summary_md.degraded PROVE FALSE
    BY <1>2 DEF Bodies
  <2>2. reruns + crashes > 0
    BY <2>1 DEF CloseInvariant, BodyInv
  <2>3. QED
    BY <1>1, <2>1, <2>2 DEF Stale
<1>6. Fin
  BY <1>4, <1>5 DEF Fin
<1>7. ~Doomed
  <2>1. SUFFICES ASSUME task.accepted, NEW o \in Planned, o > task.count, o \in plan.units
        PROVE  FALSE
    BY DEF Doomed
  <2>2. o \in CommittedRows
    BY <1>3, <2>1 DEF CloseInvariant, UnitInv
  <2>3. o <= task.count
    BY <1>3, <2>1, <2>2, ListedUnits
  <2>4. o \in Nat /\ task.count \in Nat
    BY RunRecordAssumption DEF Planned, Orders, CloseInvariant, CloseTypeOK, TableTypes, Units, Whole
  <2>5. QED
    BY <2>1, <2>3, <2>4
<1>8. AllOpen(summary_md.items)
  BY <1>6, <1>7 DEF CloseInvariant, BodyInv
<1>9. QED
  BY <1>1, <1>5, <1>8

\* The published body lists what is open and says what wrote it.
LEMMA TruePublished == ASSUME CloseInvariant PROVE PublishedTrue
BY BodyOpen DEF PublishedTrue, AllOpen

\* It lists nothing else.
LEMMA OpenOnly == ASSUME CloseInvariant PROVE ItemsOpen
<1>1. SUFFICES ASSUME phase = "published", ~Stale, NEW f \in body.items \ Debts
      PROVE  \E i \in FinalRows(evals) :
               /\ f \in Elements(evals[i].findings)
               /\ f \notin Gating \/ evals[i].verdict = "accept"
  BY DEF ItemsOpen
<1>2. f \in Open
  BY <1>1, BodyOpen DEF AllOpen
<1>3. QED
  BY <1>2, OpenOf DEF Open

\* The follow-ups file got what is open at this finish.
LEMMA FiledPublished == ASSUME CloseInvariant PROVE FollowUpsFiled
BY DEF CloseInvariant, TurnInv, FollowUpsFiled

\* Only the report of a run that died before its summary.md, or a fresh rerun,
\* replaces a synthesis on record.
LEMMA SummaryStay ==
  ASSUME CloseInvariant, [CloseNext]_allVars, summary_json = "full", summary_json' # "full"
  PROVE  reruns' > reruns \/ (crashes > 0 /\ summary_md = NoBody)
<1>1. CASE Begin /\ UNCHANGED closeVars
  BY <1>1 DEF Begin, save_checkpoint, To, splitVars, taskFile, gitVars, memVars,
       closeVars, turnVars, summaryVars, _write_summary_json
<1>2. CASE \E p \in DOMAIN Plans : Planning(p) /\ UNCHANGED closeVars
  BY <1>2 DEF Planning, To, splitVars, taskFile, gitVars, memVars, closeVars, turnVars,
       summaryVars, _write_summary_json
<1>3. CASE PersistTask /\ UNCHANGED closeVars
  BY <1>3 DEF PersistTask, To, splitVars, taskFile, gitVars, memVars, closeVars,
       turnVars, summaryVars, _write_summary_json
<1>4. CASE write_subtask_artifacts /\ UNCHANGED closeVars
  BY <1>4 DEF write_subtask_artifacts, To, splitVars, taskFile, gitVars, memVars,
       closeVars, turnVars, summaryVars, _write_summary_json
<1>5. CASE insert_subtasks /\ UNCHANGED closeVars
  BY <1>5 DEF insert_subtasks, To, splitVars, taskFile, gitVars, memVars, closeVars,
       turnVars, summaryVars, _write_summary_json
<1>6. CASE LeavePre /\ UNCHANGED closeVars
  BY <1>6 DEF LeavePre, save_checkpoint, To, splitVars, taskFile, gitVars, memVars,
       closeVars, turnVars, summaryVars, _write_summary_json
<1>7. CASE FanOut /\ UNCHANGED closeVars
  BY <1>7 DEF FanOut, To, splitVars, taskFile, gitVars, memVars, closeVars, turnVars,
       summaryVars, _write_summary_json
<1>8. CASE NextUnit /\ UNCHANGED closeVars
  BY <1>8 DEF NextUnit, To, splitVars, taskFile, gitVars, memVars, closeVars, turnVars,
       summaryVars, _write_summary_json
<1>9. CASE EnterUnit /\ UNCHANGED closeVars
  BY <1>9 DEF EnterUnit, save_checkpoint, To, splitVars, taskFile, gitVars, memVars,
       closeVars, turnVars, summaryVars, _write_summary_json
<1>10. CASE \E c \in BOOLEAN : Implement(c) /\ UNCHANGED closeVars
  BY <1>10 DEF Implement, save_checkpoint, To, splitVars, taskFile, gitVars, memVars,
       closeVars, turnVars, summaryVars, _write_summary_json
<1>11. CASE \E fs \in Reports[unit] : Review(fs) /\ UNCHANGED closeVars
  BY <1>11 DEF Review, To, splitVars, taskFile, gitVars, memVars, closeVars, turnVars,
       summaryVars, _write_summary_json
<1>12. CASE Rework /\ UNCHANGED closeVars
  BY <1>12 DEF Rework, save_checkpoint, To, splitVars, taskFile, gitVars, memVars,
       closeVars, turnVars, summaryVars, _write_summary_json
<1>13. CASE Stuck /\ UNCHANGED closeVars
  BY <1>13 DEF Stuck, To, splitVars, taskFile, gitVars, memVars, closeVars, turnVars,
       summaryVars, _write_summary_json
<1>14. CASE Accept /\ UNCHANGED closeVars
  BY <1>14 DEF Accept, save_checkpoint, To, splitVars, taskFile, gitVars, memVars,
       closeVars, turnVars, summaryVars, _write_summary_json
<1>15. CASE CommitStep(CommitAgain)
  BY <1>15 DEF CommitStep, CommitAgain, To, splitVars, taskFile, gitVars, memVars,
       closeVars, turnVars, summaryVars, _write_summary_json
<1>16. CASE CommitStep(CommitNothing)
  BY <1>16 DEF CommitStep, CommitNothing, To, splitVars, taskFile, gitVars, memVars,
       closeVars, turnVars, summaryVars, _write_summary_json
<1>17. CASE CommitStep(CommitTree)
  BY <1>17 DEF CommitStep, CommitTree, To, splitVars, taskFile, gitVars, memVars,
       closeVars, turnVars, summaryVars, _write_summary_json
<1>18. CASE CommitStep(RecordOp)
  BY <1>18 DEF CommitStep, RecordOp, To, splitVars, taskFile, gitVars, memVars,
       closeVars, turnVars, summaryVars, _write_summary_json
<1>19. CASE update_subtask_index /\ UNCHANGED closeVars
  BY <1>19 DEF update_subtask_index, To, splitVars, taskFile, gitVars, memVars,
       closeVars, turnVars, summaryVars, _write_summary_json
<1>20. CASE set_subtask_commit /\ UNCHANGED closeVars
  BY <1>20 DEF set_subtask_commit, To, splitVars, taskFile, gitVars, memVars, closeVars,
       turnVars, summaryVars, _write_summary_json
<1>21. CASE CountUnit /\ UNCHANGED closeVars
  BY <1>21 DEF CountUnit, To, splitVars, taskFile, gitVars, memVars, closeVars,
       turnVars, summaryVars, _write_summary_json
<1>22. CASE AllUnits /\ UNCHANGED closeVars
  BY <1>22 DEF AllUnits, save_checkpoint, To, splitVars, taskFile, gitVars, memVars,
       closeVars, turnVars, summaryVars, _write_summary_json
<1>23. CASE Resume /\ UNCHANGED closeVars
  BY <1>23 DEF Resume, ResumeAt, _rebuild_decomposition, To, splitVars, taskFile,
       gitVars, memVars, closeVars, turnVars, summaryVars, _write_summary_json
<1>24. CASE \E f \in BOOLEAN : _engine_post_node(f)
  BY <1>24 DEF _engine_post_node, observe, To, splitVars, taskFile, gitVars, memVars,
       closeVars, turnVars, summaryVars, _write_summary_json
<1>25. CASE finalize
  BY <1>25 DEF finalize, _finalize_turn, Stay, To, splitVars, taskFile, gitVars,
       memVars, closeVars, turnVars, summaryVars, _write_summary_json
<1>26. CASE _write_summary_json
  BY <1>26 DEF _write_summary_json, Stay, To, splitVars, taskFile, gitVars, memVars,
       closeVars, turnVars, summaryVars, _write_summary_json
<1>27. CASE _engine_finalize
  BY <1>27 DEF _engine_finalize, Stay, To, splitVars, taskFile, gitVars, memVars,
       closeVars, turnVars, summaryVars, _write_summary_json
<1>28. CASE ReportJson
  BY <1>28 DEF ReportJson, CloseInvariant, TurnInv
<1>29. CASE write_summary_report
  BY <1>29 DEF write_summary_report, Stay, To, splitVars, taskFile, gitVars, memVars,
       closeVars, turnVars, summaryVars, _write_summary_json
<1>30. CASE SummaryStands
  BY <1>30 DEF SummaryStands, Stay, To, splitVars, taskFile, gitVars, memVars,
       closeVars, turnVars, summaryVars, _write_summary_json
<1>31. CASE _append_follow_ups_file
  BY <1>31 DEF _append_follow_ups_file, AfterFile, Stay, To, splitVars, taskFile,
       gitVars, memVars, closeVars, turnVars, summaryVars, _write_summary_json
<1>32. CASE PublishDone
  BY <1>32 DEF PublishDone, Stay, To, splitVars, taskFile, gitVars, memVars, closeVars,
       turnVars, summaryVars, _write_summary_json
<1>33. CASE PublishFailed
  BY <1>33 DEF PublishFailed, Stay, To, splitVars, taskFile, gitVars, memVars,
       closeVars, turnVars, summaryVars, _write_summary_json
<1>34. CASE _explain_terminal
  BY <1>34 DEF _explain_terminal, Stay, To, splitVars, taskFile, gitVars, memVars,
       closeVars, turnVars, summaryVars, _write_summary_json
<1>35. CASE Die
  BY <1>35 DEF Die, LoseMemory, ForgetTurn, Working, To, splitVars, taskFile, gitVars,
       memVars, closeVars, turnVars, summaryVars, _write_summary_json
<1>36. CASE ClearTree
  BY <1>36 DEF ClearTree, To, splitVars, taskFile, gitVars, memVars, closeVars,
       turnVars, summaryVars, _write_summary_json
<1>37. CASE \E r \in BOOLEAN : RerunContinue(r)
  BY <1>37 DEF RerunContinue, cmd_rerun, plan_rerun, _resolve_reset_fix_budget,
       _apply_continue_controls, LoseMemory, ForgetTurn, To, splitVars, taskFile,
       gitVars, memVars, closeVars, turnVars, summaryVars, _write_summary_json
<1>38. CASE RerunFresh
  BY <1>38, FreshCounts
<1>39. CASE UNCHANGED allVars
  BY <1>39 DEF allVars, subVars, To, splitVars, taskFile, gitVars, memVars, closeVars,
       turnVars, summaryVars, _write_summary_json
<1>q. QED
  BY <1>1, <1>2, <1>3, <1>4, <1>5, <1>6, <1>7, <1>8, <1>9, <1>10, <1>11, <1>12, <1>13,
       <1>14, <1>15, <1>16, <1>17, <1>18, <1>19, <1>20, <1>21, <1>22, <1>23, <1>24,
       <1>25, <1>26, <1>27, <1>28, <1>29, <1>30, <1>31, <1>32, <1>33, <1>34, <1>35,
       <1>36, <1>37, <1>38, <1>39, Cases

-----------------------------------------------------------------------------
\* Every variable of the close-out and of the fan-out below it keeps its range.
THEOREM CloseTypes == CloseSpec => []CloseTypeOK
<1>1. CloseInvariant => CloseTypeOK
  BY DEF CloseInvariant
<1>2. QED
  BY <1>1, CloseAlways, PTL

\* Each unit of a split is run after those before it and told of them,
\* committed by itself on an accepting review and kept, within its own budget;
\* the operator's split is the one that runs and what is published is whole
\* (_fan_out_subtasks, _commit_subtask, _persist_decomposition and the start
\* after a crash): for any plans, reviews, budgets and number of crashes and
\* reruns.
THEOREM SplitTheorem == CloseSpec => SplitSafe
<1>1. CloseInvariant =>
        CloseTypeOK /\ PredecessorsLanded /\ WorkInOwnCommit /\ CommittedAccepted /\ IndexAgrees
          /\ BudgetOwn /\ OperatorSplitStands /\ PublishedWhole
  <2>1. CloseInvariant => CloseTypeOK /\ CommittedAccepted
    BY DEF CloseInvariant, EvalInv
  <2>2. QED
    BY <2>1, LandedKnown, WorkOwned, IndexKnown, BudgetCharged, OperatorKept, WholePublished
<1>2. CloseInvariant /\ [CloseNext]_allVars =>
        [\A u \in CommittedRows : rows'[u] = rows[u] \/ reruns' > reruns]_allVars
  BY CommittedStay
<1>3. QED
  BY <1>1, <1>2, CloseAlways, PTL DEF SplitSafe, CommittedStands, CloseSpec

\* What the supervisor is shown, and what its packet, the follow-ups, the
\* summary and the published body say, is what the reviews found
\* (Supervisor.observe, the finalize turn, _engine_finalize,
\* _finalize_task_artifacts): for any cadence, packet budgets, findings,
\* crashes and reruns.
THEOREM CloseTheorem == CloseSpec => CloseSafe
<1>1. CloseInvariant =>
        DeviationsSeen /\ FinalFindingsInPacket /\ PublishedTrue /\ ItemsOpen /\ FollowUpsFiled
  <2>1. CloseInvariant => CloseTypeOK /\ EvalInv
    BY DEF CloseInvariant
  <2>2. QED
    BY <2>1, DeviationsKnown, PacketKept, TruePublished, OpenOnly, FiledPublished
<1>2. CloseInvariant /\ [CloseNext]_allVars =>
        [summary_json = "full" /\ summary_json' # "full" =>
           reruns' > reruns \/ (crashes > 0 /\ summary_md = NoBody)]_allVars
  BY SummaryStay
<1>3. QED
  BY <1>1, <1>2, CloseAlways, PTL DEF CloseSafe, SummaryKept, CloseSpec
=============================================================================
