--------------------------- MODULE HumanGateProofs ---------------------------
(***************************************************************************)
(* For any change sets, paths, configurations and bounds: types, that an   *)
(* answer in a file was given to the prompt that asked its request, that   *)
(* no gated change leaves its node or is published without a person's yes  *)
(* to exactly that change, and that a denial is never turned into a yes.   *)
(* The invariant ties the prompt in flight to the file it will be written  *)
(* to, and both to the tree they speak of.  The second part is about the   *)
(* project memory: for any deltas, trees and limits, that what it stores   *)
(* was earned, that what it shows is reliable, and that no pass that runs  *)
(* alone loses a record, also when it is stopped between two writes.       *)
(***************************************************************************)
EXTENDS HumanGate, MemoryStore, FiniteSetTheorems, WellFoundedInduction, TLAPS

Has(f) == rec[f] # NoRecord
Asking == pc \in {"start", "write", "poll", "result"}
Gated(f) == f[1] \in {"guard", "publish"}

\* Where each part of the flow may be, and the file it asks in.
Places ==
  /\ pos = "agent" => pc \notin {"route", "publish", "done"}
                      /\ (Asking => file \in {HitlFile, TurnFile, GuardFile})
  /\ pos = "node" => pc \in {"enter", "start", "write", "poll", "result", "route", "manual"}
                     /\ (Asking => file = NodeFile)
  /\ pos = "publish" => pc \in {"enter", "start", "write", "poll", "result", "publish", "manual"}
                        /\ (Asking => file = PublishFile)
  /\ pos \in {"done", "closed"} => pc = "done"
  /\ pc \in {"reconsider", "reconsidered"} => Has(GuardFile)
  /\ pc # "enter" /\ (had \/ second) => Has(HitlFile)
  /\ pos \in {"node", "publish"} => ~had /\ ~second

\* The run that is asked about has ended somehow.
Ended ==
  /\ pc \in {"ran", "typed"} => out # NoRun
  /\ Asking /\ file = TurnFile /\ ~resumed => out # NoRun
  /\ pc \in {"start", "write"} /\ file = HitlFile => out \in Asks

\* Only the agent of a flow with the typed contract asks.
MayAsk == out \in Asks => cfg.hitl

\* A gate asks about the tree as it is, and a guardrail file only once a cycle.
Matched ==
  /\ pc \in {"start", "write"} /\ Gated(file) => dangerous # NoDanger
  /\ pc \in {"start", "write"} /\ file[1] = "guard" => ~Has(file)
  /\ pc \in {"poll", "result"} => Has(file)
  /\ pc \in {"poll", "result"} /\ Gated(file) =>
       rec[file].request = Signal("approval", dangerous)

\* A person answered value v to prompt m.
Said(m, v) == \E i \in DOMAIN updates : updates[i] = [to |-> m, val |-> v]

\* The prompt in flight showed what the file will hold, and the wait is for
\* the prompt of its file.
Waits ==
  /\ pc = "write" => reply = "none"
  /\ pc = "write" /\ handle # NoHandle => handle.msg \in DOMAIN sent /\ sent[handle.msg] = Prompt(file, signal)
  /\ pc = "poll" => rec[file].handle = handle /\ rec[file].answer = "none"
  /\ pc = "poll" /\ reply \in Answers => handle # NoHandle /\ Said(handle.msg, reply)

\* Every file with a prompt holds what the prompt showed, every answer was given
\* to it, and an answered file is no longer waiting.
Shown ==
  \A f \in Files : Has(f) =>
    /\ rec[f].handle # NoHandle =>
         rec[f].handle.msg \in DOMAIN sent /\ sent[rec[f].handle.msg] = Prompt(f, rec[f].request)
    /\ rec[f].answer # "none" =>
         /\ rec[f].status \notin Resettable /\ rec[f].handle # NoHandle
         /\ Said(rec[f].handle.msg, rec[f].answer)

RepliesToSent ==
  /\ \A i \in DOMAIN updates : updates[i].to \in DOMAIN sent
  /\ \A m \in DOMAIN sent : sent[m].own => cfg.hitl

Approved ==
  \E i \in DOMAIN updates :
    /\ updates[i].val = "yes" /\ sent[updates[i].to].request = Signal("approval", dangerous)
    /\ sent[updates[i].to].own => cfg.hitl

\* What leaves the writing node or is about to be published has been approved.
Cleared ==
  /\ pos = "agent" /\ pc \in {"finish", "advance"} => dangerous = NoDanger \/ Approved
  /\ pos = "publish" /\ pc = "publish" => dangerous = NoDanger \/ Approved
  /\ pos \in {"node", "done"} => dangerous = NoDanger \/ Approved

IInv == TypeOK /\ Places /\ Ended /\ MayAsk /\ Matched /\ Waits /\ Shown /\ RepliesToSent /\ Cleared

-----------------------------------------------------------------------------
(* The gate and the prompts.                                                *)

\* A gated change is a signal.
LEMMA DangerTyped ==
  ASSUME TypeOK, dangerous # NoDanger PROVE Signal("approval", dangerous) \in Signals
<1> DEFINE paths == UNION {DOMAIN d : d \in Diffs}
<1>1. diff \in Diffs
  BY DEF TypeOK
<1>2. DOMAIN diff \subseteq paths
  BY <1>1
<1>3. /\ _deleted_paths(diff) \subseteq DOMAIN diff /\ dependency_paths(diff) \subseteq DOMAIN diff
      /\ _protected_hits(diff) \subseteq DOMAIN diff
  BY DEF _deleted_paths, dependency_paths, _protected_hits
<1>4. \A a, b, c : _combined_risk(a, b, c) \in {"other", "protected", "deletion", "dependency"}
  BY DEF _combined_risk
<1>5. /\ dangerous.risk \in {"other", "protected", "deletion", "dependency"}
      /\ dangerous.paths \subseteq paths
  BY <1>2, <1>3, <1>4 DEF dangerous, evaluate_diff_gate, NoDanger
<1>6. QED
  BY <1>5 DEF Signal, Signals, Kinds

LEMMA PlainTyped ==
  PlainApproval \in Signals
  BY DEF PlainApproval, Signal, Signals, Kinds

\* What is about to be asked is a signal.
LEMMA SignalTyped ==
  ASSUME TypeOK, Matched, Ended, pc \in {"start", "write"} PROVE signal \in Signals
<1>1. CASE Gated(file)
  BY <1>1, DangerTyped DEF Matched, signal, Gated
<1>2. CASE file[1] = "hitl"
  <2>1. file = HitlFile
    BY <1>2 DEF TypeOK, Files, HitlFile
  <2>2. QED
    BY <1>2, <2>1, HumanAssumption DEF Ended, signal, Asks
<1>3. CASE ~Gated(file) /\ file[1] # "hitl"
  BY <1>3, PlainTyped DEF signal, Gated
<1>4. QED
  BY <1>1, <1>2, <1>3

\* A run that has not ended has asked nothing.
LEMMA NoRunTyped ==
  NoRun \in RunEnds /\ NoRun \notin Asks
  BY DEF NoRun, RunEnds, Asks

\* The gate's answer depends on the tree and the configuration alone.
LEMMA DangerSame ==
  ASSUME UNCHANGED <<cfg, diff>> PROVE dangerous' = dangerous
  BY DEF dangerous, evaluate_diff_gate

\* A file that is there is a record, and the absent one has no status of theirs.
LEMMA RecordFacts ==
  ASSUME TypeOK, NEW f \in Files
  PROVE  /\ Has(f) => rec[f] \in Records
         /\ Has(f) <=> rec[f].status # "absent"
<1>1. rec[f] \in Records \cup {NoRecord}
  BY DEF TypeOK
<1>2. \A r \in Records : r.status # "absent"
  BY DEF Records, AskFailure
<1>3. NoRecord.status = "absent"
  BY DEF NoRecord
<1>4. QED
  BY <1>1, <1>2, <1>3 DEF Has

\* Marking a file changes its status alone.
LEMMA MarkKept ==
  ASSUME TypeOK, Shown, RepliesToSent, NEW f \in Files, Has(f),
         NEW s \in {"consumed", "reconsidering", "reconsidered"},
         mark_interaction_status(f, s), UNCHANGED <<cfg, chatVars>>
  PROVE  /\ rec' \in [Files -> Records \cup {NoRecord}] /\ Shown' /\ RepliesToSent'
         /\ \A g \in Files : /\ Has(g)' <=> Has(g)
                             /\ Has(g) => /\ rec'[g].request = rec[g].request
                                          /\ rec'[g].answer = rec[g].answer
                                          /\ rec'[g].handle = rec[g].handle
<1>1. rec' = [rec EXCEPT ![f].status = s] /\ rec \in [Files -> Records \cup {NoRecord}]
  BY DEF mark_interaction_status, TypeOK
<1>2. rec[f] \in Records
  BY RecordFacts
<1>3. /\ [rec[f] EXCEPT !.status = s] \in Records
      /\ [rec[f] EXCEPT !.status = s].request = rec[f].request
      /\ [rec[f] EXCEPT !.status = s].answer = rec[f].answer
      /\ [rec[f] EXCEPT !.status = s].handle = rec[f].handle
      /\ [rec[f] EXCEPT !.status = s].status = s
  BY <1>2 DEF Records
<1>4. /\ rec'[f] = [rec[f] EXCEPT !.status = s]
      /\ \A g \in Files : g # f => rec'[g] = rec[g]
  BY <1>1
<1>5. rec'[f] # NoRecord
  BY <1>3, <1>4 DEF NoRecord
<1>6. \A g \in Files : /\ Has(g)' <=> Has(g)
                       /\ Has(g) => /\ rec'[g].request = rec[g].request
                                    /\ rec'[g].answer = rec[g].answer
                                    /\ rec'[g].handle = rec[g].handle
                                    /\ rec'[g].status \in {rec[g].status, s}
  BY <1>3, <1>4, <1>5 DEF Has
<1>7. rec' \in [Files -> Records \cup {NoRecord}]
  BY <1>1, <1>3
<1>8. UNCHANGED <<sent, updates>>
  BY DEF chatVars
<1>9. Shown'
  <2>1. s \notin Resettable
    BY DEF Resettable, AskFailure
  <2>2. QED
    BY <1>6, <1>8, <2>1 DEF Shown, Said
<1>10. RepliesToSent'
  BY <1>8 DEF RepliesToSent
<1>11. QED
  BY <1>6, <1>7, <1>9, <1>10

\* What a step of a node keeps that at most marks a file.
Marked ==
  \/ rec' = rec
  \/ \E f \in Files, s \in {"consumed", "reconsidering", "reconsidered"} :
       Has(f) /\ mark_interaction_status(f, s)

LEMMA ControlKept ==
  ASSUME IInv, Marked, UNCHANGED <<cfg, diff, chatVars>>
  PROVE  /\ rec' \in [Files -> Records \cup {NoRecord}] /\ Shown' /\ RepliesToSent'
         /\ dangerous' = dangerous /\ Approved' = Approved
         /\ \A m, v : Said(m, v)' = Said(m, v)
         /\ \A g \in Files : /\ Has(g)' <=> Has(g)
                             /\ Has(g) => /\ rec'[g].request = rec[g].request
                                          /\ rec'[g].answer = rec[g].answer
                                          /\ rec'[g].handle = rec[g].handle
<1> USE DEF IInv
<1>1. dangerous' = dangerous
  BY DangerSame
<1>2. UNCHANGED <<sent, updates>>
  BY DEF chatVars
<1>3. Approved' = Approved /\ \A m, v : Said(m, v)' = Said(m, v)
  BY <1>1, <1>2 DEF Approved, Said
<1>4. CASE rec' = rec
  BY <1>1, <1>2, <1>3, <1>4 DEF TypeOK, Shown, RepliesToSent, Has, Said
<1>5. CASE rec' # rec
  <2>1. PICK f \in Files, s \in {"consumed", "reconsidering", "reconsidered"} :
          Has(f) /\ mark_interaction_status(f, s)
    BY <1>5 DEF Marked
  <2>2. QED
    BY <1>1, <1>3, <2>1, MarkKept
<1>6. QED
  BY <1>4, <1>5

\* The five files of a node are files.
LEMMA FilesTyped ==
  ASSUME TypeOK
  PROVE  /\ HitlFile \in Files /\ TurnFile \in Files /\ NodeFile \in Files
         /\ GuardFile \in Files /\ PublishFile \in Files
         /\ ~Gated(HitlFile) /\ ~Gated(TurnFile) /\ ~Gated(NodeFile)
         /\ Gated(GuardFile) /\ Gated(PublishFile)
         /\ HitlFile # TurnFile /\ HitlFile # GuardFile /\ TurnFile # GuardFile
         /\ HitlFile # NodeFile /\ TurnFile # NodeFile
         /\ HitlFile # PublishFile /\ TurnFile # PublishFile
  BY DEF HitlFile, TurnFile, NodeFile, GuardFile, PublishFile, Files, Gated, TypeOK

\* A file whose request names the tree's gated changes and whose answer is yes.
LEMMA ApprovedBy ==
  ASSUME Shown, RepliesToSent, NEW f \in Files, Has(f), rec[f].answer = "yes",
         rec[f].request = Signal("approval", dangerous)
  PROVE  Approved
<1>1. /\ Said(rec[f].handle.msg, "yes") /\ rec[f].handle.msg \in DOMAIN sent
      /\ sent[rec[f].handle.msg] = Prompt(f, rec[f].request)
  BY DEF Shown
<1>2. PICK i \in DOMAIN updates : updates[i] = [to |-> rec[f].handle.msg, val |-> "yes"]
  BY <1>1 DEF Said
<1>3. /\ updates[i].val = "yes" /\ sent[updates[i].to].request = Signal("approval", dangerous)
      /\ sent[updates[i].to].own => cfg.hitl
  BY <1>1, <1>2 DEF Prompt, RepliesToSent
<1>4. QED
  BY <1>3 DEF Approved

\* What a step of a running node leaves alone, and what the node's locals may be.
Framed == UNCHANGED <<cfg, diff, chatVars, envVars>>

Typed ==
  /\ pos' \in {"agent", "node", "publish", "done", "closed"} /\ cycle' \in 0..MaxCycle
  /\ pc' \in {"enter", "turn", "invoke", "ran", "typed", "guard", "reconsider", "reconsidered",
             "finish", "advance", "route", "publish", "start", "write", "poll", "result",
             "manual", "failed", "done"}
  /\ file' \in Files /\ resumed' \in BOOLEAN /\ had' \in BOOLEAN /\ second' \in BOOLEAN
  /\ out' \in {out, NoRun}
  /\ handle' \in [msg : 0..MaxPrompts, offset : 0..MaxUpdates] /\ seen' \in 0..MaxUpdates
  /\ reply' \in {"none"} \cup Answers \cup AskFailure

\* A node's step that marks at most one file keeps the invariant, when it keeps
\* the parts that speak of where the node is.
LEMMA ControlInv ==
  ASSUME IInv, Marked, Framed, Typed, Places', Ended', Matched', Waits', Cleared'
  PROVE  IInv'
<1>1. rec' \in [Files -> Records \cup {NoRecord}] /\ Shown' /\ RepliesToSent'
  BY ControlKept DEF Framed
<1>2. TypeOK' /\ MayAsk'
  BY <1>1, NoRunTyped DEF IInv, TypeOK, MayAsk, Framed, Typed, chatVars, envVars
<1>3. QED
  BY <1>1, <1>2 DEF IInv

-----------------------------------------------------------------------------
LEMMA InitInv ==
  ASSUME Init PROVE IInv
<1> USE HumanAssumption
<1>1. dangerous = NoDanger
  BY DEF Init, dangerous
<1>2. HitlFile \in Files /\ NoHandle \in [msg : 0..MaxPrompts, offset : 0..MaxUpdates]
  BY DEF HitlFile, Files, NoHandle
<1>3. TypeOK
  <2>1. rec \in [Files -> Records \cup {NoRecord}]
    BY DEF Init
  <2>2. /\ sent \in Seq([own : BOOLEAN, request : Signals]) /\ Len(sent) <= MaxPrompts
        /\ updates \in Seq([to : 1..MaxPrompts, val : Answers]) /\ Len(updates) <= MaxUpdates
    BY DEF Init
  <2>3. cycle \in 0..MaxCycle /\ confirmed \in 0..MaxUpdates /\ late \in 0..MaxPrompts
        /\ faults \in 0..MaxFaults /\ seen \in 0..MaxUpdates
    BY DEF Init
  <2>4. QED
    BY <1>2, <2>1, <2>2, <2>3, NoRunTyped DEF Init, TypeOK
<1>4. \A f \in Files : ~Has(f)
  BY DEF Init, Has
<1>5. Places /\ Ended /\ MayAsk /\ Matched /\ Waits /\ Shown /\ RepliesToSent /\ Cleared
  BY <1>1, <1>4, NoRunTyped DEF Init, Places, Ended, MayAsk, Matched, Waits, Shown, RepliesToSent, Cleared, Asking
<1>6. QED
  BY <1>3, <1>5 DEF IInv

-----------------------------------------------------------------------------
(* The steps of a running node.                                             *)

\* The agent starts, or waits again for its own question.
LEMMA EnterAgentInv ==
  ASSUME IInv, EnterAgent PROVE IInv'
<1> USE DEF IInv
<1>2. Marked /\ Framed
  BY FilesTyped, RecordFacts DEF Marked, Framed, NodeStep, flowVars, EnterAgent, HitlFile, Answered
<1>3. dangerous' = dangerous /\ Approved' = Approved /\ \A g \in Files : Has(g)' <=> Has(g)
  BY <1>2, ControlKept DEF Framed
<1>4. Typed
  BY <1>2, FilesTyped, RecordFacts DEF TypeOK, Typed, NodeStep, flowVars, waitVars, Records, EnterAgent, HitlFile, Answered
<1>5. Places' /\ Ended'
  <2>1. pos' = "agent" /\ pc' \in {"turn", "poll", "manual"} /\ (pc' = "poll" => file' = HitlFile)
    BY DEF EnterAgent, NodeStep, flowVars
  <2>2. had' \/ second' => Has(HitlFile)'
    BY <1>3, FilesTyped DEF EnterAgent, Has, HitlFile
  <2>3. QED
    BY <2>1, <2>2, FilesTyped DEF Places, Ended, Asking, HitlFile, TurnFile
<1>6. Matched' /\ Waits'
  <2>1. CASE pc' = "poll"
    <3>1. /\ file' = HitlFile /\ handle' = rec[HitlFile].handle /\ reply' = "none" /\ rec' = rec
          /\ rec[HitlFile].status = "waiting" /\ Has(HitlFile)
      BY <2>1 DEF EnterAgent, Has
    <3>2. rec[HitlFile].answer = "none"
      BY <3>1, FilesTyped DEF Shown, Resettable
    <3>3. QED
      BY <1>3, <2>1, <3>1, <3>2, FilesTyped DEF Matched, Waits, Gated, HitlFile, Answers
  <2>2. CASE pc' # "poll"
    BY <2>2 DEF EnterAgent, Matched, Waits
  <2>3. QED
    BY <2>1, <2>2
<1>7. Cleared'
  BY <1>3, FilesTyped DEF Cleared, NodeStep, flowVars, EnterAgent, HitlFile, Answered
<1>8. QED
  BY <1>2, <1>4, <1>5, <1>6, <1>7, ControlInv

\* The answer to the agent's question.
LEMMA HitlResultInv ==
  ASSUME IInv, HitlResult PROVE IInv'
<1> USE DEF IInv
<1>2. Marked /\ Framed
  BY FilesTyped, RecordFacts DEF Marked, Framed, NodeStep, flowVars, HitlResult, Manual, Leave, Answered
<1>3. dangerous' = dangerous /\ Approved' = Approved /\ \A g \in Files : Has(g)' <=> Has(g)
  BY <1>2, ControlKept DEF Framed
<1>4. Typed
  <2>1. resumed \in BOOLEAN /\ had \in BOOLEAN /\ second \in BOOLEAN
    BY DEF TypeOK
  <2>2. resumed' \in BOOLEAN /\ had' \in BOOLEAN /\ second' \in BOOLEAN
    BY <2>1, Zenon DEF HitlResult, Manual, Leave
  <2>3. QED
    BY <2>2, FilesTyped, NoRunTyped DEF TypeOK, Typed, NodeStep, flowVars, waitVars, HitlResult, Manual, Leave
<1>5. Places' /\ Ended'
  <2>1. pos' = "agent" /\ pc' \in {"turn", "manual"}
    BY DEF HitlResult, NodeStep, flowVars, Manual, Leave
  <2>2. Has(HitlFile)
    BY DEF HitlResult, Matched
  <2>3. QED
    BY <1>3, <2>1, <2>2, FilesTyped DEF Places, Ended, Asking
<1>6. Matched' /\ Waits'
  BY <1>3, FilesTyped, RecordFacts DEF Matched, Waits, Shown, Resettable, Has, NodeStep, flowVars, waitVars, HitlResult, Manual, Leave, Answered
<1>7. Cleared'
  BY <1>3, FilesTyped DEF Cleared, NodeStep, flowVars, HitlResult, Manual, Leave, Answered
<1>8. QED
  BY <1>2, <1>4, <1>5, <1>6, <1>7, ControlInv

\* A turn-limit prompt is waited for again, or there is none.
LEMMA TurnCheckInv ==
  ASSUME IInv, TurnCheck PROVE IInv'
<1> USE DEF IInv
<1>2. Marked /\ Framed
  BY FilesTyped, RecordFacts DEF Marked, Framed, NodeStep, flowVars, TurnCheck, Resume, Go
<1>3. dangerous' = dangerous /\ Approved' = Approved /\ \A g \in Files : Has(g)' <=> Has(g)
  BY <1>2, ControlKept DEF Framed
<1>4. Typed
  <2>1. CASE pc' = "poll"
    <3>1. rec[TurnFile] \in Records
      BY <2>1, FilesTyped, RecordFacts DEF TurnCheck, Go
    <3>2. /\ handle' \in [msg : 0..MaxPrompts, offset : 0..MaxUpdates] /\ seen' \in 0..MaxUpdates
          /\ reply' = "none" /\ file' = TurnFile /\ resumed' = TRUE
      BY <2>1, <3>1 DEF TurnCheck, Resume, Go, Records
    <3>3. QED
      BY <2>1, <3>2, FilesTyped DEF TypeOK, Typed, NodeStep, flowVars, TurnCheck, Resume, Go
  <2>2. CASE pc' # "poll"
    BY <2>2 DEF TypeOK, Typed, NodeStep, flowVars, waitVars, TurnCheck, Resume, Go
  <2>3. QED
    BY <2>1, <2>2
<1>5. Places' /\ Ended'
  BY <1>3, FilesTyped, RecordFacts DEF Places, Ended, Asking, Has, NodeStep, flowVars, waitVars, GuardFile, TurnCheck, Resume, Go
<1>6. Matched' /\ Waits'
  <2>1. CASE pc' = "poll"
    <3>1. /\ file' = TurnFile /\ handle' = rec[TurnFile].handle /\ reply' = "none" /\ rec' = rec
          /\ rec[TurnFile].status = "waiting"
      BY <2>1 DEF TurnCheck, Resume, Go
    <3>2. Has(TurnFile) /\ rec[TurnFile].answer = "none"
      BY <3>1, FilesTyped, RecordFacts DEF Shown, Resettable
    <3>3. QED
      BY <1>3, <2>1, <3>1, <3>2, FilesTyped DEF Matched, Waits, Gated, TurnFile, Answers
  <2>2. CASE pc' # "poll"
    BY <2>2 DEF TurnCheck, Resume, Go, Matched, Waits
  <2>3. QED
    BY <2>1, <2>2
<1>7. Cleared'
  BY <1>3, FilesTyped DEF Cleared, NodeStep, flowVars, TurnCheck, Resume, Go
<1>8. QED
  BY <1>2, <1>4, <1>5, <1>6, <1>7, ControlInv

\* The answer to a turn-limit prompt.
LEMMA TurnResultInv ==
  ASSUME IInv, TurnResult PROVE IInv'
<1> USE DEF IInv
<1>1. Has(file) /\ file \in Files
  BY FilesTyped DEF Matched, TurnResult
<1>2. Marked /\ Framed
  <2>1. Framed
    BY DEF TurnResult, Framed, NodeStep, flowVars
  <2>2. CASE rec' = rec
    BY <2>1, <2>2 DEF Marked
  <2>3. CASE mark_interaction_status(file, "consumed")
    BY <1>1, <2>1, <2>3 DEF Marked
  <2>4. QED
    BY <2>2, <2>3 DEF TurnResult, mark_consumed
<1>3. dangerous' = dangerous /\ Approved' = Approved /\ \A g \in Files : Has(g)' <=> Has(g)
  BY <1>2, ControlKept DEF Framed
<1>4. Typed
  BY <1>2, FilesTyped, RecordFacts, NoRunTyped DEF TypeOK, Typed, NodeStep, flowVars, waitVars, Records, TurnResult, Manual, Leave, Go, Answered, mark_consumed
<1>5. Places' /\ Ended'
  <2>1. pos' = "agent" /\ pc' \in {"invoke", "typed", "manual"}
    BY DEF TurnResult, NodeStep, flowVars, Go, Manual, Leave
  <2>2. had' \/ second' => Has(HitlFile)'
    BY <1>3, FilesTyped DEF TurnResult, Go, Manual, Leave, Places
  <2>3. pc' = "typed" => out' # NoRun
    BY DEF TurnResult, Go, Manual, Leave, Ended, Asking
  <2>4. QED
    BY <2>1, <2>2, <2>3 DEF Places, Ended, Asking
<1>6. Matched' /\ Waits'
  BY <1>3, FilesTyped, RecordFacts DEF Matched, Waits, Shown, Resettable, Has, NodeStep, flowVars, waitVars, TurnResult, Manual, Leave, Go, Answered, mark_consumed
<1>7. Cleared'
  BY <1>3, FilesTyped DEF Cleared, NodeStep, flowVars, TurnResult, Manual, Leave, Go, Answered, mark_consumed
<1>8. QED
  BY <1>2, <1>4, <1>5, <1>6, <1>7, ControlInv

\* What the ended run asks.
LEMMA RanInv ==
  ASSUME IInv, Ran PROVE IInv'
<1> USE DEF IInv
<1>2. Marked /\ Framed
  BY FilesTyped, RecordFacts DEF Marked, Framed, NodeStep, flowVars, Ran, Request, Manual, Leave, Go
<1>3. dangerous' = dangerous /\ Approved' = Approved /\ \A g \in Files : Has(g)' <=> Has(g)
  BY <1>2, ControlKept DEF Framed
<1>4. Typed
  BY <1>2, FilesTyped, RecordFacts, NoRunTyped DEF TypeOK, Typed, NodeStep, flowVars, waitVars, Records, Ran, Request, Manual, Leave, Go
<1>5. Places' /\ Ended'
  <2>1. pos' = "agent" /\ pc' \in {"start", "typed", "guard", "failed", "manual"}
    BY DEF Ran, NodeStep, flowVars, Request, Go, Manual, Leave
  <2>2. had' \/ second' => Has(HitlFile)'
    BY <1>3, FilesTyped DEF Ran, Request, Go, Manual, Leave, Places
  <2>3. /\ pc' = "typed" => out' # NoRun
        /\ pc' = "start" => out' # NoRun /\ (file' = TurnFile \/ (file' = HitlFile /\ out' \in Asks))
    <3>1. out \in RunEnds
      BY DEF TypeOK
    <3>2. pc \in {"ran", "typed"} /\ out # NoRun
      BY DEF Ran, Ended
    <3>3. CASE pc = "ran"
      BY <3>2, <3>3 DEF Ran, Request, Go
    <3>4. CASE pc = "typed"
      <4>1. pc' \in {"guard", "failed", "manual", "start"}
        BY <3>4 DEF Ran, Request, Go, Manual, Leave
      <4>2. pc' = "start" => out \notin Ends /\ Request(HitlFile)
        BY <3>4 DEF Ran, Go, Manual, Leave, Ends
      <4>3. QED
        BY <3>1, <3>2, <4>1, <4>2 DEF Request, RunEnds
    <3>5. QED
      BY <3>2, <3>3, <3>4
  <2>4. QED
    BY <2>1, <2>2, <2>3, FilesTyped DEF Places, Ended, Asking, HitlFile, TurnFile, GuardFile
<1>6. Matched' /\ Waits'
  <2>1. pc' \in {"start", "typed", "guard", "failed", "manual"}
    BY DEF Ran, Request, Go, Manual, Leave
  <2>2. pc' = "start" => file' = TurnFile \/ file' = HitlFile
    BY DEF Ran, Request, Go, Manual, Leave
  <2>3. QED
    BY <2>1, <2>2 DEF Matched, Waits, Gated, HitlFile, TurnFile
<1>7. Cleared'
  BY <1>3, FilesTyped DEF Cleared, NodeStep, flowVars, Ran, Request, Manual, Leave, Go
<1>8. QED
  BY <1>2, <1>4, <1>5, <1>6, <1>7, ControlInv
\* An approval found anywhere in the task, or in the publish gate's own file.
LEMMA PriorApproved ==
  ASSUME IInv PROVE /\ already_approved_in_task(dangerous) => Approved
                    /\ consume_prior_approval(dangerous) => Approved
<1>1. already_approved_in_task(dangerous) => Approved
  BY ApprovedBy DEF IInv, already_approved_in_task, guardrail_request_matches, Has
<1>2. consume_prior_approval(dangerous) => Approved
  BY <1>1, ApprovedBy, FilesTyped DEF IInv, consume_prior_approval, guardrail_request_matches, Has
<1>3. QED
  BY <1>1, <1>2

\* A step that marks a file which is there is a step that at most marks a file.
LEMMA MarkedBy ==
  ASSUME NEW f \in Files, Has(f), NEW s \in {"consumed", "reconsidering", "reconsidered"},
         mark_interaction_status(f, s)
  PROVE  Marked
  BY DEF Marked

\* The writing node's diff is clean, was approved before, is asked about, waited
\* for, replayed, or refused.
LEMMA GuardInv ==
  ASSUME IInv, Guard PROVE IInv'
<1> USE DEF IInv
<1>1. Marked /\ Framed /\ UNCHANGED <<pos, cycle>> /\ rec' = rec /\ pos = "agent" /\ pc = "guard"
  BY DEF Marked, Framed, Guard, NodeStep, flowVars, Resume
<1>2. dangerous' = dangerous /\ Approved' = Approved /\ \A g \in Files : Has(g)' <=> Has(g)
  BY <1>1, ControlKept DEF Framed
<1>3. /\ pc' \in {"finish", "start", "poll", "result", "manual"}
      /\ had' \in {had, FALSE} /\ second' \in {second, FALSE}
      /\ pc' # "manual" => had' = had /\ second' = second /\ out' = out
      /\ pc' \in {"start", "poll", "result"} => file' = GuardFile /\ dangerous # NoDanger
      /\ pc' = "start" => ~Has(GuardFile)
      /\ pc' \in {"poll", "result"} => /\ Has(GuardFile)
                                       /\ rec[GuardFile].request = Signal("approval", dangerous)
  BY Zenon DEF Guard, Go, Request, Resume, Manual, Leave, guardrail_request_matches, Has
<1>4. /\ pc' = "finish" => dangerous = NoDanger \/ Approved
      /\ pc' # "poll" => UNCHANGED waitVars
      /\ pc' = "poll" => /\ rec[GuardFile].status = "waiting" /\ handle' = rec[GuardFile].handle
                         /\ seen' = rec[GuardFile].handle.offset /\ reply' = "none"
  BY PriorApproved DEF Guard, Go, Request, Resume, Manual, Leave
<1>5. Typed
  <2>1. resumed' \in BOOLEAN /\ file' \in Files /\ out' \in {out, NoRun}
    BY FilesTyped, NoRunTyped DEF TypeOK, Guard, Go, Request, Resume, Manual, Leave
  <2>2. handle' \in [msg : 0..MaxPrompts, offset : 0..MaxUpdates] /\ seen' \in 0..MaxUpdates
        /\ reply' \in {"none"} \cup Answers \cup AskFailure
    <3>1. CASE pc' = "poll"
      BY <1>3, <1>4, <3>1, FilesTyped, RecordFacts DEF Records
    <3>2. CASE pc' # "poll"
      BY <1>4, <3>2 DEF TypeOK, waitVars
    <3>3. QED
      BY <3>1, <3>2
  <2>3. QED
    BY <1>1, <1>3, <2>1, <2>2 DEF TypeOK, Typed
<1>6. Places' /\ Ended'
  <2>1. had' \/ second' => Has(HitlFile)
    BY <1>1, <1>3 DEF Places
  <2>2. GuardFile' = GuardFile
    BY <1>1 DEF GuardFile
  <2>3. QED
    BY <1>1, <1>2, <1>3, <2>1, <2>2, FilesTyped DEF Places, Ended, Asking, HitlFile, TurnFile
<1>7. Matched' /\ Waits'
  <2>1. pc' = "poll" => rec[GuardFile].answer = "none"
    BY <1>3, <1>4, FilesTyped DEF Shown, Resettable
  <2>2. QED
    BY <1>1, <1>2, <1>3, <1>4, <2>1, FilesTyped DEF Matched, Waits, Answers
<1>8. Cleared'
  BY <1>1, <1>2, <1>3, <1>4 DEF Cleared
<1>9. QED
  BY <1>1, <1>5, <1>6, <1>7, <1>8, ControlInv

\* The answer to the diff's prompt.
LEMMA GuardResultInv ==
  ASSUME IInv, GuardResult PROVE IInv'
<1> USE DEF IInv
<1>1. Has(GuardFile) /\ rec[GuardFile].request = Signal("approval", dangerous)
  BY FilesTyped DEF GuardResult, Matched
<1>2. Marked /\ Framed /\ UNCHANGED <<pos, cycle>> /\ pos = "agent" /\ pc = "result"
  <2>1. Framed /\ UNCHANGED <<pos, cycle>> /\ pos = "agent" /\ pc = "result"
    BY DEF GuardResult, Framed, NodeStep, flowVars
  <2>2. \/ rec' = rec \/ mark_interaction_status(GuardFile, "consumed")
        \/ mark_interaction_status(GuardFile, "reconsidering")
    BY DEF GuardResult, mark_consumed
  <2>3. QED
    BY <1>1, <2>1, <2>2, FilesTyped, MarkedBy DEF Marked
<1>3. dangerous' = dangerous /\ Approved' = Approved /\ \A g \in Files : Has(g)' <=> Has(g)
  BY <1>2, ControlKept DEF Framed
<1>4. /\ pc' \in {"finish", "reconsider", "manual"} /\ UNCHANGED waitVars
      /\ had' \in {had, FALSE} /\ second' \in {second, FALSE}
      /\ pc' # "manual" => had' = had /\ second' = second
  BY DEF GuardResult, Go, Manual, Leave
<1>5. Typed
  BY <1>2, <1>4, FilesTyped, NoRunTyped DEF TypeOK, Typed, waitVars, GuardResult, Go, Manual, Leave
<1>6. Places' /\ Ended'
  <2>1. had' \/ second' => Has(HitlFile)
    BY <1>2, <1>4 DEF Places
  <2>2. GuardFile' = GuardFile
    BY <1>2 DEF GuardFile
  <2>3. QED
    BY <1>1, <1>2, <1>3, <1>4, <2>1, <2>2, FilesTyped DEF Places, Ended, Asking
<1>7. Matched' /\ Waits'
  BY <1>4 DEF Matched, Waits
<1>8. Cleared'
  <2>1. pc' = "finish" => rec[GuardFile].answer = "yes"
    BY DEF GuardResult, Go, Manual, Leave
  <2>2. pc' = "finish" => Approved
    BY <1>1, <2>1, FilesTyped, ApprovedBy
  <2>3. QED
    BY <1>2, <1>3, <1>4, <2>2 DEF Cleared
<1>9. QED
  BY <1>2, <1>5, <1>6, <1>7, <1>8, ControlInv

\* After the reconsideration the tree is clean, or a person takes over.
LEMMA ReconsideredInv ==
  ASSUME IInv, Reconsidered PROVE IInv'
<1> USE DEF IInv
<1>1. Has(GuardFile)
  BY DEF Reconsidered, Places
<1>2. Marked /\ Framed /\ UNCHANGED <<pos, cycle>> /\ pos = "agent" /\ pc = "reconsidered"
  BY <1>1, FilesTyped, MarkedBy DEF Marked, Reconsidered, Framed, NodeStep, flowVars
<1>3. dangerous' = dangerous /\ Approved' = Approved /\ \A g \in Files : Has(g)' <=> Has(g)
  BY <1>2, ControlKept DEF Framed
<1>4. /\ pc' \in {"finish", "manual"} /\ UNCHANGED waitVars
      /\ had' \in {had, FALSE} /\ second' \in {second, FALSE}
      /\ pc' = "finish" => dangerous = NoDanger
  BY DEF Reconsidered, Go, Manual, Leave
<1>5. Typed
  BY <1>2, <1>4, FilesTyped, NoRunTyped DEF TypeOK, Typed, waitVars, Reconsidered, Go, Manual, Leave
<1>6. Places' /\ Ended'
  <2>1. had' \/ second' => Has(HitlFile)
    BY <1>2, <1>4 DEF Places
  <2>2. QED
    BY <1>2, <1>3, <1>4, <2>1, FilesTyped DEF Places, Ended, Asking
<1>7. Matched' /\ Waits'
  BY <1>4 DEF Matched, Waits
<1>8. Cleared'
  BY <1>2, <1>3, <1>4 DEF Cleared
<1>9. QED
  BY <1>2, <1>5, <1>6, <1>7, <1>8, ControlInv

\* The node closes its own question.
LEMMA FinishAgentInv ==
  ASSUME IInv, FinishAgent PROVE IInv'
<1> USE DEF IInv
<1>1. had \/ second => Has(HitlFile)
  BY DEF FinishAgent, Places
<1>2. Marked /\ Framed /\ UNCHANGED <<pos, cycle>> /\ pos = "agent" /\ pc = "finish"
  BY <1>1, FilesTyped, MarkedBy DEF Marked, FinishAgent, Framed, NodeStep, flowVars, mark_consumed
<1>3. dangerous' = dangerous /\ Approved' = Approved /\ \A g \in Files : Has(g)' <=> Has(g)
  BY <1>2, ControlKept DEF Framed
<1>4. pc' = "advance" /\ UNCHANGED <<file, resumed, had, second, out>> /\ UNCHANGED waitVars
  BY DEF FinishAgent, Go
<1>5. Typed
  BY <1>2, <1>4 DEF TypeOK, Typed, waitVars
<1>6. Places' /\ Ended'
  BY <1>1, <1>2, <1>3, <1>4, FilesTyped DEF Places, Ended, Asking
<1>7. Matched' /\ Waits' /\ Cleared'
  BY <1>2, <1>3, <1>4 DEF Matched, Waits, Cleared
<1>8. QED
  BY <1>2, <1>5, <1>6, <1>7, ControlInv

\* A node is left for the next one, for publication or for good.
LEMMA LeftInv ==
  ASSUME IInv, Framed, rec' = rec, UNCHANGED waitVars, cycle' \in 0..MaxCycle,
         \/ Leave("enter") /\ pos' \in {"agent", "publish"}
         \/ Leave("enter") /\ pos' = "node" /\ (dangerous = NoDanger \/ Approved)
         \/ Leave("manual") /\ pos' = pos /\ pos = "node"
         \/ Leave("done") /\ pos' = "done" /\ (dangerous = NoDanger \/ Approved)
  PROVE  IInv'
<1> USE DEF IInv
<1>1. Marked
  BY DEF Marked
<1>2. dangerous' = dangerous /\ Approved' = Approved /\ \A g \in Files : Has(g)' <=> Has(g)
  BY <1>1, ControlKept DEF Framed
<1>3. /\ pc' \in {"enter", "manual", "done"} /\ file' = HitlFile /\ resumed' = FALSE /\ had' = FALSE
      /\ second' = FALSE /\ out' = NoRun
  BY DEF Leave
<1>4. Typed
  BY <1>3, FilesTyped, NoRunTyped DEF TypeOK, Typed, waitVars
<1>5. Places' /\ Ended' /\ Matched' /\ Waits'
  BY <1>3, NoRunTyped DEF Leave, Places, Ended, Matched, Waits, Asking
<1>6. Cleared'
  BY <1>2, <1>3 DEF Cleared, Leave
<1>7. QED
  BY <1>1, <1>4, <1>5, <1>6, ControlInv

LEMMA AdvanceInv ==
  ASSUME IInv, Advance PROVE IInv'
<1>1. dangerous = NoDanger \/ Approved
  BY DEF IInv, Cleared, Advance
<1>2. cycle' \in 0..MaxCycle
  BY DEF IInv, TypeOK, Advance
<1>3. QED
  BY <1>1, <1>2, LeftInv DEF Advance, Framed

LEMMA RouteNodeInv ==
  ASSUME IInv, RouteNode PROVE IInv'
<1>1. cycle' \in 0..MaxCycle
  BY HumanAssumption DEF IInv, TypeOK, RouteNode
<1>2. QED
  BY <1>1, LeftInv DEF RouteNode, Framed, Manual

LEMMA PublishInv ==
  ASSUME IInv, Publish PROVE IInv'
<1>1. dangerous = NoDanger \/ Approved
  BY DEF IInv, Cleared, Publish
<1>2. cycle' \in 0..MaxCycle
  BY DEF IInv, TypeOK, Publish
<1>3. QED
  BY <1>1, <1>2, LeftInv DEF Publish, Framed

\* The hitl node asks, waits again, or replays what its file holds.
LEMMA EnterNodeInv ==
  ASSUME IInv, EnterNode PROVE IInv'
<1> USE DEF IInv
<1>1. Marked /\ Framed /\ UNCHANGED <<pos, cycle>> /\ rec' = rec /\ pos = "node" /\ pc = "enter"
  BY DEF Marked, Framed, EnterNode, NodeStep, flowVars
<1>2. dangerous' = dangerous /\ Approved' = Approved /\ \A g \in Files : Has(g)' <=> Has(g)
  BY <1>1, ControlKept DEF Framed
<1>3. /\ pc' \in {"start", "poll", "result", "manual"}
      /\ pc' # "manual" => file' = NodeFile /\ had' = had /\ second' = second /\ out' = out
      /\ pc' = "manual" => Manual
      /\ pc' \in {"poll", "result"} => Has(NodeFile)
      /\ pc' # "poll" => UNCHANGED waitVars
      /\ pc' = "poll" => /\ rec[NodeFile].status = "waiting" /\ handle' = rec[NodeFile].handle
                         /\ seen' = rec[NodeFile].handle.offset /\ reply' = "none"
  BY DEF EnterNode, Request, Resume, Manual, Leave, Has
<1>4. ~had' /\ ~second'
  <2>1. ~had /\ ~second
    BY <1>1 DEF Places
  <2>2. QED
    BY <1>3, <2>1 DEF Manual, Leave
<1>5. Typed
  <2>1. resumed' \in BOOLEAN
    BY DEF TypeOK, EnterNode, Request, Resume, Manual, Leave
  <2>2. handle' \in [msg : 0..MaxPrompts, offset : 0..MaxUpdates] /\ seen' \in 0..MaxUpdates
        /\ reply' \in {"none"} \cup Answers \cup AskFailure
    <3>1. CASE pc' = "poll"
      BY <1>3, <3>1, FilesTyped, RecordFacts DEF Records
    <3>2. CASE pc' # "poll"
      BY <1>3, <3>2 DEF TypeOK, waitVars
    <3>3. QED
      BY <3>1, <3>2
  <2>3. QED
    BY <1>1, <1>3, <2>1, <2>2, FilesTyped, NoRunTyped DEF TypeOK, Typed, Manual, Leave
<1>6. Places' /\ Ended'
  BY <1>1, <1>2, <1>3, <1>4, FilesTyped DEF Places, Ended, Asking
<1>7. Matched' /\ Waits'
  <2>1. pc' = "poll" => rec[NodeFile].answer = "none"
    BY <1>3, FilesTyped DEF Shown, Resettable
  <2>2. NodeFile[1] = "node"
    BY DEF NodeFile
  <2>3. QED
    BY <1>1, <1>2, <1>3, <2>1, <2>2, FilesTyped DEF Matched, Waits, Answers
<1>8. Cleared'
  BY <1>1, <1>2, <1>3 DEF Cleared
<1>9. QED
  BY <1>1, <1>5, <1>6, <1>7, <1>8, ControlInv

LEMMA NodeResultInv ==
  ASSUME IInv, NodeResult PROVE IInv'
<1> USE DEF IInv
<1>1. file = NodeFile /\ Has(NodeFile) /\ ~had /\ ~second
  BY DEF NodeResult, Places, Matched, Asking
<1>2. Marked /\ Framed /\ UNCHANGED <<pos, cycle>> /\ pos = "node" /\ pc = "result"
  BY <1>1, FilesTyped, MarkedBy DEF Marked, NodeResult, Framed, NodeStep, flowVars, mark_consumed
<1>3. dangerous' = dangerous /\ Approved' = Approved /\ \A g \in Files : Has(g)' <=> Has(g)
  BY <1>2, ControlKept DEF Framed
<1>4. /\ pc' \in {"route", "manual"} /\ UNCHANGED waitVars /\ ~had' /\ ~second'
  BY <1>1 DEF NodeResult, Go, Manual, Leave
<1>5. Typed
  BY <1>2, <1>4, FilesTyped, NoRunTyped DEF TypeOK, Typed, waitVars, NodeResult, Go, Manual, Leave
<1>6. Places' /\ Ended' /\ Matched' /\ Waits' /\ Cleared'
  BY <1>2, <1>3, <1>4 DEF Places, Ended, Matched, Waits, Cleared, Asking
<1>7. QED
  BY <1>2, <1>5, <1>6, ControlInv

\* The publish node's gate: clean, approved before, or asked about now.
LEMMA EnterPublishInv ==
  ASSUME IInv, EnterPublish PROVE IInv'
<1> USE DEF IInv
<1>1. ~had /\ ~second
  BY DEF EnterPublish, Places
<1>2. Marked /\ Framed /\ UNCHANGED <<pos, cycle>> /\ pos = "publish" /\ pc = "enter"
  <2>1. Framed /\ UNCHANGED <<pos, cycle>> /\ pos = "publish" /\ pc = "enter"
    BY DEF EnterPublish, Framed, NodeStep, flowVars
  <2>2. \/ rec' = rec
        \/ Has(PublishFile) /\ mark_interaction_status(PublishFile, "consumed")
    BY DEF EnterPublish, mark_consumed, Has
  <2>3. QED
    BY <2>1, <2>2, FilesTyped, MarkedBy DEF Marked
<1>3. dangerous' = dangerous /\ Approved' = Approved /\ \A g \in Files : Has(g)' <=> Has(g)
  BY <1>2, ControlKept DEF Framed
<1>4. /\ pc' \in {"publish", "start"} /\ UNCHANGED waitVars /\ ~had' /\ ~second'
      /\ pc' = "start" => file' = PublishFile /\ dangerous # NoDanger
  BY <1>1 DEF EnterPublish, Go, Request
<1>5. pc' = "publish" => dangerous = NoDanger \/ Approved
  BY PriorApproved DEF EnterPublish, Go, Request
<1>6. Typed
  BY <1>2, <1>4, FilesTyped DEF TypeOK, Typed, waitVars, EnterPublish, Go, Request
<1>7. Places' /\ Ended' /\ Matched' /\ Waits' /\ Cleared'
  <2>1. PublishFile' = PublishFile /\ PublishFile[1] = "publish"
    BY <1>2 DEF PublishFile
  <2>2. QED
    BY <1>2, <1>3, <1>4, <1>5, <2>1, FilesTyped DEF Places, Ended, Matched, Waits, Cleared, Asking
<1>8. QED
  BY <1>2, <1>6, <1>7, ControlInv

LEMMA PublishResultInv ==
  ASSUME IInv, PublishResult PROVE IInv'
<1> USE DEF IInv
<1>1. /\ file = PublishFile /\ Has(PublishFile) /\ ~had /\ ~second
      /\ rec[PublishFile].request = Signal("approval", dangerous)
  BY FilesTyped DEF PublishResult, Places, Matched, Asking
<1>2. Marked /\ Framed /\ UNCHANGED <<pos, cycle>> /\ pos = "publish" /\ pc = "result"
  BY <1>1, FilesTyped, MarkedBy DEF Marked, PublishResult, Framed, NodeStep, flowVars, mark_consumed
<1>3. dangerous' = dangerous /\ Approved' = Approved /\ \A g \in Files : Has(g)' <=> Has(g)
  BY <1>2, ControlKept DEF Framed
<1>4. /\ pc' \in {"publish", "manual"} /\ UNCHANGED waitVars /\ ~had' /\ ~second'
      /\ pc' = "publish" => rec[PublishFile].answer = "yes"
  BY <1>1 DEF PublishResult, Go, Manual, Leave
<1>5. pc' = "publish" => Approved
  BY <1>1, <1>4, FilesTyped, ApprovedBy
<1>6. Typed
  BY <1>2, <1>4, FilesTyped, NoRunTyped DEF TypeOK, Typed, waitVars, PublishResult, Go, Manual, Leave
<1>7. Places' /\ Ended' /\ Matched' /\ Waits' /\ Cleared'
  BY <1>2, <1>3, <1>4, <1>5 DEF Places, Ended, Matched, Waits, Cleared, Asking
<1>8. QED
  BY <1>2, <1>6, <1>7, ControlInv

-----------------------------------------------------------------------------
(* The steps that change the tree.                                          *)

\* The tree changes where no gate has been passed for it.
LEMMA DiffInv ==
  ASSUME IInv, UNCHANGED <<cfg, rec, pos, cycle, file, resumed, had, second, waitVars, chatVars, envVars>>,
         diff' \in Diffs, out' \in RunEnds,
         out' \in Asks => cfg.hitl,
         \/ pos = "agent" /\ pc = "reconsider" /\ pc' = "reconsidered"
         \/ pos = "agent" /\ pc = "invoke" /\ pc' = "ran" /\ out' # NoRun
         \/ pos = "publish" /\ pc = "enter" /\ pc' = "enter" /\ out' = out
  PROVE  IInv'
<1> USE DEF IInv
<1>1. TypeOK'
  BY DEF TypeOK, waitVars, chatVars, envVars
<1>2. UNCHANGED <<sent, updates>> /\ \A g \in Files : Has(g)' <=> Has(g)
  BY DEF chatVars, Has
<1>3. Shown' /\ RepliesToSent'
  BY <1>2 DEF Shown, RepliesToSent, Said
<1>4. Places' /\ Ended' /\ MayAsk' /\ Matched' /\ Waits' /\ Cleared'
  BY <1>2, FilesTyped DEF Places, Ended, MayAsk, Matched, Waits, Cleared, Asking, GuardFile
<1>5. QED
  BY <1>1, <1>3, <1>4

LEMMA InvokeInv ==
  ASSUME IInv, Invoke PROVE IInv'
<1>1. out' \in RunEnds /\ out' # NoRun
  BY DEF Invoke, RunEnds, Ends, Asks, NoRun
<1>2. out' \in Asks => cfg.hitl
  BY DEF Invoke, Ends, Asks
<1>3. QED
  BY <1>1, <1>2, DiffInv DEF Invoke

LEMMA LateWriteInv ==
  ASSUME IInv, LateWrite PROVE IInv'
<1>1. out \in RunEnds /\ (out \in Asks => cfg.hitl)
  BY DEF IInv, TypeOK, MayAsk
<1>2. QED
  BY <1>1, DiffInv DEF LateWrite, nodeVars

-----------------------------------------------------------------------------
(* The asks.                                                                *)

LEMMA MaxTwo ==
  ASSUME NEW a \in Nat, NEW b \in Nat PROVE Max({a, b}) \in {a, b}
<1>1. \E x \in {a, b} : \A y \in {a, b} : x >= y
  <2>1. CASE a >= b
    BY <2>1
  <2>2. CASE b >= a
    BY <2>2
  <2>3. QED
    BY <2>1, <2>2
<1>2. QED
  BY <1>1 DEF Max

LEMMA MinIn ==
  ASSUME NEW S \in SUBSET Nat, S # {} PROVE Min(S) \in S
<1>1. PICK x \in S : \A y \in S : ~(<<y, x>> \in OpToRel(<, Nat))
  BY WFMin, NatLessThanWellFounded
<1>2. ASSUME NEW y \in S PROVE x <= y
  <2>1. x \in Nat /\ y \in Nat
    OBVIOUS
  <2>2. y < x => <<y, x>> \in OpToRel(<, Nat)
    BY <2>1 DEF OpToRel
  <2>3. ~(y < x)
    BY <1>1, <2>2
  <2>4. QED
    BY <2>1, <2>3
<1>3. QED
  BY <1>2 DEF Min

LEMMA ElementOf ==
  ASSUME NEW S, NEW q \in Seq(S), NEW i \in 1..Len(q) PROVE q[i] \in S
  OBVIOUS

\* The chat only grows: what it showed and what was answered stands.
Grown ==
  /\ DOMAIN sent \subseteq DOMAIN sent' /\ \A i \in DOMAIN sent : sent'[i] = sent[i]
  /\ DOMAIN updates \subseteq DOMAIN updates' /\ \A i \in DOMAIN updates : updates'[i] = updates[i]

LEMMA GrownKept ==
  ASSUME IInv, Grown, UNCHANGED cfg
  PROVE  /\ \A m, v : Said(m, v) => Said(m, v)'
         /\ dangerous' = dangerous => (Approved => Approved')
         /\ rec' = rec => Shown'
<1> USE DEF IInv
<1>1. \A m, v : Said(m, v) => Said(m, v)'
  BY DEF Said, Grown
<1>2. ASSUME dangerous' = dangerous, Approved PROVE Approved'
  <2>1. PICK i \in DOMAIN updates :
          /\ updates[i].val = "yes" /\ sent[updates[i].to].request = Signal("approval", dangerous)
          /\ sent[updates[i].to].own => cfg.hitl
    BY <1>2 DEF Approved
  <2>2. updates[i].to \in DOMAIN sent /\ i \in DOMAIN updates' /\ updates'[i] = updates[i]
    BY <2>1 DEF RepliesToSent, Grown
  <2>3. sent'[updates[i].to] = sent[updates[i].to]
    BY <2>2 DEF Grown
  <2>4. QED
    BY <1>2, <2>1, <2>2, <2>3 DEF Approved, Signal
<1>3. ASSUME rec' = rec PROVE Shown'
  BY <1>1, <1>3 DEF Shown, Has, Grown
<1>4. QED
  BY <1>1, <1>2, <1>3

\* A prompt goes out, or does not, and its file is next.
LEMMA StartAskInv ==
  ASSUME IInv, StartAsk PROVE IInv'
<1> USE DEF IInv
<1> DEFINE p == Prompt(file, signal)
<1>1. signal \in Signals /\ signal' = signal
  <2>1. signal' = signal
    BY DEF StartAsk, signal, dangerous, evaluate_diff_gate, flowVars
  <2>2. QED
    BY <2>1, SignalTyped DEF StartAsk
<1>2. /\ UNCHANGED <<cfg, rec, pos, cycle, diff, file, resumed, had, second, out, updates, late, stop>>
      /\ pc = "start" /\ pc' = "write" /\ reply' = "none" /\ seen' = handle'.offset
      /\ sent' \in {sent, Append(sent, p)}
      /\ \/ handle' = NoHandle
         \/ /\ handle' = [msg |-> Len(sent) + 1, offset |-> Len(updates)]
            /\ sent' = Append(sent, p)
  BY DEF StartAsk, Undelivered, flowVars
<1>a. /\ p \in [own : BOOLEAN, request : Signals] /\ p = Prompt(file, signal)'
      /\ p.own => cfg.hitl
  <2>1. p.own => file = HitlFile
    BY DEF Prompt
  <2>2. QED
    BY <1>1, <1>2, <2>1 DEF Prompt, Ended, MayAsk
<1> HIDE DEF p
<1>3. /\ sent \in Seq([own : BOOLEAN, request : Signals]) /\ Len(sent) < MaxPrompts /\ MaxPrompts \in Nat
      /\ updates \in Seq([to : 1..MaxPrompts, val : Answers]) /\ Len(updates) <= MaxUpdates
      /\ MaxUpdates \in Nat
  BY HumanAssumption DEF TypeOK, StartAsk
<1>4. /\ sent' \in Seq([own : BOOLEAN, request : Signals]) /\ Len(sent') <= MaxPrompts /\ Grown
      /\ sent' = Append(sent, p) => Len(sent) + 1 \in DOMAIN sent' /\ sent'[Len(sent) + 1] = p
  <2>1. CASE sent' = sent
    <3>1. sent' # Append(sent, p)
      BY <1>3, <2>1
    <3>2. QED
      BY <1>2, <1>3, <2>1, <3>1 DEF Grown
  <2>2. CASE sent' = Append(sent, p)
    <3>1. /\ sent' \in Seq([own : BOOLEAN, request : Signals]) /\ Len(sent') = Len(sent) + 1
          /\ \A i \in 1..Len(sent) : sent'[i] = sent[i]
          /\ sent'[Len(sent) + 1] = p
      BY <1>a, <1>3, <2>2
    <3>2. DOMAIN sent = 1..Len(sent) /\ DOMAIN sent' = 1..(Len(sent) + 1) /\ Len(sent) \in Nat
      BY <1>3, <3>1
    <3>3. QED
      BY <1>2, <1>3, <3>1, <3>2 DEF Grown
  <2>3. QED
    BY <1>2, <2>1, <2>2
<1>5. handle' \in [msg : 0..MaxPrompts, offset : 0..MaxUpdates]
  BY <1>2, <1>3 DEF NoHandle
<1>6. TypeOK'
  <2>1. confirmed' \in 0..MaxUpdates /\ faults' \in 0..MaxFaults
    BY <1>3, HumanAssumption DEF TypeOK, StartAsk
  <2>2. QED
    BY <1>2, <1>3, <1>4, <1>5, <2>1 DEF TypeOK
<1>7. dangerous' = dangerous /\ \A g \in Files : Has(g)' <=> Has(g)
  BY <1>2, DangerSame DEF Has
<1>8. Shown' /\ RepliesToSent'
  <2>1. ASSUME NEW m \in DOMAIN sent', sent'[m].own PROVE cfg.hitl
    BY <1>2, <1>3, <1>4, <1>a, <2>1 DEF RepliesToSent, Grown
  <2>2. QED
    BY <1>2, <1>4, <2>1, GrownKept DEF RepliesToSent, Grown
<1>9. Places' /\ Ended' /\ MayAsk'
  BY <1>2, <1>7, FilesTyped DEF Places, Ended, MayAsk, Asking, GuardFile, PublishFile
<1>10. Matched' /\ Waits'
  <2>1. Matched'
    BY <1>2, <1>7 DEF Matched, TypeOK
  <2>2. Waits'
    BY <1>a, <1>2, <1>4 DEF Waits, NoHandle
  <2>3. QED
    BY <2>1, <2>2
<1>11. Cleared'
  BY <1>2, <1>4, <1>7, GrownKept DEF Cleared
<1>12. QED
  BY <1>6, <1>8, <1>9, <1>10, <1>11

\* The prompt's file is written, as waiting or as undelivered.
LEMMA WriteWaitingInv ==
  ASSUME IInv, WriteWaiting PROVE IInv'
<1> USE DEF IInv
<1> DEFINE r == rec'[file]
<1>1. /\ UNCHANGED <<cfg, flowVars, waitVars, chatVars, envVars>> /\ pc = "write" /\ pc' = "poll"
      /\ UNCHANGED <<file, resumed, had, second, out>>
  BY DEF WriteWaiting, Go
<1>2. file \in Files /\ signal \in Signals
  BY <1>1, SignalTyped DEF TypeOK
<1>3. /\ r \in Records /\ r.request = signal /\ r.handle = handle /\ r.answer = "none"
      /\ \A g \in Files : g # file => rec'[g] = rec[g]
      /\ rec' \in [Files -> Records \cup {NoRecord}]
  <2>1. handle \in [msg : 0..MaxPrompts, offset : 0..MaxUpdates]
        /\ rec \in [Files -> Records \cup {NoRecord}]
    BY DEF TypeOK
  <2>2. r = [status |-> IF handle # NoHandle THEN "waiting" ELSE "transport_error",
             request |-> signal, handle |-> handle, answer |-> "none",
             failure |-> IF handle # NoHandle THEN "none" ELSE "transport_error"]
    BY <1>2, <2>1 DEF WriteWaiting
  <2>3. r \in Records
    BY <1>2, <2>1, <2>2 DEF Records, AskFailure
  <2>4. /\ \A g \in Files : g # file => rec'[g] = rec[g]
        /\ rec' = [rec EXCEPT ![file] = r]
    BY <1>2, <2>1 DEF WriteWaiting
  <2>5. QED
    BY <2>1, <2>2, <2>3, <2>4
<1> HIDE DEF r
<1>4. Has(file)' /\ \A g \in Files : Has(g) => Has(g)'
  <2>1. r # NoRecord
    BY <1>3 DEF Records, NoRecord, AskFailure
  <2>2. QED
    BY <1>1, <1>3, <2>1 DEF Has, r
<1>5. TypeOK'
  BY <1>1, <1>3 DEF TypeOK, flowVars, waitVars, chatVars, envVars
<1>6. dangerous' = dangerous /\ UNCHANGED <<sent, updates, handle, reply, pos, cycle, diff>>
  BY <1>1, DangerSame DEF flowVars, chatVars, waitVars
<1>7. Shown' /\ RepliesToSent' /\ Approved' = Approved
  <2>1. ASSUME NEW g \in Files, Has(g)'
        PROVE  /\ rec'[g].handle # NoHandle =>
                    rec'[g].handle.msg \in DOMAIN sent /\ sent[rec'[g].handle.msg] = Prompt(g, rec'[g].request)
               /\ rec'[g].answer # "none" =>
                    /\ rec'[g].status \notin Resettable /\ rec'[g].handle # NoHandle
                    /\ Said(rec'[g].handle.msg, rec'[g].answer)
    <3>1. CASE g = file
      BY <1>1, <1>3, <3>1 DEF Waits, r
    <3>2. CASE g # file
      BY <1>3, <2>1, <3>2 DEF Shown, Has
    <3>3. QED
      BY <3>1, <3>2
  <2>2. Shown'
    BY <1>6, <2>1 DEF Shown, Said
  <2>3. QED
    BY <1>1, <1>6, <2>2 DEF RepliesToSent, Approved
<1>8. Places' /\ Ended' /\ MayAsk'
  BY <1>1, <1>4, <1>6, FilesTyped DEF Places, Ended, MayAsk, Asking, NodeFile, PublishFile, GuardFile
<1>9. Matched'
  <2>1. Gated(file) => signal = Signal("approval", dangerous)
    BY DEF signal, Gated
  <2>2. QED
    BY <1>1, <1>3, <1>4, <1>6, <2>1 DEF Matched, r
<1>10. Waits'
  <2>1. reply = "none"
    BY <1>1 DEF Waits
  <2>2. QED
    BY <1>1, <1>3, <1>6, <2>1 DEF Waits, r, Answers
<1>11. Cleared'
  BY <1>1, <1>6, <1>7 DEF Cleared
<1>12. QED
  BY <1>5, <1>7, <1>8, <1>9, <1>10, <1>11

\* The wait moves on: at most one reply is taken, and it is to this prompt.
LEMMA WaitInv ==
  ASSUME IInv, pc = "poll",
         UNCHANGED <<cfg, rec, flowVars, nodeVars, handle, sent, updates, late, stop>>,
         seen' \in 0..MaxUpdates, confirmed' \in 0..MaxUpdates, faults' \in 0..MaxFaults,
         reply' \in {"none"} \cup Answers \cup AskFailure,
         reply' \in Answers => handle # NoHandle /\ Said(handle.msg, reply')
  PROVE  IInv'
<1> USE DEF IInv
<1>1. TypeOK'
  BY DEF TypeOK, flowVars, nodeVars
<1>2. /\ dangerous' = dangerous /\ Approved' = Approved /\ signal' = signal
      /\ UNCHANGED <<pos, cycle, diff, pc, file, resumed, had, second, out>>
      /\ \A m, v : Said(m, v)' = Said(m, v)
  BY DangerSame DEF Approved, Said, signal, flowVars, nodeVars
<1>3. Places' /\ Ended' /\ MayAsk' /\ Matched' /\ Shown' /\ RepliesToSent' /\ Cleared'
  BY <1>2 DEF Places, Ended, MayAsk, Matched, Shown, RepliesToSent, Cleared, Has, Asking, GuardFile,
              PublishFile
<1>4. Waits'
  BY <1>2 DEF Waits, Said
<1>5. QED
  BY <1>1, <1>3, <1>4

\* The first update that is a reply to this prompt ends the wait.
LEMMA FetchInv ==
  ASSUME IInv, Fetch PROVE IInv'
<1> USE DEF IInv
<1> DEFINE from == Max({seen, confirmed})
           hits == {i \in (from + 1)..Len(updates) : IsReply(updates[i])}
<1>1. seen \in Nat /\ confirmed \in Nat /\ updates \in Seq([to : 1..MaxPrompts, val : Answers])
      /\ seen \in 0..MaxUpdates /\ confirmed \in 0..MaxUpdates /\ Len(updates) <= MaxUpdates
      /\ MaxUpdates \in Nat
  BY HumanAssumption DEF TypeOK
<1>2. from \in {seen, confirmed}
  BY <1>1, MaxTwo
<1>3. /\ pc = "poll" /\ handle # NoHandle /\ confirmed' = from
      /\ UNCHANGED <<cfg, rec, flowVars, nodeVars, handle, sent, updates, late, envVars>>
      /\ hits = {} => seen' = Len(updates) /\ reply' = reply
      /\ hits # {} => seen' = Min(hits) /\ reply' = updates[Min(hits)].val
      /\ reply = "none"
  BY DEF Fetch, Polling
<1> HIDE DEF from
<1>4. hits \in SUBSET Nat /\ hits \subseteq 1..Len(updates)
  <2>1. from \in Nat /\ Len(updates) \in Nat
    BY <1>1, <1>2
  <2>2. \A i \in (from + 1)..Len(updates) : i \in Nat /\ i \in 1..Len(updates)
    BY <2>1
  <2>3. QED
    BY <2>2
<1> HIDE DEF hits
<1>5. CASE hits = {}
  BY <1>1, <1>2, <1>3, <1>5, WaitInv DEF TypeOK, envVars, Answers
<1>6. CASE hits # {}
  <2>1. Min(hits) \in hits
    BY <1>4, <1>6, MinIn
  <2>2. Min(hits) \in 1..Len(updates) /\ IsReply(updates[Min(hits)])
    BY <1>4, <2>1 DEF hits
  <2>3. updates[Min(hits)] \in [to : 1..MaxPrompts, val : Answers]
    BY <1>1, <2>2, ElementOf
  <2>4. updates[Min(hits)] = [to |-> handle.msg, val |-> reply'] /\ reply' \in Answers
    BY <1>3, <1>6, <2>2, <2>3 DEF IsReply
  <2>5. Said(handle.msg, reply')
    BY <1>1, <2>2, <2>4 DEF Said
  <2>6. seen' \in 0..MaxUpdates /\ confirmed' \in 0..MaxUpdates
    BY <1>1, <1>2, <1>3, <1>6, <2>2
  <2>7. QED
    BY <1>3, <2>4, <2>5, <2>6, WaitInv DEF TypeOK, envVars
<1>7. QED
  BY <1>5, <1>6

LEMMA GiveUpInv ==
  ASSUME IInv, NEW why \in AskFailure \ {"invalid_response"}, GiveUp(why) PROVE IInv'
<1> USE DEF IInv
<1>1. why \in {"cancelled", "transport_error", "timeout"}
  BY DEF AskFailure
<1>2. faults' = faults \/ (faults < MaxFaults /\ faults' = faults + 1)
  BY <1>1 DEF GiveUp
<1>3. faults' \in 0..MaxFaults
  BY <1>2, HumanAssumption DEF TypeOK
<1>4. reply' = why /\ why \notin Answers
  BY <1>1 DEF GiveUp, Answers
<1>5. QED
  BY <1>3, <1>4, WaitInv DEF TypeOK, GiveUp, Polling, chatVars

\* The result of the wait reaches its file.
LEMMA WriteAnswerInv ==
  ASSUME IInv, WriteAnswer PROVE IInv'
<1> USE DEF IInv
<1> DEFINE r == rec'[file]
           failed == reply \in AskFailure
<1>1. /\ UNCHANGED <<cfg, flowVars, chatVars, envVars>> /\ pc = "poll" /\ pc' = "result"
      /\ UNCHANGED <<file, resumed, had, second, out>>
      /\ handle' = NoHandle /\ seen' = 0 /\ reply' = "none" /\ reply # "none"
  BY DEF WriteAnswer, Go
<1>2. file \in Files /\ Has(file) /\ rec[file] \in Records
  BY <1>1, RecordFacts DEF TypeOK, Matched
<1>3. failed \/ (reply \in Answers /\ ~failed)
  BY <1>1 DEF TypeOK, Answers, AskFailure
<1>4. /\ r = [rec[file] EXCEPT !.status = IF failed THEN reply ELSE "answered",
                               !.answer = IF failed THEN "none" ELSE reply,
                               !.failure = IF failed THEN reply ELSE "none"]
      /\ \A g \in Files : g # file => rec'[g] = rec[g]
      /\ rec' = [rec EXCEPT ![file] = r]
  <2>1. rec \in [Files -> Records \cup {NoRecord}]
    BY DEF TypeOK
  <2>2. rec' = [rec EXCEPT ![file].status = IF failed THEN reply ELSE "answered",
                           ![file].answer = IF failed THEN "none" ELSE reply,
                           ![file].failure = IF failed THEN reply ELSE "none"]
    BY DEF WriteAnswer
  <2>3. r = [rec[file] EXCEPT !.status = IF failed THEN reply ELSE "answered",
                              !.answer = IF failed THEN "none" ELSE reply,
                              !.failure = IF failed THEN reply ELSE "none"]
    BY <1>2, <2>1, <2>2
  <2>4. \A g \in Files : g # file => rec'[g] = rec[g]
    BY <1>2, <2>1, <2>2
  <2>5. QED
    BY <1>2, <2>1, <2>2, <2>3, <2>4
<1>5. /\ r \in Records /\ r.request = rec[file].request /\ r.handle = rec[file].handle
      /\ failed => r.answer = "none"
      /\ ~failed => r.answer = reply /\ r.status = "answered"
  BY <1>2, <1>3, <1>4 DEF Records
<1> HIDE DEF r, failed
<1>6. Has(file)' /\ \A g \in Files : Has(g) => Has(g)'
  <2>1. r # NoRecord
    BY <1>5 DEF Records, NoRecord, AskFailure
  <2>2. QED
    BY <1>1, <1>4, <2>1 DEF Has, r
<1>7. TypeOK'
  <2>1. rec' \in [Files -> Records \cup {NoRecord}]
    BY <1>4, <1>5 DEF TypeOK
  <2>2. NoHandle \in [msg : 0..MaxPrompts, offset : 0..MaxUpdates] /\ 0 \in 0..MaxUpdates
    BY HumanAssumption DEF NoHandle
  <2>3. QED
    BY <1>1, <2>1, <2>2 DEF TypeOK, flowVars, chatVars, envVars
<1>8. dangerous' = dangerous /\ UNCHANGED <<sent, updates, pos, cycle, diff>>
  BY <1>1, DangerSame DEF flowVars, chatVars
<1>9. Shown' /\ RepliesToSent' /\ Approved' = Approved
  <2>1. ASSUME NEW g \in Files, Has(g)'
        PROVE  /\ rec'[g].handle # NoHandle =>
                    rec'[g].handle.msg \in DOMAIN sent /\ sent[rec'[g].handle.msg] = Prompt(g, rec'[g].request)
               /\ rec'[g].answer # "none" =>
                    /\ rec'[g].status \notin Resettable /\ rec'[g].handle # NoHandle
                    /\ Said(rec'[g].handle.msg, rec'[g].answer)
    <3>1. CASE g = file
      <4>1. r.handle # NoHandle => r.handle.msg \in DOMAIN sent /\ sent[r.handle.msg] = Prompt(file, r.request)
        BY <1>2, <1>5 DEF Shown
      <4>2. r.answer # "none" => ~failed
        BY <1>5
      <4>3. ~failed => r.handle # NoHandle /\ Said(r.handle.msg, reply)
        BY <1>1, <1>3, <1>5 DEF Waits
      <4>4. "answered" \notin Resettable
        BY DEF Resettable, AskFailure
      <4>5. QED
        BY <1>5, <3>1, <4>1, <4>2, <4>3, <4>4 DEF r
    <3>2. CASE g # file
      BY <1>4, <2>1, <3>2 DEF Shown, Has
    <3>3. QED
      BY <3>1, <3>2
  <2>2. Shown'
    BY <1>8, <2>1 DEF Shown, Said
  <2>3. QED
    BY <1>1, <1>8, <2>2 DEF RepliesToSent, Approved
<1>10. Places' /\ Ended' /\ MayAsk'
  BY <1>1, <1>6, <1>8, FilesTyped DEF Places, Ended, MayAsk, Asking, NodeFile, PublishFile, GuardFile
<1>11. Matched' /\ Waits'
  BY <1>1, <1>5, <1>6, <1>8 DEF Matched, Waits, r
<1>12. Cleared'
  BY <1>1, <1>8, <1>9 DEF Cleared
<1>13. QED
  BY <1>7, <1>9, <1>10, <1>11, <1>12

-----------------------------------------------------------------------------
(* The operator, the person, the clock and the process.                     *)

\* A parked task's files are reset or closed, no answer among them.
LEMMA ParkedInv ==
  ASSUME IInv, UNCHANGED <<cfg, cycle, diff, file, resumed, had, second, out, waitVars, chatVars, faults>>,
         stop' \in BOOLEAN, rec' \in [Files -> Records \cup {NoRecord}],
         \A g \in Files : \/ rec'[g] = rec[g] /\ (Has(g) <=> Has(g)')
                          \/ ~Has(g)'
                          \/ /\ Has(g) /\ Has(g)' /\ rec[g].answer = "none" /\ rec'[g].answer = "none"
                             /\ rec'[g].handle = rec[g].handle /\ rec'[g].request = rec[g].request,
         \/ pc \in {"manual", "failed"} /\ pc' = "enter" /\ pos' = pos
         \/ /\ pc = "manual" /\ pc' = "done" /\ pos' = "closed"
            /\ \A g \in Files : Has(g) => Has(g)'
  PROVE  IInv'
<1> USE DEF IInv
<1>1. TypeOK'
  BY DEF TypeOK, waitVars, chatVars
<1>2. UNCHANGED <<sent, updates>> /\ dangerous' = dangerous
  BY DangerSame DEF chatVars
<1>3. Approved' = Approved /\ RepliesToSent'
  BY <1>2 DEF Approved, RepliesToSent
<1>4. Shown'
  BY <1>2 DEF Shown, Said
<1>5. Places' /\ Ended' /\ MayAsk' /\ Matched' /\ Waits'
  BY FilesTyped DEF Places, Ended, MayAsk, Matched, Waits, Asking
<1>6. Cleared'
  BY <1>2, <1>3 DEF Cleared, Places
<1>7. QED
  BY <1>1, <1>3, <1>4, <1>5, <1>6

LEMMA ContinueInv ==
  ASSUME IInv, Continue PROVE IInv'
<1> USE DEF IInv
<1>1. rec' = [f \in Files |-> IF rec[f].status \in Resettable THEN NoRecord ELSE rec[f]]
  BY DEF Continue, reset_pending_interactions
<1>2. \A g \in Files : rec'[g] \in {NoRecord, rec[g]}
  BY <1>1
<1>3. rec' \in [Files -> Records \cup {NoRecord}]
  BY <1>1, <1>2 DEF TypeOK
<1>4. QED
  BY <1>2, <1>3, ParkedInv DEF Continue, Go, flowVars, Has

LEMMA FinalizeInv ==
  ASSUME IInv, Finalize PROVE IInv'
<1> USE DEF IInv
<1>1. rec' = [f \in Files |-> IF rec[f].status \in Resettable
                              THEN [rec[f] EXCEPT !.status = "consumed"] ELSE rec[f]]
  BY DEF Finalize, consume_pending_interactions
<1>2. ASSUME NEW g \in Files
      PROVE  /\ rec'[g] \in Records \cup {NoRecord}
             /\ \/ rec'[g] = rec[g]
                \/ /\ Has(g) /\ Has(g)' /\ rec[g].answer = "none" /\ rec'[g].answer = "none"
                   /\ rec'[g].handle = rec[g].handle /\ rec'[g].request = rec[g].request
  <2>1. CASE rec[g].status \in Resettable
    <3>1. Has(g) /\ rec[g] \in Records /\ rec[g].answer = "none"
      <4>1. rec[g].status # "absent"
        BY <2>1 DEF Resettable, AskFailure
      <4>2. QED
        BY <2>1, <4>1, RecordFacts DEF Shown
    <3>2. rec'[g] = [rec[g] EXCEPT !.status = "consumed"]
      BY <1>1, <2>1
    <3>3. /\ rec'[g] \in Records /\ rec'[g].answer = "none"
          /\ rec'[g].handle = rec[g].handle /\ rec'[g].request = rec[g].request
          /\ rec'[g].status = "consumed"
      BY <3>1, <3>2 DEF Records
    <3>4. QED
      BY <3>1, <3>3 DEF Has, NoRecord
  <2>2. CASE rec[g].status \notin Resettable
    BY <1>1, <2>2 DEF TypeOK
  <2>3. QED
    BY <2>1, <2>2
<1>3. rec' \in [Files -> Records \cup {NoRecord}]
  BY <1>1, <1>2
<1>4. QED
  BY <1>2, <1>3, ParkedInv DEF Finalize, Go, envVars, TypeOK, Has

LEMMA CrashInv ==
  ASSUME IInv, Crash PROVE IInv'
<1> USE DEF IInv
<1>1. faults' \in 0..MaxFaults /\ UNCHANGED <<cfg, rec, flowVars, chatVars>>
  BY HumanAssumption DEF Crash, TypeOK
<1>2. NoHandle \in [msg : 0..MaxPrompts, offset : 0..MaxUpdates] /\ 0 \in 0..MaxUpdates
  BY HumanAssumption DEF NoHandle
<1>3. TypeOK'
  BY <1>1, <1>2, FilesTyped, NoRunTyped DEF TypeOK, Crash, Leave, flowVars, chatVars
<1>4. dangerous' = dangerous /\ UNCHANGED <<pos, cycle, sent, updates>>
  BY <1>1, DangerSame DEF flowVars, chatVars
<1>5. Shown' /\ RepliesToSent' /\ Approved' = Approved
  BY <1>1, <1>4 DEF Shown, RepliesToSent, Approved, Has, Said
<1>6. pc' = "enter" /\ ~had' /\ ~second' /\ out' = NoRun /\ pos \notin {"done", "closed"}
  BY DEF Crash, Leave, Places
<1>7. Places' /\ Ended' /\ MayAsk' /\ Matched' /\ Waits'
  BY <1>4, <1>6, NoRunTyped DEF Places, Ended, MayAsk, Matched, Waits, Asking, TypeOK
<1>8. Cleared'
  BY <1>4, <1>5, <1>6 DEF Cleared
<1>9. QED
  BY <1>3, <1>5, <1>7, <1>8

\* The program stands still while the person answers, the clock moves or a stop is
\* asked for.
LEMMA OutsideInv ==
  ASSUME IInv, TypeOK', Grown, RepliesToSent', UNCHANGED <<cfg, rec, flowVars, nodeVars, waitVars>>
  PROVE  IInv'
<1> USE DEF IInv
<1>1. /\ UNCHANGED <<pos, cycle, diff, pc, file, resumed, had, second, out, handle, seen, reply>>
      /\ dangerous' = dangerous /\ signal' = signal /\ \A g \in Files : Has(g)' <=> Has(g)
  BY DangerSame DEF flowVars, nodeVars, waitVars, Has, signal
<1>2. Shown' /\ (Approved => Approved') /\ \A m, v : Said(m, v) => Said(m, v)'
  BY <1>1, GrownKept
<1>3. Places' /\ Ended' /\ MayAsk' /\ Matched'
  BY <1>1 DEF Places, Ended, MayAsk, Matched, Asking, GuardFile, PublishFile, Has
<1>4. Waits'
  BY <1>1, <1>2 DEF Waits, Grown
<1>5. Cleared'
  BY <1>1, <1>2 DEF Cleared
<1>6. QED
  BY <1>2, <1>3, <1>4, <1>5

LEMMA ReplyInv ==
  ASSUME IInv, Reply PROVE IInv'
<1> USE DEF IInv
<1>1. PICK m \in DOMAIN sent : \E v \in Answers : updates' = Append(updates, [to |-> m, val |-> v])
  BY DEF Reply, Answers
<1>2. PICK v \in Answers : updates' = Append(updates, [to |-> m, val |-> v])
  BY <1>1
<1>3. /\ Len(sent) <= MaxPrompts /\ Len(sent) \in Nat /\ DOMAIN sent = 1..Len(sent)
      /\ MaxPrompts \in Nat /\ MaxUpdates \in Nat
      /\ updates \in Seq([to : 1..MaxPrompts, val : Answers]) /\ Len(updates) < MaxUpdates
      /\ UNCHANGED <<cfg, rec, flowVars, nodeVars, waitVars, sent, confirmed, late, envVars>>
  BY HumanAssumption DEF TypeOK, Reply
<1>4. m \in 1..MaxPrompts
  BY <1>3
<1> DEFINE e == [to |-> m, val |-> v]
<1>5. e \in [to : 1..MaxPrompts, val : Answers] /\ e.to = m
  BY <1>4
<1> HIDE DEF e
<1>6. /\ updates' \in Seq([to : 1..MaxPrompts, val : Answers]) /\ Len(updates') = Len(updates) + 1
      /\ DOMAIN updates = 1..Len(updates) /\ DOMAIN updates' = 1..(Len(updates) + 1)
      /\ \A i \in 1..Len(updates) : updates'[i] = updates[i]
      /\ updates'[Len(updates) + 1] = e /\ Len(updates) \in Nat
  <2>1. updates' = Append(updates, e)
    BY <1>2 DEF e
  <2>2. QED
    BY <1>3, <1>5, <2>1
<1>7. TypeOK'
  BY <1>3, <1>6 DEF TypeOK, flowVars, nodeVars, waitVars, envVars
<1>8. Grown
  BY <1>3, <1>6 DEF Grown
<1>9. RepliesToSent'
  <2>1. ASSUME NEW i \in DOMAIN updates' PROVE updates'[i].to \in DOMAIN sent
    <3>1. i \in 1..Len(updates) \/ i = Len(updates) + 1
      BY <1>6, <2>1
    <3>2. CASE i \in 1..Len(updates)
      BY <1>6, <3>2 DEF RepliesToSent
    <3>3. CASE i = Len(updates) + 1
      BY <1>1, <1>5, <1>6, <3>3
    <3>4. QED
      BY <3>1, <3>2, <3>3
  <2>2. QED
    BY <1>3, <2>1 DEF RepliesToSent
<1>10. QED
  BY <1>3, <1>7, <1>8, <1>9, OutsideInv

LEMMA StillInv ==
  ASSUME IInv, Stop \/ Expire PROVE IInv'
<1> USE DEF IInv
<1>1. UNCHANGED <<cfg, rec, flowVars, nodeVars, waitVars, sent, updates, confirmed>>
  BY DEF Stop, Expire, chatVars
<1>2. late' \in 0..MaxPrompts /\ stop' \in BOOLEAN /\ faults' \in 0..MaxFaults
  <2>1. late \in 0..MaxPrompts /\ stop \in BOOLEAN /\ faults \in 0..MaxFaults
        /\ MaxPrompts \in Nat /\ MaxFaults \in Nat /\ Len(sent) <= MaxPrompts /\ Len(sent) \in Nat
    BY HumanAssumption DEF TypeOK
  <2>2. CASE Stop
    BY <2>1, <2>2 DEF Stop, chatVars
  <2>3. CASE Expire
    BY <2>1, <2>3 DEF Expire, envVars
  <2>4. QED
    BY <2>2, <2>3
<1>3. TypeOK'
  BY <1>1, <1>2 DEF TypeOK, flowVars, nodeVars, waitVars
<1>4. Grown /\ RepliesToSent'
  BY <1>1 DEF Grown, RepliesToSent
<1>5. QED
  BY <1>1, <1>3, <1>4, OutsideInv

-----------------------------------------------------------------------------
LEMMA StepInv ==
  ASSUME IInv, [Next]_vars PROVE IInv'
<1>1. CASE Waiting
  BY <1>1, StartAskInv, WriteWaitingInv, FetchInv, GiveUpInv, WriteAnswerInv DEF Waiting
<1>2. CASE Runner
  BY <1>2, EnterAgentInv, HitlResultInv, TurnCheckInv, TurnResultInv, InvokeInv, RanInv, GuardInv,
     GuardResultInv, ReconsideredInv, FinishAgentInv, AdvanceInv, EnterNodeInv, NodeResultInv,
     RouteNodeInv, EnterPublishInv, PublishResultInv, PublishInv DEF Runner
<1>3. CASE LateWrite \/ Continue \/ Finalize \/ Stop \/ Crash \/ Reply \/ Expire
  BY <1>3, LateWriteInv, ContinueInv, FinalizeInv, StillInv, CrashInv, ReplyInv
<1>4. CASE UNCHANGED vars
  <2>1. UNCHANGED <<cfg, rec, flowVars, nodeVars, waitVars, chatVars, envVars>>
    BY <1>4 DEF vars
  <2>2. TypeOK'
    BY <2>1 DEF IInv, TypeOK, flowVars, nodeVars, waitVars, chatVars, envVars
  <2>3. Grown /\ RepliesToSent'
    BY <2>1 DEF IInv, RepliesToSent, Grown, chatVars
  <2>4. QED
    BY <2>1, <2>2, <2>3, OutsideInv
<1>5. QED
  BY <1>1, <1>2, <1>3, <1>4 DEF Next

LEMMA Invariance == Spec => []IInv
<1>1. Init => IInv
  BY InitInv
<1>2. IInv /\ [Next]_vars => IInv'
  BY StepInv
<1>3. QED
  BY <1>1, <1>2, PTL DEF Spec

\* Every variable keeps its type, the chat within its bounds among them.
THEOREM TypeCorrect == Spec => []TypeOK
<1>1. IInv => TypeOK
  BY DEF IInv
<1>2. QED
  BY <1>1, Invariance, PTL

\* Whatever was acted on was given by a person, to the prompt that asked for it:
\* no late press of another ask is taken for an answer, and no gated change
\* leaves its node or is published without a yes to a request for exactly its
\* risk and paths, asked by the core unless the flow's agents may ask
\* (telegram.py poll_reply; nodes/agent.py _apply_post_edit_guard).
THEOREM AsksTheorem == Spec => []AsksSafe
<1>1. ASSUME IInv PROVE AnswersOwnPrompt
  BY <1>1 DEF IInv, AnswersOwnPrompt, Shown, Has, Said
<1>2. ASSUME IInv PROVE GuardedDiff
  BY <1>2 DEF IInv, GuardedDiff, Cleared, Approved
<1>3. IInv => AsksSafe
  BY <1>1, <1>2 DEF AsksSafe, IInv
<1>4. QED
  BY <1>3, Invariance, PTL

\* The steps that write the interaction files, and what they write there.
LEMMA DenialKept ==
  ASSUME IInv, [Next]_vars, NEW f \in Files, f[1] = "guard", Has(f), rec[f].answer = "no"
  PROVE  Has(f)' /\ rec'[f].answer = "no"
<1> USE DEF IInv
<1>1. rec[f].status \notin Resettable /\ rec \in [Files -> Records \cup {NoRecord}]
  BY DEF Shown, TypeOK
<1>2. CASE WriteWaiting
  <2>1. file # f
    BY <1>2 DEF WriteWaiting, Matched
  <2>2. QED
    BY <1>1, <1>2, <2>1 DEF WriteWaiting, Has
<1>3. CASE WriteAnswer
  <2>1. file # f
    BY <1>3 DEF WriteAnswer, Waits
  <2>2. QED
    BY <1>1, <1>3, <2>1 DEF WriteAnswer, Has
<1>4. CASE Continue
  BY <1>1, <1>4 DEF Continue, reset_pending_interactions, Has
<1>5. CASE Finalize
  BY <1>1, <1>5 DEF Finalize, consume_pending_interactions, Has
<1>6. CASE \E g \in Files, s \in {"consumed", "reconsidering", "reconsidered"} :
             Has(g) /\ mark_interaction_status(g, s) /\ UNCHANGED <<cfg, chatVars>>
  BY <1>6, MarkKept
<1>7. CASE rec' = rec
  BY <1>7 DEF Has
<1>8. CASE TurnResult \/ GuardResult \/ Reconsidered \/ FinishAgent \/ NodeResult \/ EnterPublish \/ PublishResult
  <2>1. file \in Files /\ UNCHANGED <<cfg, chatVars>>
    BY <1>8 DEF TypeOK, TurnResult, GuardResult, Reconsidered, FinishAgent, NodeResult, EnterPublish, PublishResult,
           NodeStep
  <2>2. CASE TurnResult
    BY <1>6, <1>7, <2>1, <2>2 DEF TurnResult, mark_consumed, Matched
  <2>3. CASE GuardResult
    BY <1>6, <1>7, <2>1, <2>3 DEF GuardResult, mark_consumed, Matched
  <2>4. CASE Reconsidered
    BY <1>6, <1>7, <2>1, <2>4, FilesTyped DEF Reconsidered, Places
  <2>5. CASE FinishAgent
    BY <1>6, <1>7, <2>1, <2>5, FilesTyped DEF FinishAgent, mark_consumed, Places
  <2>6. CASE NodeResult
    BY <1>6, <1>7, <2>1, <2>6 DEF NodeResult, mark_consumed, Matched
  <2>7. CASE EnterPublish
    BY <1>6, <1>7, <2>1, <2>7, FilesTyped DEF EnterPublish, mark_consumed, Has
  <2>8. CASE PublishResult
    BY <1>6, <1>7, <2>1, <2>8 DEF PublishResult, mark_consumed, Matched
  <2>9. QED
    BY <1>8, <2>2, <2>3, <2>4, <2>5, <2>6, <2>7, <2>8
<1>9. CASE StartAsk \/ Fetch \/ (\E why \in AskFailure \ {"invalid_response"} : GiveUp(why))
  BY <1>7, <1>9 DEF StartAsk, Fetch, GiveUp
<1>10. CASE EnterAgent \/ HitlResult \/ TurnCheck \/ Invoke \/ Ran \/ Guard \/ Advance
  BY <1>7, <1>10 DEF EnterAgent, HitlResult, TurnCheck, Invoke, Ran, Guard, Advance
<1>11. CASE EnterNode \/ RouteNode \/ Publish \/ LateWrite \/ Stop \/ Crash \/ Reply \/ Expire \/ UNCHANGED vars
  BY <1>7, <1>11 DEF EnterNode, RouteNode, Publish, LateWrite, Stop, Crash, Reply, Expire, vars
<1>12. QED
  BY <1>2, <1>3, <1>4, <1>5, <1>8, <1>9, <1>10, <1>11 DEF Next, Waiting, Runner

\* A recorded denial of a writing node's change is never turned into an
\* approval in the same cycle: not by a restart, not by rerun --continue.
THEOREM DenialTheorem == Spec => DenialStands
<1>1. ASSUME IInv, [Next]_vars
      PROVE  \A f \in Files : f[1] = "guard" /\ rec[f] # NoRecord /\ rec[f].answer = "no"
                                 => rec'[f] # NoRecord /\ rec'[f].answer = "no"
  BY <1>1, DenialKept DEF Has
<1>2. IInv /\ [Next]_vars =>
        [\A f \in Files : f[1] = "guard" /\ rec[f] # NoRecord /\ rec[f].answer = "no"
             => rec'[f] # NoRecord /\ rec'[f].answer = "no"]_vars
  BY <1>1
<1>3. QED
  BY <1>2, Invariance, PTL DEF Spec, DenialStands
-----------------------------------------------------------------------------
(* The project memory.                                                     *)

\* The rows of each tier file: what the code writes into it.
Statuses == {"active", "quarantined"}
SeenSets == {s \in SUBSET Tasks : IsFiniteSet(s)}
Trusts == DURABLE_TRUST_LEVELS \cup {"agent-inferred", "external-untrusted"}
LessonRows ==
  [id : KindSet \X (SUBSET Paths) \X (STRING \cup {""}), kind : KindSet, subject : STRING,
   paths : SUBSET Paths, nodes : SUBSET STRING, evidence : SUBSET STRING, remedy : BOOLEAN,
   trust : Trusts, status : Statuses, seen : SeenSets, first : Nat, at : Nat]
CardRows ==
  [id : {"entity"} \X STRING, kind : {"entity"}, name : Paths \cup STRING, paths : Seq(Paths),
   trust : {"repo-observed", "agent-inferred"}, status : Statuses, seen : SeenSets]
EpisodeRows == [id : Tasks, at : Nat]
AnyRows == LessonRows \cup CardRows \cup EpisodeRows

Earned(r) ==
  /\ Reliable(r) /\ _record_active(r)
  /\ r.trust = "artifact-backed" => r.remedy \/ Cardinality(r.seen) >= MinTasks

EarnedRows(k) == {r \in LessonRows : r.kind = k /\ Earned(r)}
ObservedCards == {r \in CardRows : r.trust = "repo-observed"}
HeldRows == {r \in LessonRows : r.trust \in DURABLE_TRUST_LEVELS => Reliable(r)} \cup CardRows
RowsOf(f) ==
  CASE f = "short" -> EpisodeRows [] f = "entity" -> ObservedCards [] f = "quarantine" -> HeldRows
    [] f \in KindSet -> EarnedRows(f)

LessonCandidates ==
  [kind : KindSet, subject : STRING, paths : SUBSET Paths, nodes : SUBSET STRING,
   evidence : SUBSET STRING, remedy : BOOLEAN]
CardCandidates == [kind : {"entity"}, subject : STRING, paths : Seq(Paths)]
Candidates == LessonCandidates \cup CardCandidates

\* The writes of a plan: rows of the file they go to.
Puts == {"append", "replace", "extend"}
Restores == {"unlink", "overwrite", "rollback"}
Writes == {w \in [op : Puts \cup Restores, file : TierFiles, rows : Seq(AnyRows)] :
             /\ w.rows \in Seq(RowsOf(w.file))
             /\ w.op = "extend" => w.file = "quarantine"
             /\ w.op = "unlink" => w.rows = <<>>}

Sides == {"daemon", "operator"}
Fields == {"op", "todo", "plan", "task", "budget", "label", "copies", "scope", "found", "at"}
CleanupPasses == {<<"expire", "short">>, <<"entities", "entity">>}
                   \cup ({"lessons", "duplicates"} \X KindSet)
Labels == {"cleanup", "clear"} \X (0..MaxTime)

\* The world, and what is left to happen in it.
WorldInv ==
  /\ active \in Tasks \cup {None} /\ store \in BOOLEAN /\ now \in 0..MaxTime
  /\ era \in 1..Len(Trees) /\ overlap \in BOOLEAN /\ reused \in BOOLEAN /\ stopped \in BOOLEAN
  /\ left \in [{"finals", "cleanups", "commands", "stops"} -> Int]

\* Every file and copy holds rows of its kind, and only files that exist hold any.
FilesInv ==
  /\ DOMAIN tiers = TierFiles /\ DOMAIN audited = TierFiles /\ present \subseteq TierFiles
  /\ \A f \in TierFiles : tiers[f] \in Seq(RowsOf(f)) /\ (tiers[f] # <<>> => f \in present)
  /\ DOMAIN snapshots \subseteq Labels
  /\ \A l \in DOMAIN snapshots :
       /\ DOMAIN snapshots[l] \subseteq TierFiles
       /\ \A f \in DOMAIN snapshots[l] : snapshots[l][f] \in Seq(RowsOf(f))

Busy(d) == d.op \notin {"idle", "asking"}

\* What a process has in hand, and what it may still write.
SideInv(p, d) ==
  /\ DOMAIN d = Fields /\ d.plan \in Seq(Writes)
  /\ d.op \in {"idle", "success", "failure", "cleanup", "restore", "asking", "clear"}
  /\ ~Busy(d) => d.plan = <<>>
  /\ d.op \in {"success", "failure"} =>
       p = "daemon" /\ d.task \in Tasks /\ d.at \in Nat /\ d.todo \in Seq(Candidates)
  /\ d.op = "cleanup" => d.at \in Nat /\ d.todo \in Seq(CleanupPasses)
  /\ d.op \in {"restore", "asking", "clear"} => p = "operator"
  /\ d.op = "asking" => d.scope \subseteq MemoryTier
  /\ d.copies \in Seq(TierFiles)
  /\ d.copies # <<>> => d.op \in {"cleanup", "clear"} /\ d.label \in Labels
  /\ \A n \in DOMAIN d.plan :
       /\ d.op # "restore" => d.plan[n].op \in Puts
       /\ d.op = "restore" => d.plan[n].op \in Restores
       /\ d.plan[n].op = "rollback" <=> d.op = "restore" /\ n = Len(d.plan)
       /\ d.plan[n].op = "append" => n = 1

\* One record per id in a lesson file, one card per name.
Distinct(f, rows) ==
  /\ f \in KindSet => \A i, j \in DOMAIN rows : rows[i].id = rows[j].id => i = j
  /\ f = "entity" => \A i, j \in DOMAIN rows : rows[i].name = rows[j].name => i = j

DistinctInv ==
  /\ \A f \in TierFiles : Distinct(f, tiers[f])
  /\ \A l \in DOMAIN snapshots : \A f \in DOMAIN snapshots[l] : Distinct(f, snapshots[l][f])

\* The kinds and tasks a sequence of rows knows of.
Known(rows) == UNION {{<<rows[i].kind, t>> : t \in rows[i].seen} : i \in DOMAIN rows}

\* A file is as the snapshot has it.
Restored(f, files) ==
  IF f \in DOMAIN files THEN f \in present /\ tiers[f] = files[f] ELSE f \notin present

\* What a restore has not put back is still in its plan.
RestoreInv(d) ==
  d.op = "restore" =>
    LET files == snapshots[d.label]
        Due(f) == \E n \in DOMAIN d.plan : d.plan[n].op \in {"unlink", "overwrite"} /\ d.plan[n].file = f
    IN  /\ d.label \in DOMAIN snapshots
        /\ \A n \in DOMAIN d.plan :
             /\ d.plan[n].op = "unlink" => d.plan[n].file \notin DOMAIN files
             /\ d.plan[n].op = "overwrite" =>
                  d.plan[n].file \in DOMAIN files /\ d.plan[n].rows = files[d.plan[n].file]
        /\ \A f \in TierFiles : Due(f) \/ Restored(f, files)

\* What a cleanup found is in a file it will not replace, or in what it will write.
FoundInv(d) ==
  d.op = "cleanup" =>
    /\ Len(d.plan) <= 2
    /\ \A n \in DOMAIN d.plan : d.plan[n].op \in {"replace", "extend"}
    /\ Len(d.plan) = 2 => d.plan[1].file # "quarantine" /\ d.plan[2].file = "quarantine"
    /\ \A x \in d.found :
         \/ \E f \in TierFiles \ {"short"} :
              x \in Known(tiers[f]) /\ \A n \in DOMAIN d.plan : d.plan[n].file = f => d.plan[n].op = "extend"
         \/ \E n \in DOMAIN d.plan : d.plan[n].file # "short" /\ x \in Known(d.plan[n].rows)

\* What holds of a process nobody works beside.
AloneInv(d) ==
  /\ \A n \in DOMAIN d.plan : Distinct(d.plan[n].file, Written(d.plan[n]))
  /\ RestoreInv(d) /\ FoundInv(d)

\* The trail is the files, but while a restore is under way.
TrailInv ==
  ~overlap /\ ~stopped =>
    audited = tiers \/ (proc["operator"].op = "restore" /\ proc["operator"].plan # <<>>)

\* The files are earned, what runs alone is tied to them, and the trail and the snapshots keep up.
MemoryInv ==
  /\ WorldInv /\ FilesInv /\ DOMAIN proc = Sides /\ \A p \in Sides : SideInv(p, proc[p])
  /\ ~overlap => /\ DistinctInv /\ ~(Busy(proc["daemon"]) /\ Busy(proc["operator"]))
                 /\ \A p \in Sides : AloneInv(proc[p])
  /\ TrailInv

-----------------------------------------------------------------------------
(* Numbers, sequences and recursion.                                        *)

\* A set of numbers that is not empty has a least element.
LEMMA LeastExists ==
  ASSUME NEW S \in SUBSET Nat, S # {}
  PROVE  \E m \in S : \A v \in S : m <= v
<1>1. PICK x \in S : \A y \in S : ~(<<y, x>> \in OpToRel(<, Nat))
  BY WFMin, NatLessThanWellFounded
<1>2. ASSUME NEW y \in S PROVE x <= y
  <2>1. x \in Nat /\ y \in Nat
    OBVIOUS
  <2>2. y < x => <<y, x>> \in OpToRel(<, Nat)
    BY <2>1 DEF OpToRel
  <2>3. ~(y < x)
    BY <1>1, <2>2
  <2>4. QED
    BY <2>1, <2>3
<1>3. QED
  BY <1>2

\* A bounded one has a greatest.
LEMMA GreatestExists ==
  ASSUME NEW n \in Nat, NEW S \in SUBSET (0..n), S # {}
  PROVE  \E m \in S : \A q \in S : q <= m
<1> DEFINE T == {n - x : x \in S}
<1>1. T \in SUBSET Nat /\ T # {}
  <2>1. \A x \in S : n - x \in Nat
    OBVIOUS
  <2>2. \A k \in T : k \in Nat
    BY <2>1
  <2>3. PICK x : x \in S
    OBVIOUS
  <2>4. n - x \in T
    BY <2>3
  <2>5. QED
    BY <2>2, <2>4
<1>2. PICK k \in T : \A v \in T : k <= v
  <2> HIDE DEF T
  <2>1. QED
    BY <1>1, LeastExists
<1>3. PICK m \in S : k = n - m
  OBVIOUS
<1>4. ASSUME NEW q \in S PROVE q <= m
  <2>1. n - q \in T
    OBVIOUS
  <2>2. n - m <= n - q
    BY <1>2, <1>3, <2>1
  <2>3. QED
    BY <2>2
<1>5. QED
  BY <1>4

\* Induction on the numbers up to n, over a set.
LEMMA CountUp ==
  ASSUME NEW n \in Nat, NEW S, 0 \in S, \A i \in 1..n : i - 1 \in S => i \in S
  PROVE  \A i \in 0..n : i \in S
<1> DEFINE T == {i \in 0..n : i \notin S}
<1>1. SUFFICES ASSUME T # {} PROVE FALSE
  OBVIOUS
<1>2. T \in SUBSET Nat
  OBVIOUS
<1>3. PICK m \in T : \A v \in T : m <= v
  <2> HIDE DEF T
  <2>1. QED
    BY <1>1, <1>2, LeastExists
<1>4. m \in 0..n /\ m \notin S /\ m # 0
  OBVIOUS
<1>5. m - 1 \in 0..n /\ m \in 1..n
  BY <1>4
<1>6. m - 1 \notin T
  BY <1>3, <1>5
<1>7. m - 1 \in S
  BY <1>5, <1>6
<1>8. QED
  BY <1>4, <1>5, <1>7

\* f runs through 0..n from a by the steps of g.
Runs(f, n, a, g) == \A i \in 0..n : f[i] = IF i = 0 THEN a ELSE g[<<i, f[i - 1]>>]

\* The steps of such a function: from a place and a value to a value.
StepsOver(n, V) == [(1..n) \X V -> V]

\* A function defined by recursion on 0..n with values in a set exists.
LEMMA RunExists ==
  ASSUME NEW n \in Nat, NEW V, NEW a \in V, NEW g \in StepsOver(n, V)
  PROVE  \E f \in [0..n -> V] : Runs(f, n, a, g)
<1> DEFINE Good(f, k) == /\ f \in [0..k -> V]
                         /\ \A i \in 0..k : f[i] = IF i = 0 THEN a ELSE g[<<i, f[i - 1]>>]
           S == {k \in 0..n : \E f : Good(f, k)}
<1>1. 0 \in S
  <2>1. Good([i \in 0..0 |-> a], 0)
    OBVIOUS
  <2>2. 0 \in 0..n
    OBVIOUS
  <2> HIDE DEF Good
  <2>3. QED
    BY <2>1, <2>2
<1>2. ASSUME NEW k \in 1..n, k - 1 \in S PROVE k \in S
  <2>1. PICK f : Good(f, k - 1)
    BY <1>2
  <2> DEFINE h == [i \in 0..k |-> IF i = k THEN g[<<k, f[k - 1]>>] ELSE f[i]]
  <2>2. f \in [0..(k - 1) -> V] /\ \A i \in 0..(k - 1) : f[i] = IF i = 0 THEN a ELSE g[<<i, f[i - 1]>>]
    BY <2>1
  <2>3. g[<<k, f[k - 1]>>] \in V
    BY <2>2 DEF StepsOver
  <2>4. \A i \in 0..k : i = k \/ i \in 0..(k - 1)
    OBVIOUS
  <2>5. h \in [0..k -> V]
    BY <2>2, <2>3, <2>4
  <2>6. \A i \in 0..(k - 1) : h[i] = f[i]
    OBVIOUS
  <2>7. h[k] = g[<<k, f[k - 1]>>]
    OBVIOUS
  <2> HIDE DEF h
  <2>8. \A i \in 0..k : h[i] = IF i = 0 THEN a ELSE g[<<i, h[i - 1]>>]
    <3>1. ASSUME NEW i \in 0..(k - 1) PROVE h[i] = IF i = 0 THEN a ELSE g[<<i, h[i - 1]>>]
      <4>1. i # 0 => i - 1 \in 0..(k - 1)
        OBVIOUS
      <4>2. QED
        BY <2>2, <2>6, <4>1
    <3>2. h[k] = g[<<k, h[k - 1]>>]
      BY <2>6, <2>7
    <3>3. QED
      BY <2>4, <3>1, <3>2
  <2>9. Good(h, k)
    BY <2>5, <2>8
  <2>10. QED
    BY <2>9
<1>3. \A i \in 0..n : i \in S
  <2> HIDE DEF S
  <2>1. QED
    BY <1>1, <1>2, CountUp
<1>4. n \in S
  <2>1. n \in 0..n
    OBVIOUS
  <2> HIDE DEF S
  <2>2. QED
    BY <1>3, <2>1
<1>5. PICK f : Good(f, n)
  BY <1>4
<1>6. QED
  BY <1>5 DEF Runs

\* w is s at the places S: nothing else, no place twice, and all of them.
Picked(s, S, w) ==
  /\ \A n \in DOMAIN w : \E i \in S : w[n] = s[i]
  /\ \A m, n \in DOMAIN w : m # n => \E i, j \in S : i # j /\ w[m] = s[i] /\ w[n] = s[j]
  /\ \A i \in S : \E n \in DOMAIN w : w[n] = s[i]

\* One more place of s.
LEMMA PickOne ==
  ASSUME NEW R, NEW s \in Seq(R), NEW places, NEW i \in 1..Len(s), NEW w \in Seq(R),
         Picked(s, places \cap (1..(i - 1)), w)
  PROVE  /\ i \in places => Append(w, s[i]) \in Seq(R) /\ Picked(s, places \cap (1..i), Append(w, s[i]))
         /\ i \notin places => Picked(s, places \cap (1..i), w)
<1> DEFINE A == places \cap (1..(i - 1))
           B == places \cap (1..i)
<1>0. \A j \in B : j \in A \/ (j = i /\ i \in places)
  OBVIOUS
<1>1. CASE i \notin places
  <2>1. A = B
    BY <1>0, <1>1
  <2>2. QED
    BY <1>1, <2>1
<1>2. CASE i \in places
  <2> DEFINE v == Append(w, s[i])
             l == Len(w)
  <2>1. /\ l \in Nat /\ Len(v) = l + 1 /\ v \in Seq(R) /\ v[l + 1] = s[i]
        /\ \A n \in 1..l : v[n] = w[n]
    OBVIOUS
  <2>2. DOMAIN w = 1..l /\ DOMAIN v = 1..(l + 1) /\ \A n \in 1..(l + 1) : n \in 1..l \/ n = l + 1
    BY <2>1
  <2>3. A \subseteq B /\ i \in B /\ i \notin A
    BY <1>2
  <2>0. \A m, n \in DOMAIN w : m # n => \E j, k \in A : j # k /\ w[m] = s[j] /\ w[n] = s[k]
    BY DEF Picked
  <2> HIDE DEF v, l, A, B
  <2>4. \A n \in 1..l : \E j \in A : w[n] = s[j]
    BY <2>2 DEF Picked, A
  <2>5. \A n \in 1..(l + 1) : \E j \in B : v[n] = s[j]
    BY <2>1, <2>2, <2>3, <2>4
  <2>6. ASSUME NEW m \in 1..(l + 1), NEW n \in 1..(l + 1), m # n
        PROVE  \E j, k \in B : j # k /\ v[m] = s[j] /\ v[n] = s[k]
    <3>1. CASE m \in 1..l /\ n \in 1..l
      <4>1. \E j, k \in A : j # k /\ w[m] = s[j] /\ w[n] = s[k]
        BY <2>2, <2>0, <2>6, <3>1
      <4>2. QED
        BY <2>1, <2>3, <3>1, <4>1
    <3>2. CASE m \in 1..l /\ n = l + 1
      <4>1. PICK j \in A : w[m] = s[j]
        BY <2>4, <3>2
      <4>2. QED
        BY <2>1, <2>3, <3>2, <4>1
    <3>3. CASE n \in 1..l /\ m = l + 1
      <4>1. PICK j \in A : w[n] = s[j]
        BY <2>4, <3>3
      <4>2. QED
        BY <2>1, <2>3, <3>3, <4>1
    <3>4. QED
      BY <2>2, <2>6, <3>1, <3>2, <3>3
  <2>7. ASSUME NEW j \in B PROVE \E n \in 1..(l + 1) : v[n] = s[j]
    <3>1. CASE j \in A
      <4>1. PICK n \in 1..l : w[n] = s[j]
        BY <2>2, <3>1 DEF Picked, A
      <4>2. n \in 1..(l + 1)
        BY <2>1
      <4>3. QED
        BY <2>1, <4>1, <4>2
    <3>2. CASE j = i
      <4>1. l + 1 \in 1..(l + 1)
        BY <2>1
      <4>2. QED
        BY <2>1, <3>2, <4>1
    <3>3. QED
      BY <1>0, <3>1, <3>2 DEF A, B
  <2>8. Picked(s, B, v)
    <3>1. \A n \in DOMAIN v : \E j \in B : v[n] = s[j]
      BY <2>2, <2>5
    <3>2. \A m, n \in DOMAIN v : m # n => \E j, k \in B : j # k /\ v[m] = s[j] /\ v[n] = s[k]
      BY <2>2, <2>6
    <3>3. \A j \in B : \E n \in DOMAIN v : v[n] = s[j]
      BY <2>2, <2>7
    <3>4. QED
      BY <3>1, <3>2, <3>3 DEF Picked
  <2>9. QED
    BY <1>2, <2>1, <2>8 DEF v, B
<1>3. QED
  BY <1>1, <1>2

\* Within(s, places) is s at its places.
LEMMA WithinOf ==
  ASSUME NEW R, NEW s \in Seq(R), NEW places
  PROVE  Within(s, places) \in Seq(R) /\ Picked(s, places \cap DOMAIN s, Within(s, places))
<1> DEFINE n == Len(s)
           G(i, v) == IF i \in places THEN Append(v, s[i]) ELSE v
           g == [p \in (1..n) \X Seq(R) |-> G(p[1], p[2])]
           IsRun(f) == f = [i \in 0..Len(s) |->
                              IF i = 0 THEN <<>>
                              ELSE IF i \in places THEN Append(f[i - 1], s[i]) ELSE f[i - 1]]
           chosen == CHOOSE f : IsRun(f)
           Next_(f) == [i \in 0..n |-> IF i = 0 THEN <<>> ELSE G(i, f[i - 1])]
<1>1. Within(s, places) = chosen[n]
  BY DEF Within
<1>2. ASSUME NEW f PROVE IsRun(f) <=> f = Next_(f)
  OBVIOUS
<1> HIDE DEF IsRun
<1>3. n \in Nat /\ DOMAIN s = 1..n /\ <<>> \in Seq(R)
  OBVIOUS
<1>4. ASSUME NEW i \in 1..n, NEW v \in Seq(R) PROVE G(i, v) \in Seq(R)
  OBVIOUS
<1>5. g \in StepsOver(n, Seq(R))
  <2> HIDE DEF G
  <2>1. QED
    BY <1>4 DEF StepsOver
<1>6. \A i \in 1..n : \A v \in Seq(R) : g[<<i, v>>] = G(i, v)
  OBVIOUS
<1> HIDE DEF g
<1>7. PICK f \in [0..n -> Seq(R)] : Runs(f, n, <<>>, g)
  BY <1>3, <1>5, RunExists
<1>8. ASSUME NEW i \in 0..n PROVE f[i] = IF i = 0 THEN <<>> ELSE G(i, f[i - 1])
  <2>1. CASE i = 0
    BY <1>7, <2>1 DEF Runs
  <2>2. CASE i # 0
    <3>1. i \in 1..n /\ i - 1 \in 0..n
      BY <1>3, <2>2
    <3>2. f[i - 1] \in Seq(R)
      BY <1>7, <3>1
    <3> HIDE DEF G
    <3>3. QED
      BY <1>6, <1>7, <2>2, <3>1, <3>2 DEF Runs
  <2>3. QED
    BY <2>1, <2>2
<1>9. chosen = Next_(chosen)
  <2>1. f = Next_(f)
    <3> HIDE DEF G
    <3>1. QED
      BY <1>7, <1>8
  <2>2. IsRun(chosen)
    BY <1>2, <2>1
  <2> HIDE DEF chosen, Next_
  <2>3. QED
    BY <1>2, <2>2
<1> HIDE DEF chosen
<1>10. chosen[0] = <<>> /\ \A i \in 1..n : chosen[i] = G(i, chosen[i - 1])
  <2>1. 0 \in 0..n /\ \A i \in 1..n : i \in 0..n /\ i # 0
    BY <1>3
  <2> HIDE DEF G
  <2>2. \A i \in 0..n : chosen[i] = IF i = 0 THEN <<>> ELSE G(i, chosen[i - 1])
    BY <1>9
  <2>3. QED
    BY <2>1, <2>2
<1> DEFINE S == {i \in 0..n : chosen[i] \in Seq(R) /\ Picked(s, places \cap (1..i), chosen[i])}
<1>11. \A i \in 0..n : i \in S
  <2>1. 0 \in S
    <3>1. 0 \in 0..n /\ places \cap (1..0) = {} /\ DOMAIN <<>> = {}
      BY <1>3
    <3>2. Picked(s, {}, <<>>)
      BY <3>1 DEF Picked
    <3>3. QED
      BY <1>3, <1>10, <3>1, <3>2
  <2>2. ASSUME NEW i \in 1..n, i - 1 \in S PROVE i \in S
    <3>1. chosen[i - 1] \in Seq(R) /\ Picked(s, places \cap (1..(i - 1)), chosen[i - 1])
      BY <2>2
    <3>2. G(i, chosen[i - 1]) \in Seq(R) /\ Picked(s, places \cap (1..i), G(i, chosen[i - 1]))
      <4>1. i \in 1..Len(s)
        OBVIOUS
      <4>2. CASE i \in places
        BY <3>1, <4>1, <4>2, PickOne
      <4>3. CASE i \notin places
        BY <3>1, <4>1, <4>3, PickOne
      <4>4. QED
        BY <4>2, <4>3
    <3>3. i \in 0..n
      BY <1>3
    <3> HIDE DEF G
    <3>4. QED
      BY <1>10, <3>2, <3>3
  <2> HIDE DEF S
  <2>3. QED
    BY <1>3, <2>1, <2>2, CountUp
<1>12. n \in 0..n
  BY <1>3
<1>13. QED
  BY <1>1, <1>3, <1>11, <1>12

-----------------------------------------------------------------------------
(* The rows of each file.                                                   *)

\* The files of the store, by name.
LEMMA FilesAre ==
  /\ KindSet = {"semantic", "procedural", "reviewer", "failure"}
  /\ TierFiles = {"short", "entity", "quarantine", "semantic", "procedural", "reviewer", "failure"}
<1>1. DOMAIN LongTermKinds = 1..4
  BY DEF LongTermKinds
<1>2. KindSet = {LongTermKinds[1], LongTermKinds[2], LongTermKinds[3], LongTermKinds[4]}
  <2>1. 1..4 = {1, 2, 3, 4}
    OBVIOUS
  <2>2. QED
    BY <1>1, <2>1 DEF KindSet, ToSet
<1>3. KindSet = {"semantic", "procedural", "reviewer", "failure"}
  BY <1>2 DEF LongTermKinds
<1>4. QED
  BY <1>3 DEF TierFiles

\* The rows of each.
LEMMA RowsAre ==
  /\ RowsOf("short") = EpisodeRows /\ RowsOf("entity") = ObservedCards
  /\ RowsOf("quarantine") = HeldRows /\ \A k \in KindSet : RowsOf(k) = EarnedRows(k)
  /\ \A f \in TierFiles : RowsOf(f) \subseteq AnyRows
<1>1. /\ RowsOf("short") = EpisodeRows /\ RowsOf("entity") = ObservedCards
      /\ RowsOf("quarantine") = HeldRows
  BY FilesAre DEF RowsOf
<1>2. ASSUME NEW k \in KindSet PROVE RowsOf(k) = EarnedRows(k)
  <2>1. k # "short" /\ k # "entity" /\ k # "quarantine"
    BY FilesAre
  <2>2. QED
    BY <2>1 DEF RowsOf
<1>3. ASSUME NEW f \in TierFiles PROVE RowsOf(f) \subseteq AnyRows
  <2>1. f \in {"short", "entity", "quarantine"} \/ f \in KindSet
    BY DEF TierFiles
  <2>2. EpisodeRows \subseteq AnyRows /\ ObservedCards \subseteq AnyRows /\ HeldRows \subseteq AnyRows
    BY DEF AnyRows, ObservedCards, HeldRows
  <2>3. \A k \in KindSet : EarnedRows(k) \subseteq AnyRows
    BY DEF AnyRows, EarnedRows
  <2>4. QED
    BY <1>1, <1>2, <2>1, <2>2, <2>3
<1>4. QED
  BY <1>1, <1>2, <1>3

\* A sequence over a set is one over any larger set.
LEMMA SeqWider ==
  ASSUME NEW A, NEW B, A \subseteq B, NEW s \in Seq(A) PROVE s \in Seq(B)
  OBVIOUS

\* A write of rows of its file.
LEMMA WriteOf ==
  ASSUME NEW o \in Puts \cup Restores, NEW f \in TierFiles, NEW rows \in Seq(RowsOf(f)),
         o = "extend" => f = "quarantine", o = "unlink" => rows = <<>>
  PROVE  [op |-> o, file |-> f, rows |-> rows] \in Writes
<1>1. rows \in Seq(AnyRows)
  BY RowsAre, SeqWider
<1>2. QED
  BY <1>1 DEF Writes

\* What an item cites decides its trust; a durable one has evidence, none of it from outside.
LEMMA TrustOf ==
  ASSUME NEW e \in SUBSET STRING
  PROVE  /\ assign_trust(e) \in Trusts
         /\ assign_trust(e) \in DURABLE_TRUST_LEVELS => e # {} /\ e \cap External = {}
<1> DEFINE x == e \cap External = {}
           o == e \cap Operator = {}
           v == e \cap Review = {}
           r == e \cap Repo = {}
           a == e \cap Artifact = {}
<1>1. e \cap (External \cup Operator) = {} <=> x /\ o
  OBVIOUS
<1>2. e \cap (External \cup Operator \cup Review) = {} <=> x /\ o /\ v
  OBVIOUS
<1>3. e \cap (External \cup Operator \cup Review \cup Repo) = {} <=> x /\ o /\ v /\ r
  OBVIOUS
<1>4. /\ ~x => assign_trust(e) = "external-untrusted"
      /\ x /\ ~o => assign_trust(e) = "human-curated"
      /\ x /\ o /\ ~v => assign_trust(e) = "review-verified"
      /\ x /\ o /\ v /\ ~r => assign_trust(e) = "repo-observed"
      /\ x /\ o /\ v /\ r /\ ~a => assign_trust(e) = "artifact-backed"
      /\ x /\ o /\ v /\ r /\ a => assign_trust(e) = "agent-inferred"
  BY <1>1, <1>2, <1>3 DEF assign_trust
<1>5. (~o \/ ~v \/ ~r \/ ~a) => e # {}
  OBVIOUS
<1>6. "external-untrusted" \notin DURABLE_TRUST_LEVELS /\ "agent-inferred" \notin DURABLE_TRUST_LEVELS
  BY DEF DURABLE_TRUST_LEVELS
<1> HIDE DEF x, o, v, r, a
<1>7. assign_trust(e) \in Trusts
  BY <1>4 DEF Trusts, DURABLE_TRUST_LEVELS
<1>8. assign_trust(e) \in DURABLE_TRUST_LEVELS => x /\ e # {}
  BY <1>4, <1>5, <1>6
<1>9. QED
  BY <1>7, <1>8 DEF x

\* The record of a candidate.
LEMMA LessonOf ==
  ASSUME NEW c \in LessonCandidates, NEW status \in Statuses, NEW tasks \in SeenSets,
         NEW first \in Nat, NEW at \in Nat
  PROVE  LET r == LongTermRecord(c, status, tasks, first, at)
         IN  /\ r \in LessonRows /\ r.kind = c.kind /\ r.status = status /\ r.seen = tasks
             /\ r.evidence = c.evidence /\ r.remedy = c.remedy /\ r.trust = assign_trust(c.evidence)
             /\ r.id = derive_long_term_id(c.kind, c.subject, c.paths)
<1>1. /\ c.kind \in KindSet /\ c.subject \in STRING /\ c.paths \in SUBSET Paths
      /\ c.nodes \in SUBSET STRING /\ c.evidence \in SUBSET STRING /\ c.remedy \in BOOLEAN
  BY DEF LessonCandidates
<1>2. assign_trust(c.evidence) \in Trusts
  BY <1>1, TrustOf
<1>3. derive_long_term_id(c.kind, c.subject, c.paths) \in KindSet \X (SUBSET Paths) \X (STRING \cup {""})
  <2> DEFINE subject == IF c.paths = {} THEN c.subject ELSE ""
             words == STRING \cup {""}
             scopes == SUBSET Paths
  <2>1. subject \in words /\ c.paths \in scopes
    BY <1>1
  <2>2. derive_long_term_id(c.kind, c.subject, c.paths) = <<c.kind, c.paths, subject>>
    BY DEF derive_long_term_id
  <2> HIDE DEF subject, words, scopes
  <2>3. <<c.kind, c.paths, subject>> \in KindSet \X scopes \X words
    BY <1>1, <2>1
  <2>4. QED
    BY <2>2, <2>3 DEF words, scopes
<1>4. QED
  BY <1>1, <1>2, <1>3 DEF LongTermRecord, LessonRows

\* As a held one it may only be shown if it is reliable.
LEMMA HeldOf ==
  ASSUME NEW c \in LessonCandidates, NEW tasks \in SeenSets, NEW first \in Nat, NEW at \in Nat
  PROVE  LongTermRecord(c, "quarantined", tasks, first, at) \in HeldRows
<1> DEFINE r == LongTermRecord(c, "quarantined", tasks, first, at)
<1>1. r \in LessonRows /\ r.evidence = c.evidence /\ r.trust = assign_trust(c.evidence)
  <2>1. "quarantined" \in Statuses
    BY DEF Statuses
  <2> DEFINE Fits(q) == q \in LessonRows /\ q.evidence = c.evidence /\ q.trust = assign_trust(c.evidence)
  <2>2. \A status \in Statuses : Fits(LongTermRecord(c, status, tasks, first, at))
    BY LessonOf
  <2> HIDE DEF Fits
  <2>3. Fits(r)
    BY <2>1, <2>2
  <2>4. QED
    BY <2>3 DEF Fits
<1>2. c.evidence \in SUBSET STRING
  BY DEF LessonCandidates
<1>3. r.trust \in DURABLE_TRUST_LEVELS => Reliable(r)
  BY <1>1, <1>2, TrustOf DEF Reliable
<1> HIDE DEF r
<1>4. r \in HeldRows
  BY <1>1, <1>3 DEF HeldRows
<1>5. QED
  BY <1>4 DEF r

\* The first row of a value.
LEMMA IndexOf ==
  ASSUME NEW R, NEW rows \in Seq(R), NEW key, NEW value
  PROVE  LET at == _index_by(rows, key, value)
         IN  /\ at = 0 => \A i \in DOMAIN rows : key \in DOMAIN rows[i] => rows[i][key] # value
             /\ at # 0 => at \in DOMAIN rows /\ key \in DOMAIN rows[at] /\ rows[at][key] = value
<1> DEFINE hits == {i \in DOMAIN rows : key \in DOMAIN rows[i] /\ rows[i][key] = value}
           at == _index_by(rows, key, value)
<1>1. at = IF hits = {} THEN 0 ELSE CHOOSE i \in hits : \A j \in hits : i <= j
  BY DEF _index_by
<1>2. CASE hits = {}
  BY <1>1, <1>2
<1>3. CASE hits # {}
  <2>1. hits \in SUBSET Nat /\ 0 \notin hits
    OBVIOUS
  <2>2. \E i \in hits : \A j \in hits : i <= j
    <3> HIDE DEF hits
    <3>1. QED
      BY <1>3, <2>1, LeastExists
  <2>3. at \in hits
    <3> HIDE DEF hits, at
    <3>1. QED
      BY <1>1, <1>3, <2>2
  <2>4. QED
    BY <2>1, <2>3
<1>4. QED
  BY <1>2, <1>3
-----------------------------------------------------------------------------
(* What a candidate becomes.                                                *)

\* The tasks of a set of tasks and of finitely many rows.
LEMMA SeenOf ==
  ASSUME NEW S \in SeenSets, NEW T \in SeenSets
  PROVE  S \cup T \in SeenSets /\ Cardinality(S) <= Cardinality(S \cup T)
<1>1. IsFiniteSet(S) /\ IsFiniteSet(T) /\ S \subseteq Tasks /\ T \subseteq Tasks
  BY DEF SeenSets
<1>2. IsFiniteSet(S \cup T)
  BY <1>1, FS_Union
<1>3. Cardinality(S) <= Cardinality(S \cup T)
  BY <1>2, FS_Subset
<1>4. QED
  BY <1>1, <1>2, <1>3 DEF SeenSets

\* A row's first task: its count is 1, and no set that has it counts less.
LEMMA SeenOne ==
  ASSUME NEW t \in Tasks
  PROVE  {t} \in SeenSets /\ \A S \in SeenSets : Cardinality(S) \in Nat /\ (t \in S => 1 <= Cardinality(S))
<1>1. {t} \in SeenSets /\ Cardinality({t}) = 1
  BY FS_Singleton DEF SeenSets
<1>2. ASSUME NEW S \in SeenSets
      PROVE  Cardinality(S) \in Nat /\ (t \in S => 1 <= Cardinality(S))
  <2>1. Cardinality(S) \in Nat
    BY FS_CardinalityType DEF SeenSets
  <2>2. ASSUME t \in S PROVE 1 <= Cardinality(S)
    <3>1. {t} \cup S = S
      BY <2>2
    <3>2. QED
      BY <1>1, <3>1, SeenOf
  <2>3. QED
    BY <2>1, <2>2
<1>3. QED
  BY <1>1, <1>2

\* Putting a row among the pending ones, or taking an id off them, leaves held rows.
LEMMA PendingOf ==
  ASSUME NEW pending \in Seq(HeldRows), NEW row \in HeldRows, NEW id
  PROVE  _put_pending(pending, row) \in Seq(HeldRows) /\ _drop_pending(pending, id) \in Seq(HeldRows)
<1>1. \A x : _drop_pending(pending, x) \in Seq(HeldRows)
  BY WithinOf DEF _drop_pending
<1>2. Append(_drop_pending(pending, row.id), row) \in Seq(HeldRows)
  BY <1>1
<1>3. QED
  BY <1>1, <1>2 DEF _put_pending

\* A write of a candidate: an append, or the replacement of one tier file.
Asked(w, tier, rows) ==
  /\ w \in Writes /\ w.op \in {"append", "replace"}
  /\ Distinct(tier, rows) /\ w.file = tier =>
       Distinct(tier, IF w.op = "append" THEN rows \o w.rows ELSE w.rows)

\* A plan whose writes are asked for by a candidate for a file that holds the rows.
AskedPlan(plan, tier, rows) ==
  /\ plan \in Seq(Writes)
  /\ \A n \in DOMAIN plan :
       Asked(plan[n], tier, rows) /\ plan[n].file \in {tier, "quarantine"} /\ (plan[n].op = "append" => n = 1)

\* Holding a row back.
LEMMA HeldPlan ==
  ASSUME NEW pending \in Seq(HeldRows), NEW row \in HeldRows, NEW tier \in KindSet \cup {"entity"}, NEW rows
  PROVE  AskedPlan(<<_replace_rows("quarantine", _put_pending(pending, row))>>, tier, rows)
<1> DEFINE w == _replace_rows("quarantine", _put_pending(pending, row))
<1>1. _put_pending(pending, row) \in Seq(RowsOf("quarantine"))
  BY PendingOf, RowsAre
<1>2. w \in Writes /\ w.op = "replace" /\ w.file = "quarantine"
  <2>1. "quarantine" \in TierFiles /\ "replace" \in Puts \cup Restores
    BY DEF TierFiles, Puts
  <2>2. QED
    BY <1>1, <2>1, WriteOf DEF _replace_rows
<1>3. tier # "quarantine"
  BY FilesAre
<1> HIDE DEF w
<1>4. <<w>> \in Seq(Writes) /\ \A n \in DOMAIN <<w>> : n = 1 /\ <<w>>[n] = w
  BY <1>2
<1>5. QED
  BY <1>2, <1>3, <1>4 DEF AskedPlan, Asked, w

\* An appended row whose id no row has, or whose name no card has, is one of its own.
LEMMA DistinctAppend ==
  ASSUME NEW R, NEW rows \in Seq(R), NEW row \in R, NEW tier \in TierFiles, Distinct(tier, rows),
         tier \in KindSet => \A i \in DOMAIN rows : rows[i].id # row.id,
         tier = "entity" => \A i \in DOMAIN rows : rows[i].name # row.name
  PROVE  Distinct(tier, rows \o <<row>>)
<1> DEFINE v == rows \o <<row>>
           l == Len(rows)
<1>1. /\ l \in Nat /\ DOMAIN rows = 1..l /\ DOMAIN v = 1..(l + 1) /\ v[l + 1] = row
      /\ \A i \in 1..l : v[i] = rows[i]
  OBVIOUS
<1>2. \A i \in 1..(l + 1) : i \in 1..l \/ i = l + 1
  BY <1>1
<1> HIDE DEF v, l
<1>3. ASSUME tier \in KindSet, NEW i \in 1..(l + 1), NEW j \in 1..(l + 1), v[i].id = v[j].id PROVE i = j
  <2>1. \A m, n \in 1..l : rows[m].id = rows[n].id => m = n
    BY <1>1, <1>3 DEF Distinct
  <2>2. QED
    BY <1>1, <1>2, <1>3, <2>1
<1>4. ASSUME tier = "entity", NEW i \in 1..(l + 1), NEW j \in 1..(l + 1), v[i].name = v[j].name PROVE i = j
  <2>1. \A m, n \in 1..l : rows[m].name = rows[n].name => m = n
    BY <1>1, <1>4 DEF Distinct
  <2>2. QED
    BY <1>1, <1>2, <1>4, <2>1
<1>5. QED
  BY <1>1, <1>3, <1>4 DEF Distinct, v

\* Changing a row in its place, but for its id or name.
LEMMA DistinctExcept ==
  ASSUME NEW R, NEW rows \in Seq(R), NEW row \in R, NEW at \in DOMAIN rows, NEW tier, Distinct(tier, rows),
         tier \in KindSet => row.id = rows[at].id, tier = "entity" => row.name = rows[at].name
  PROVE  Distinct(tier, [rows EXCEPT ![at] = row]) /\ [rows EXCEPT ![at] = row] \in Seq(R)
<1> DEFINE v == [rows EXCEPT ![at] = row]
<1>1. DOMAIN v = DOMAIN rows /\ v[at] = row /\ (\A i \in DOMAIN rows : i # at => v[i] = rows[i]) /\ v \in Seq(R)
  OBVIOUS
<1> HIDE DEF v
<1>2. ASSUME tier \in KindSet, NEW i \in DOMAIN rows, NEW j \in DOMAIN rows, v[i].id = v[j].id PROVE i = j
  <2>1. v[i].id = rows[i].id /\ v[j].id = rows[j].id
    BY <1>1, <1>2
  <2>2. QED
    BY <1>2, <2>1 DEF Distinct
<1>3. ASSUME tier = "entity", NEW i \in DOMAIN rows, NEW j \in DOMAIN rows, v[i].name = v[j].name PROVE i = j
  <2>1. v[i].name = rows[i].name /\ v[j].name = rows[j].name
    BY <1>1, <1>3
  <2>2. QED
    BY <1>3, <2>1 DEF Distinct
<1>4. QED
  BY <1>1, <1>2, <1>3 DEF Distinct, v
\* A lesson seen again stays earned: nothing from outside is among the new evidence.
LEMMA MergedEarned ==
  ASSUME NEW k \in KindSet, NEW row \in EarnedRows(k), NEW c \in LessonCandidates, NEW at \in Nat, NEW task \in Tasks,
         assign_trust(c.evidence) \in DURABLE_TRUST_LEVELS
  PROVE  /\ _merge_long_term(row, c, at, task) \in EarnedRows(k)
         /\ _merge_long_term(row, c, at, task).id = row.id
<1> DEFINE r == _merge_long_term(row, c, at, task)
<1>1. row \in LessonRows /\ row.kind = k /\ Earned(row)
  BY DEF EarnedRows
<1>2. c.evidence \in SUBSET STRING /\ c.evidence \cap External = {}
  <2>1. c.evidence \in SUBSET STRING
    BY DEF LessonCandidates
  <2>2. QED
    BY <2>1, TrustOf
<1>3. row.seen \in SeenSets /\ {task} \in SeenSets
  BY <1>1, SeenOne DEF LessonRows
<1>4. row.seen \cup {task} \in SeenSets /\ Cardinality(row.seen) <= Cardinality(row.seen \cup {task})
  BY <1>3, SeenOf
<1>5. r \in LessonRows /\ r.kind = k /\ r.id = row.id /\ r.evidence = row.evidence \cup c.evidence
        /\ r.seen = row.seen \cup {task} /\ r.status = "active" /\ r.trust = row.trust /\ r.remedy = row.remedy
  BY <1>1, <1>2, <1>4 DEF _merge_long_term, LessonRows, Statuses
<1> HIDE DEF r
<1>6. Reliable(r)
  BY <1>1, <1>2, <1>5 DEF Reliable, Earned
<1>7. Cardinality(row.seen) \in Nat /\ Cardinality(r.seen) \in Nat /\ MinTasks \in Nat
  BY <1>3, <1>4, <1>5, SeenOne, MemoryAssumption
<1>8. Earned(r)
  BY <1>1, <1>4, <1>5, <1>6, <1>7 DEF Earned, _record_active
<1>9. QED
  BY <1>5, <1>8 DEF EarnedRows, r

\* A lesson the rules promote is earned.
LEMMA PromotedEarned ==
  ASSUME NEW c \in LessonCandidates, NEW S \in SeenSets, NEW task \in Tasks, NEW recurrence, NEW first \in Nat, NEW at \in Nat,
         recurrence = Cardinality({task} \cup S) \/ recurrence = 1,
         should_promote(assign_trust(c.evidence), c.evidence, recurrence, c.remedy)
  PROVE  LongTermRecord(c, "active", {task} \cup S, first, at) \in EarnedRows(c.kind)
<1> DEFINE r == LongTermRecord(c, "active", {task} \cup S, first, at)
           tasks == {task} \cup S
<1>1. tasks \in SeenSets /\ task \in tasks
  BY SeenOne, SeenOf
<1> HIDE DEF tasks
<1>2. /\ r \in LessonRows /\ r.kind = c.kind /\ r.status = "active" /\ r.seen = tasks
      /\ r.evidence = c.evidence /\ r.remedy = c.remedy /\ r.trust = assign_trust(c.evidence)
  <2>1. "active" \in Statuses
    BY DEF Statuses
  <2>2. r = LongTermRecord(c, "active", tasks, first, at)
    BY DEF tasks
  <2> HIDE DEF r
  <2>3. QED
    BY <1>1, <2>1, <2>2, LessonOf
<1>3. c.evidence \in SUBSET STRING
  BY DEF LessonCandidates
<1>4. assign_trust(c.evidence) \in DURABLE_TRUST_LEVELS
  BY DEF should_promote
<1>5. Reliable(r)
  BY <1>2, <1>3, <1>4, TrustOf DEF Reliable
<1>6. Cardinality(tasks) \in Nat /\ 1 <= Cardinality(tasks) /\ MinTasks \in Nat
  BY <1>1, SeenOne, MemoryAssumption
<1>7. recurrence >= MinTasks => Cardinality(tasks) >= MinTasks
  BY <1>6 DEF tasks
<1>8. r.trust = "artifact-backed" => r.remedy \/ Cardinality(r.seen) >= MinTasks
  BY <1>2, <1>7 DEF should_promote, AutoPromote
<1> HIDE DEF r
<1>9. QED
  BY <1>2, <1>5, <1>8 DEF EarnedRows, Earned, _record_active, r

\* A one-write plan and a two-write plan.
LEMMA PlanOne ==
  ASSUME NEW w, NEW tier, NEW rows, Asked(w, tier, rows), w.file \in {tier, "quarantine"}
  PROVE  AskedPlan(<<w>>, tier, rows)
<1>1. w \in Writes
  BY DEF Asked
<1>2. <<w>> \in Seq(Writes) /\ \A n \in DOMAIN <<w>> : n = 1 /\ <<w>>[n] = w
  BY <1>1
<1>3. QED
  BY <1>2 DEF AskedPlan

\* Two writes to a tier and to the quarantine, as an ingestion or a pass asks for them, are a plan.
LEMMA PlanTwo ==
  ASSUME NEW w, NEW v, NEW tier, NEW rows, Asked(w, tier, rows), w.file \in {tier, "quarantine"},
         Asked(v, tier, rows), v.file \in {tier, "quarantine"}, v.op # "append"
  PROVE  AskedPlan(<<w>> \o <<v>>, tier, rows)
<1>1. w \in Writes /\ v \in Writes
  BY DEF Asked
<1>2. <<w>> \o <<v>> \in Seq(Writes) /\ DOMAIN (<<w>> \o <<v>>) = 1..2
        /\ (<<w>> \o <<v>>)[1] = w /\ (<<w>> \o <<v>>)[2] = v
  BY <1>1
<1>3. \A n \in 1..2 : n = 1 \/ n = 2
  OBVIOUS
<1>4. QED
  BY <1>2, <1>3 DEF AskedPlan

\* The pending row of a lesson's id is a lesson.
LEMMA PendingLesson ==
  ASSUME NEW pending \in Seq(HeldRows), NEW c \in LessonCandidates, NEW at \in DOMAIN pending,
         pending[at].id = derive_long_term_id(c.kind, c.subject, c.paths)
  PROVE  pending[at].seen \in SeenSets /\ pending[at].first \in Nat
<1>1. pending[at] \in HeldRows
  OBVIOUS
<1>2. c.kind \in {"semantic", "procedural", "reviewer", "failure"}
  BY FilesAre DEF LessonCandidates
<1>3. ASSUME pending[at] \in CardRows PROVE FALSE
  <2>1. pending[at].id \in {"entity"} \X STRING
    BY <1>3 DEF CardRows
  <2>2. pending[at].id[1] = "entity"
    BY <2>1
  <2> DEFINE subject == IF c.paths = {} THEN c.subject ELSE ""
  <2>3. pending[at].id = <<c.kind, c.paths, subject>>
    BY DEF derive_long_term_id
  <2> HIDE DEF subject
  <2>4. QED
    BY <1>2, <2>2, <2>3
<1>4. pending[at] \in LessonRows
  BY <1>1, <1>3 DEF HeldRows
<1>5. QED
  BY <1>4 DEF LessonRows

\* The writes of a lesson or failure: a row that is held back, or one that is earned.
LEMMA LessonPlan ==
  ASSUME NEW c \in LessonCandidates, NEW failed, NEW pending \in Seq(HeldRows), NEW rows \in Seq(EarnedRows(c.kind)),
         NEW at \in Nat, NEW task \in Tasks
  PROVE  AskedPlan(_ingest_long_term(c, failed, pending, rows, at, task), c.kind, rows)
<1> DEFINE id == derive_long_term_id(c.kind, c.subject, c.paths)
           p == _index_by(pending, "id", id)
           prior == IF p = 0 THEN {} ELSE {pending[p]}
           others == UNION {r.seen : r \in prior}
           first == IF p = 0 THEN at ELSE pending[p].first
           m == _index_by(rows, "id", id)
           trust == assign_trust(c.evidence)
           held == <<_replace_rows("quarantine",
                      _put_pending(pending, LongTermRecord(c, "quarantined", {task} \cup others, first, at)))>>
           merged == <<_replace_rows(c.kind, [rows EXCEPT ![m] = _merge_long_term(@, c, at, task)])>>
           added == _append_row(c.kind, LongTermRecord(c, "active", {task} \cup others, first, at))
           taken == _replace_rows("quarantine", _drop_pending(pending, id))
           recurrence == Recurrence(prior, task, at)
<1>1. _ingest_long_term(c, failed, pending, rows, at, task) =
        IF failed \/ c.evidence = {} \/ trust \notin DURABLE_TRUST_LEVELS THEN held
        ELSE IF m # 0 THEN merged
        ELSE IF should_promote(trust, c.evidence, recurrence, c.remedy)
        THEN <<added>> \o (IF p = 0 THEN <<>> ELSE <<taken>>) ELSE held
  BY DEF _ingest_long_term
<1>2. c.kind \in KindSet
  BY DEF LessonCandidates
<1>3. c.kind \in TierFiles /\ "quarantine" \in TierFiles /\ c.kind # "quarantine" /\ RowsOf(c.kind) = EarnedRows(c.kind)
  BY <1>2, FilesAre, RowsAre
<1>4. others \in SeenSets /\ first \in Nat
  <2>1. CASE p = 0
    <3>1. others = {} /\ first = at
      BY <2>1
    <3>2. {} \in SeenSets
      BY FS_EmptySet DEF SeenSets
    <3>3. QED
      BY <3>1, <3>2
  <2>2. CASE p # 0
    <3>1. others = pending[p].seen /\ first = pending[p].first
      BY <2>2
    <3>2. p \in DOMAIN pending /\ pending[p].id = id
      <4> HIDE DEF id
      <4>1. QED
        BY <2>2, IndexOf
    <3> HIDE DEF p, others, first
    <3>3. QED
      BY <3>1, <3>2, PendingLesson
  <2>3. QED
    BY <2>1, <2>2
<1>5. recurrence = Cardinality({task} \cup others) \/ recurrence = 1
  BY DEF Recurrence
<1> HIDE DEF others, first, recurrence, p, prior
<1>6. AskedPlan(held, c.kind, rows)
  <2>1. {task} \cup others \in SeenSets
    BY <1>4, SeenOne, SeenOf
  <2>2. LongTermRecord(c, "quarantined", {task} \cup others, first, at) \in HeldRows
    BY <1>4, <2>1, HeldOf
  <2>3. QED
    BY <1>2, <2>2, HeldPlan
<1>7. ASSUME trust \in DURABLE_TRUST_LEVELS, m # 0 PROVE AskedPlan(merged, c.kind, rows)
  <2> DEFINE row == _merge_long_term(rows[m], c, at, task)
             after == [rows EXCEPT ![m] = row]
             w == _replace_rows(c.kind, after)
  <2>1. m \in DOMAIN rows
    <3> HIDE DEF id
    <3>1. QED
      BY <1>7, IndexOf
  <2> HIDE DEF m
  <2>2. rows[m] \in EarnedRows(c.kind)
    BY <2>1
  <2>3. row \in EarnedRows(c.kind) /\ row.id = rows[m].id
    BY <1>2, <1>7, <2>2, MergedEarned
  <2>4. merged = <<w>>
    BY DEF m
  <2> HIDE DEF row
  <2>5. after \in Seq(EarnedRows(c.kind)) /\ (Distinct(c.kind, rows) => Distinct(c.kind, after))
    <3>1. after \in Seq(EarnedRows(c.kind))
      BY <2>1, <2>3
    <3>2. c.kind # "entity"
      BY <1>2, FilesAre
    <3>3. QED
      BY <2>1, <2>3, <3>1, <3>2, DistinctExcept
  <2> HIDE DEF after
  <2>6. w \in Writes /\ w.op = "replace" /\ w.file = c.kind /\ w.rows = after
    <3>1. "replace" \in Puts \cup Restores
      BY DEF Puts
    <3>2. QED
      BY <1>3, <2>5, <3>1, WriteOf DEF _replace_rows
  <2> HIDE DEF w
  <2>7. Asked(w, c.kind, rows)
    BY <2>5, <2>6 DEF Asked
  <2> HIDE DEF merged
  <2>8. QED
    BY <2>4, <2>6, <2>7, PlanOne
<1>8. ASSUME m = 0, should_promote(trust, c.evidence, recurrence, c.remedy)
      PROVE  AskedPlan(<<added>> \o (IF p = 0 THEN <<>> ELSE <<taken>>), c.kind, rows)
  <2> DEFINE row == LongTermRecord(c, "active", {task} \cup others, first, at)
  <2>1. row \in EarnedRows(c.kind)
    BY <1>4, <1>5, <1>8, PromotedEarned
  <2>2. row.id = id
    BY DEF LongTermRecord
  <2>3. \A i \in DOMAIN rows : rows[i].id # id
    <3>1. \A i \in DOMAIN rows : "id" \in DOMAIN rows[i]
      <4>1. \A r \in EarnedRows(c.kind) : "id" \in DOMAIN r
        BY DEF EarnedRows, LessonRows
      <4>2. QED
        BY <4>1
    <3>2. \A i \in DOMAIN rows : rows[i]["id"] # id
      <4> HIDE DEF id
      <4>1. QED
        BY <1>8, <3>1, IndexOf
    <3>3. QED
      BY <3>2
  <2> HIDE DEF row, id
  <2>4. Distinct(c.kind, rows) => Distinct(c.kind, rows \o <<row>>)
    <3>1. c.kind # "entity"
      BY <1>2, FilesAre
    <3>2. QED
      BY <1>3, <2>1, <2>2, <2>3, <3>1, DistinctAppend
  <2>5. added \in Writes /\ added.op = "append" /\ added.file = c.kind /\ added.rows = <<row>>
    <3>1. "append" \in Puts \cup Restores /\ <<row>> \in Seq(RowsOf(c.kind))
      BY <1>3, <2>1 DEF Puts
    <3>2. QED
      BY <1>3, <3>1, WriteOf DEF _append_row, row
  <2>6. taken \in Writes /\ taken.op = "replace" /\ taken.file = "quarantine"
    <3>1. "replace" \in Puts \cup Restores
      BY DEF Puts
    <3>2. _drop_pending(pending, id) \in Seq(RowsOf("quarantine"))
      <4>1. \E r : r \in HeldRows
        <5>1. {task} \cup others \in SeenSets
          BY <1>4, SeenOne, SeenOf
        <5>2. QED
          BY <1>4, <5>1, HeldOf
      <4>2. QED
        BY <4>1, PendingOf, RowsAre
    <3>3. QED
      BY <1>3, <3>1, <3>2, WriteOf DEF _replace_rows
  <2> HIDE DEF added, taken
  <2>7. Asked(added, c.kind, rows) /\ Asked(taken, c.kind, rows)
    BY <1>3, <2>4, <2>5, <2>6 DEF Asked
  <2>8. CASE p = 0
    <3>1. <<added>> \o <<>> = <<added>>
      OBVIOUS
    <3>2. QED
      BY <2>5, <2>7, <2>8, <3>1, PlanOne
  <2>9. CASE p # 0
    BY <2>5, <2>6, <2>7, <2>9, PlanTwo
  <2>10. QED
    BY <2>8, <2>9
<1> HIDE DEF held, merged, added, taken, m, trust
<1>9. QED
  BY <1>1, <1>6, <1>7, <1>8

\* The card of an item, and what decides whether it is written.
LEMMA CardOf ==
  ASSUME NEW c \in CardCandidates, NEW files, NEW task \in Tasks
  PROVE  LET r == EntityRecord(c, files, task)
         IN  /\ r \in CardRows /\ [r EXCEPT !.status = "quarantined"] \in CardRows /\ r.seen = {task}
             /\ r.trust \in DURABLE_TRUST_LEVELS => r \in ObservedCards
<1> DEFINE r == EntityRecord(c, files, task)
<1>1. c.subject \in STRING /\ c.paths \in Seq(Paths)
  BY DEF CardCandidates
<1>2. assign_entity_trust(c.paths, files) \in {"repo-observed", "agent-inferred"}
  BY DEF assign_entity_trust
<1>3. {task} \in SeenSets
  BY SeenOne
<1> DEFINE name == IF c.paths # <<>> THEN c.paths[1] ELSE c.subject
<1>4. name \in Paths \cup STRING
  BY <1>1
<1>5. <<"entity", c.subject>> \in {"entity"} \X STRING
  BY <1>1
<1>6. r = [id |-> <<"entity", c.subject>>, kind |-> "entity", name |-> name, paths |-> c.paths,
           trust |-> assign_entity_trust(c.paths, files), status |-> "active", seen |-> {task}]
  BY DEF EntityRecord
<1> HIDE DEF name, r
<1>7. r \in CardRows /\ r.seen = {task}
  BY <1>1, <1>2, <1>3, <1>4, <1>5, <1>6 DEF CardRows, Statuses
<1>8. [r EXCEPT !.status = "quarantined"] \in CardRows
  BY <1>7 DEF CardRows, Statuses
<1>9. r.trust \in DURABLE_TRUST_LEVELS => r.trust = "repo-observed"
  BY <1>7 DEF CardRows, DURABLE_TRUST_LEVELS
<1>10. QED
  BY <1>7, <1>8, <1>9 DEF ObservedCards, r

\* The writes of a card: held back, or in the place of the card of its name.
LEMMA CardPlan ==
  ASSUME NEW c \in CardCandidates, NEW failed, NEW pending \in Seq(HeldRows), NEW cards \in Seq(ObservedCards),
         NEW files, NEW task \in Tasks
  PROVE  AskedPlan(_ingest_entity(c, failed, pending, cards, files, task), "entity", cards)
<1> DEFINE row == EntityRecord(c, files, task)
           at == _index_by(cards, "name", row.name)
           held == [row EXCEPT !.status = "quarantined"]
           merged == [row EXCEPT !.seen = @ \cup cards[at].seen]
           after == [cards EXCEPT ![at] = merged]
           put == _replace_rows("entity", after)
           added == _append_row("entity", row)
<1>1. _ingest_entity(c, failed, pending, cards, files, task) =
        IF failed \/ row.trust \notin DURABLE_TRUST_LEVELS
        THEN <<_replace_rows("quarantine", _put_pending(pending, held))>>
        ELSE IF at # 0 THEN <<put>> ELSE <<added>>
  BY DEF _ingest_entity
<1>2. row \in CardRows /\ held \in CardRows /\ row.seen = {task} /\ (row.trust \in DURABLE_TRUST_LEVELS => row \in ObservedCards)
  BY CardOf
<1>3. "entity" \in TierFiles /\ RowsOf("entity") = ObservedCards /\ "entity" \notin KindSet
  BY FilesAre, RowsAre
<1> HIDE DEF row
<1>4. AskedPlan(<<_replace_rows("quarantine", _put_pending(pending, held))>>, "entity", cards)
  <2>1. held \in HeldRows
    BY <1>2 DEF HeldRows
  <2>2. QED
    BY <2>1, HeldPlan
<1>5. ASSUME row \in ObservedCards, at # 0 PROVE AskedPlan(<<put>>, "entity", cards)
  <2>1. at \in DOMAIN cards /\ cards[at]["name"] = row.name
    BY <1>5, IndexOf
  <2> HIDE DEF at
  <2>2. cards[at] \in ObservedCards
    BY <2>1
  <2>3. cards[at].seen \in SeenSets /\ row.seen \in SeenSets
    BY <1>5, <2>2 DEF ObservedCards, CardRows
  <2>4. row.seen \cup cards[at].seen \in SeenSets
    BY <2>3, SeenOf
  <2>5. merged \in ObservedCards /\ merged.name = cards[at].name
    BY <1>5, <2>1, <2>4 DEF ObservedCards, CardRows
  <2> HIDE DEF merged
  <2>6. after \in Seq(ObservedCards) /\ (Distinct("entity", cards) => Distinct("entity", after))
    <3>1. after \in Seq(ObservedCards)
      BY <2>1, <2>5
    <3>2. QED
      BY <1>3, <2>1, <2>5, <3>1, DistinctExcept
  <2> HIDE DEF after
  <2>7. put \in Writes /\ put.op = "replace" /\ put.file = "entity" /\ put.rows = after
    <3>1. "replace" \in Puts \cup Restores
      BY DEF Puts
    <3>2. QED
      BY <1>3, <2>6, <3>1, WriteOf DEF _replace_rows
  <2> HIDE DEF put
  <2>8. Asked(put, "entity", cards)
    BY <2>6, <2>7 DEF Asked
  <2>9. QED
    BY <2>7, <2>8, PlanOne
<1>6. ASSUME row \in ObservedCards, at = 0 PROVE AskedPlan(<<added>>, "entity", cards)
  <2>1. \A i \in DOMAIN cards : cards[i].name # row.name
    <3>1. \A r \in ObservedCards : "name" \in DOMAIN r
      BY DEF ObservedCards, CardRows
    <3>2. \A i \in DOMAIN cards : "name" \in DOMAIN cards[i]
      BY <3>1
    <3>3. \A i \in DOMAIN cards : cards[i]["name"] # row.name
      BY <1>6, <3>2, IndexOf
    <3>4. QED
      BY <3>3
  <2>2. Distinct("entity", cards) => Distinct("entity", cards \o <<row>>)
    BY <1>3, <1>6, <2>1, DistinctAppend
  <2>3. added \in Writes /\ added.op = "append" /\ added.file = "entity" /\ added.rows = <<row>>
    <3>1. "append" \in Puts \cup Restores /\ <<row>> \in Seq(RowsOf("entity"))
      BY <1>3, <1>6 DEF Puts
    <3>2. QED
      BY <1>3, <3>1, WriteOf DEF _append_row
  <2> HIDE DEF added
  <2>4. Asked(added, "entity", cards)
    BY <2>2, <2>3 DEF Asked
  <2>5. QED
    BY <2>3, <2>4, PlanOne
<1> HIDE DEF put, added, at, held
<1>7. QED
  BY <1>1, <1>2, <1>4, <1>5, <1>6
-----------------------------------------------------------------------------
(* What an answer is read as, and what a row becomes when files move.       *)

\* A function on 1..n is a sequence, also one of converted items.
LEMMA MappedSeq ==
  ASSUME NEW V, NEW R, NEW s \in Seq(R), NEW f, f = [i \in DOMAIN s |-> f[i]], \A i \in DOMAIN s : f[i] \in V
  PROVE  f \in Seq(V) /\ DOMAIN f = DOMAIN s
<1>1. DOMAIN s = 1..Len(s) /\ Len(s) \in Nat
  OBVIOUS
<1>2. f \in [1..Len(s) -> V]
  BY <1>1
<1>3. QED
  BY <1>1, <1>2

\* A sequence all of whose items are in a set is one over it.
LEMMA SeqIn ==
  ASSUME NEW V, NEW R, NEW s \in Seq(R), \A i \in DOMAIN s : s[i] \in V
  PROVE  s \in Seq(V)
  OBVIOUS

\* Whatever a provider answers, what is read from it are lessons, failures and cards.
LEMMA ParsedOf ==
  ASSUME NEW raw \in Seq(RawItem)
  PROVE  parse_delta(raw) \in Seq(Candidates)
<1> DEFINE lessons == {i \in OfList(raw, "lessons") : _parse_lesson(raw[i])}
           failures == {i \in OfList(raw, "failures") : _parse_failure(raw[i])}
           entities == {i \in OfList(raw, "entities") : _parse_entity(raw[i])}
           ls == Within(raw, lessons)
           fs == Within(raw, failures)
           es == Within(raw, entities)
           a == [i \in DOMAIN ls |-> CandidateLesson(ls[i])]
           b == [i \in DOMAIN fs |-> CandidateFailure(fs[i])]
           c == [i \in DOMAIN es |-> CandidateEntity(es[i])]
<1>1. parse_delta(raw) = a \o b \o c
  BY DEF parse_delta, Mapped
<1>2. ls \in Seq(RawItem) /\ fs \in Seq(RawItem) /\ es \in Seq(RawItem)
  <2> HIDE DEF lessons, failures, entities
  <2>1. QED
    BY WithinOf
<1>3. ASSUME NEW item \in RawItem
      PROVE  /\ CandidateLesson(item) \in LessonCandidates /\ CandidateFailure(item) \in LessonCandidates
             /\ CandidateEntity(item) \in CardCandidates
  <2>1. /\ item.kind \in KindSet /\ item.subject \in STRING /\ item.paths \in Seq(Paths)
        /\ item.nodes \in SUBSET STRING /\ item.evidence \in SUBSET STRING /\ item.remedy \in BOOLEAN
    BY <1>3 DEF RawItem
  <2>2. ToSet(item.paths) \in SUBSET Paths
    BY <2>1 DEF ToSet
  <2>3. "failure" \in KindSet
    BY FilesAre
  <2>4. CandidateLesson(item) \in LessonCandidates
    BY <2>1, <2>2 DEF CandidateLesson, LessonCandidates
  <2>5. CandidateFailure(item) \in LessonCandidates
    BY <2>1, <2>2, <2>3 DEF CandidateFailure, LessonCandidates
  <2>6. CandidateEntity(item) \in CardCandidates
    BY <2>1 DEF CandidateEntity, CardCandidates
  <2>7. QED
    BY <2>4, <2>5, <2>6
<1> HIDE DEF ls, fs, es
<1>4. \A item \in RawItem :
        /\ CandidateLesson(item) \in Candidates /\ CandidateFailure(item) \in Candidates
        /\ CandidateEntity(item) \in Candidates
  BY <1>3 DEF Candidates
<1>5. a \in Seq(Candidates)
  <2>1. a = [i \in DOMAIN ls |-> a[i]] /\ \A i \in DOMAIN ls : a[i] \in Candidates
    <3>1. \A i \in DOMAIN ls : ls[i] \in RawItem
      BY <1>2
    <3>2. QED
      BY <1>4, <3>1
  <2> HIDE DEF a
  <2>2. QED
    BY <1>2, <2>1, MappedSeq
<1>6. b \in Seq(Candidates)
  <2>1. b = [i \in DOMAIN fs |-> b[i]] /\ \A i \in DOMAIN fs : b[i] \in Candidates
    <3>1. \A i \in DOMAIN fs : fs[i] \in RawItem
      BY <1>2
    <3>2. QED
      BY <1>4, <3>1
  <2> HIDE DEF b
  <2>2. QED
    BY <1>2, <2>1, MappedSeq
<1>7. c \in Seq(Candidates)
  <2>1. c = [i \in DOMAIN es |-> c[i]] /\ \A i \in DOMAIN es : c[i] \in Candidates
    <3>1. \A i \in DOMAIN es : es[i] \in RawItem
      BY <1>2
    <3>2. QED
      BY <1>4, <3>1
  <2> HIDE DEF c
  <2>2. QED
    BY <1>2, <2>1, MappedSeq
<1> HIDE DEF a, b, c
<1>8. QED
  BY <1>1, <1>5, <1>6, <1>7

\* A file that has one namesake is found at its place; the tracked files are known ones.
LEMMA MovedOf ==
  ASSUME NEW files \in SUBSET Paths, NEW paths \in SUBSET Paths, ~Unresolved(paths, files), NEW p \in paths
  PROVE  Moved(p, files) \in Paths
<1>1. CASE p \in files
  BY <1>1 DEF Moved
<1>2. CASE p \notin files
  <2>1. Cardinality(find_by_basename(p, files)) = 1
    BY <1>2 DEF Unresolved, Missing
  <2>2. find_by_basename(p, files) # {}
    BY <2>1, FS_EmptySet
  <2>3. find_by_basename(p, files) \subseteq Paths
    BY DEF find_by_basename
  <2> DEFINE found == find_by_basename(p, files)
  <2>4. Moved(p, files) = CHOOSE q \in found : TRUE
    BY <1>2 DEF Moved
  <2> HIDE DEF found
  <2>5. Moved(p, files) \in found
    BY <2>2, <2>4 DEF found
  <2>6. QED
    BY <2>3, <2>5 DEF found
<1>3. QED
  BY <1>1, <1>2

\* What a row is classified as: itself, itself held back, or itself at the new place.
Classified(c, row, R) ==
  /\ c.row.kind = row.kind /\ c.row.seen = row.seen /\ c.row \in R \cup HeldRows
  /\ c.verdict \in {"fresh", "quarantine", "remap"} /\ (c.verdict = "fresh" => c.row = row)
  /\ c.verdict # "quarantine" => c.row \in R
  /\ c.verdict = "quarantine" => c.row \in HeldRows

\* Looking at a card yields it as it was, at its file's new place, or on its way to the quarantine.
LEMMA ClassifiedCard ==
  ASSUME NEW files \in SUBSET Paths, NEW row \in ObservedCards
  PROVE  Classified(_classify_entity(row, files), row, ObservedCards)
<1> DEFINE paths == ToSet(row.paths)
           moved == [i \in DOMAIN row.paths |-> Moved(row.paths[i], files)]
           held == [row EXCEPT !.status = "quarantined"]
           there == [row EXCEPT !.paths = moved, !.name = moved[1]]
<1>1. _classify_entity(row, files) =
        IF Missing(paths, files) = {} THEN [verdict |-> "fresh", row |-> row]
        ELSE IF Unresolved(paths, files) THEN [verdict |-> "quarantine", row |-> held]
        ELSE [verdict |-> "remap", row |-> there]
  BY DEF _classify_entity
<1>2. row \in CardRows /\ row.trust = "repo-observed" /\ row.paths \in Seq(Paths)
  BY DEF ObservedCards, CardRows
<1>3. held \in CardRows /\ held.kind = row.kind /\ held.seen = row.seen
  BY <1>2 DEF CardRows, Statuses
<1>4. paths \in SUBSET Paths
  BY <1>2 DEF ToSet
<1>5. ASSUME Missing(paths, files) # {}, ~Unresolved(paths, files)
      PROVE  there \in ObservedCards /\ there.kind = row.kind /\ there.seen = row.seen
  <2>1. \A i \in DOMAIN row.paths : moved[i] \in Paths
    <3>1. ASSUME NEW i \in DOMAIN row.paths PROVE Moved(row.paths[i], files) \in Paths
      <4>1. row.paths[i] \in paths
        BY DEF ToSet
      <4> HIDE DEF paths
      <4>2. QED
        BY <1>4, <1>5, <4>1, MovedOf
    <3>2. QED
      BY <3>1
  <2>2. moved = [i \in DOMAIN row.paths |-> moved[i]]
    OBVIOUS
  <2>3. 1 \in DOMAIN row.paths
    <3>1. paths # {}
      BY <1>5 DEF Missing
    <3>2. DOMAIN row.paths # {}
      BY <3>1 DEF ToSet
    <3>3. QED
      BY <1>2, <3>2
  <2> HIDE DEF moved
  <2>4. moved \in Seq(Paths)
    BY <1>2, <2>1, <2>2, MappedSeq
  <2>5. moved[1] \in Paths \cup STRING
    BY <2>1, <2>3
  <2> DEFINE at == moved[1]
  <2> HIDE DEF at
  <2>6. [row EXCEPT !.paths = moved, !.name = at] \in CardRows
    BY <1>2, <2>4, <2>5 DEF CardRows, at
  <2>7. there = [row EXCEPT !.paths = moved, !.name = at]
    BY DEF at
  <2>8. there.trust = "repo-observed" /\ there.kind = row.kind /\ there.seen = row.seen
    BY <1>2, <2>7 DEF CardRows
  <2>9. QED
    BY <2>6, <2>7, <2>8 DEF ObservedCards
<1> HIDE DEF paths, held, there
<1>6. held \in HeldRows
  BY <1>3 DEF HeldRows
<1> DEFINE c == _classify_entity(row, files)
<1>7. CASE Missing(paths, files) = {}
  <2>1. c = [verdict |-> "fresh", row |-> row]
    BY <1>1, <1>7
  <2> HIDE DEF c
  <2>2. QED
    BY <2>1 DEF Classified, c
<1>8. CASE Missing(paths, files) # {} /\ Unresolved(paths, files)
  <2>1. c = [verdict |-> "quarantine", row |-> held]
    BY <1>1, <1>8
  <2> HIDE DEF c
  <2>2. QED
    BY <1>3, <1>6, <2>1 DEF Classified, c
<1>9. CASE Missing(paths, files) # {} /\ ~Unresolved(paths, files)
  <2>1. c = [verdict |-> "remap", row |-> there]
    BY <1>1, <1>9
  <2> HIDE DEF c
  <2>2. QED
    BY <1>5, <1>9, <2>1 DEF Classified, c
<1>10. QED
  BY <1>7, <1>8, <1>9

\* Looking at a lesson never changes what earned it its place: its trust, evidence and tasks stay.
LEMMA ClassifiedLesson ==
  ASSUME NEW files \in SUBSET Paths, NEW k \in KindSet, NEW row \in EarnedRows(k)
  PROVE  Classified(_classify_lesson(row, files), row, EarnedRows(k))
<1> DEFINE moved == {Moved(p, files) : p \in row.paths}
           held == [row EXCEPT !.status = "quarantined"]
           id == derive_long_term_id(row.kind, row.subject, moved)
           there == [row EXCEPT !.paths = moved, !.id = id]
<1>1. _classify_lesson(row, files) =
        IF Missing(row.paths, files) = {} THEN [verdict |-> "fresh", row |-> row]
        ELSE IF Unresolved(row.paths, files) THEN [verdict |-> "quarantine", row |-> held]
        ELSE [verdict |-> "remap", row |-> there]
  BY DEF _classify_lesson
<1>2. row \in LessonRows /\ row.kind = k /\ Earned(row) /\ row.paths \in SUBSET Paths /\ row.subject \in STRING
  BY DEF EarnedRows, LessonRows
<1>3. held \in LessonRows /\ held.kind = row.kind /\ held.seen = row.seen /\ Reliable(held)
  <2>1. held \in LessonRows /\ held.kind = row.kind /\ held.seen = row.seen
          /\ held.trust = row.trust /\ held.evidence = row.evidence
    BY <1>2 DEF LessonRows, Statuses
  <2> HIDE DEF held
  <2>2. QED
    BY <1>2, <2>1 DEF Earned, Reliable
<1>4. held \in HeldRows
  <2> HIDE DEF held
  <2>1. QED
    BY <1>3 DEF HeldRows
<1>5. ASSUME ~Unresolved(row.paths, files)
      PROVE  there \in EarnedRows(k) /\ there.kind = row.kind /\ there.seen = row.seen
  <2>1. moved \in SUBSET Paths
    <3>1. \A p \in row.paths : Moved(p, files) \in Paths
      BY <1>2, <1>5, MovedOf
    <3>2. QED
      BY <3>1
  <2> HIDE DEF moved
  <2>2. id \in KindSet \X (SUBSET Paths) \X (STRING \cup {""})
    <3> DEFINE subject == IF moved = {} THEN row.subject ELSE ""
               words == STRING \cup {""}
               scopes == SUBSET Paths
    <3>1. subject \in words /\ moved \in scopes /\ row.kind \in KindSet
      BY <1>2, <2>1
    <3>2. id = <<row.kind, moved, subject>>
      BY DEF derive_long_term_id
    <3> HIDE DEF subject, words, scopes, id
    <3>3. <<row.kind, moved, subject>> \in KindSet \X scopes \X words
      BY <3>1
    <3>4. QED
      BY <3>2, <3>3 DEF words, scopes
  <2> HIDE DEF id
  <2>3. there \in LessonRows /\ there.kind = k /\ there.seen = row.seen /\ there.trust = row.trust
          /\ there.evidence = row.evidence /\ there.status = row.status /\ there.remedy = row.remedy
    BY <1>2, <2>1, <2>2 DEF LessonRows
  <2> HIDE DEF there
  <2>4. Earned(there)
    BY <1>2, <2>3 DEF Earned, Reliable, _record_active
  <2>5. QED
    BY <1>2, <2>3, <2>4 DEF EarnedRows
<1> HIDE DEF held, there
<1> DEFINE c == _classify_lesson(row, files)
<1>7. CASE Missing(row.paths, files) = {}
  <2>1. c = [verdict |-> "fresh", row |-> row]
    BY <1>1, <1>7
  <2> HIDE DEF c
  <2>2. QED
    BY <2>1 DEF Classified, c
<1>8. CASE Missing(row.paths, files) # {} /\ Unresolved(row.paths, files)
  <2>1. c = [verdict |-> "quarantine", row |-> held]
    BY <1>1, <1>8
  <2> HIDE DEF c
  <2>2. QED
    BY <1>3, <1>4, <2>1 DEF Classified, c
<1>9. CASE Missing(row.paths, files) # {} /\ ~Unresolved(row.paths, files)
  <2>1. c = [verdict |-> "remap", row |-> there]
    BY <1>1, <1>9
  <2> HIDE DEF c
  <2>2. QED
    BY <1>5, <1>9, <2>1 DEF Classified, c
<1>10. QED
  BY <1>7, <1>8, <1>9
-----------------------------------------------------------------------------
(* Collapsing rows that agree.                                              *)

\* The rows alike the i-th are finitely many, and the first of them is a first.
LEMMA AlikeOf ==
  ASSUME NEW R, NEW rows \in Seq(R), NEW field, NEW i \in DOMAIN rows
  PROVE  /\ i \in Alike(rows, field, i) /\ Alike(rows, field, i) \subseteq DOMAIN rows
         /\ \E m \in Firsts(rows, field) : Alike(rows, field, m) = Alike(rows, field, i)
<1> DEFINE A == Alike(rows, field, i)
<1>1. i \in A /\ A \subseteq DOMAIN rows /\ \A j \in A : rows[j][field] = rows[i][field]
  BY DEF Alike
<1>2. A \in SUBSET Nat
  BY <1>1
<1> HIDE DEF A
<1>3. PICK m \in A : \A j \in A : m <= j
  BY <1>1, <1>2, LeastExists
<1>4. Alike(rows, field, m) = A
  BY <1>1, <1>3 DEF Alike, A
<1>5. m \in Firsts(rows, field)
  BY <1>1, <1>3, <1>4 DEF Firsts
<1>6. QED
  BY <1>1, <1>4, <1>5 DEF A

\* Two firsts that agree are one.
LEMMA FirstsDiffer ==
  ASSUME NEW R, NEW rows \in Seq(R), NEW field, NEW i \in Firsts(rows, field), NEW j \in Firsts(rows, field),
         rows[i][field] = rows[j][field]
  PROVE  i = j
<1>1. i \in DOMAIN rows /\ j \in DOMAIN rows
  BY DEF Firsts
<1>2. j \in Alike(rows, field, i) /\ i \in Alike(rows, field, j)
  BY <1>1 DEF Alike
<1>3. i <= j /\ j <= i
  BY <1>2 DEF Firsts
<1>4. i \in Nat /\ j \in Nat
  BY <1>1
<1>5. QED
  BY <1>3, <1>4

\* The tasks of the rows at some places.
SeenAt(rows, places) == UNION {rows[j].seen : j \in places}

\* They are finitely many.
LEMMA SeenAll ==
  ASSUME NEW R, NEW rows \in Seq(R), \A i \in DOMAIN rows : rows[i].seen \in SeenSets,
         NEW A \in SUBSET DOMAIN rows
  PROVE  SeenAt(rows, A) \in SeenSets
<1> DEFINE T == {rows[j].seen : j \in A}
           f == [j \in A |-> rows[j].seen]
<1>1. IsFiniteSet(A)
  <2>1. DOMAIN rows = 1..Len(rows) /\ Len(rows) \in Int
    OBVIOUS
  <2>2. IsFiniteSet(1..Len(rows))
    BY <2>1, FS_Interval
  <2>3. QED
    BY <2>1, <2>2, FS_Subset
<1>2. f \in Surjection(A, T)
  BY DEF Surjection
<1>3. IsFiniteSet(T)
  <2> HIDE DEF f, T
  <2>1. QED
    BY <1>1, <1>2, FS_Surjection
<1>4. \A S \in T : IsFiniteSet(S) /\ S \subseteq Tasks
  BY DEF SeenSets
<1> HIDE DEF T
<1>5. IsFiniteSet(UNION T) /\ UNION T \subseteq Tasks
  BY <1>3, <1>4, FS_UNION
<1>6. QED
  BY <1>5 DEF SeenSets, T, SeenAt

\* What is picked from a sequence at the firsts of another, row for row of the same field and kind:
\* one row per value, and everything known of.
LEMMA PickedFirsts ==
  ASSUME NEW R, NEW rows \in Seq(R), NEW V, NEW s \in Seq(V), DOMAIN s = DOMAIN rows, NEW field,
         \A i \in DOMAIN rows : s[i].kind = rows[i].kind /\ s[i].seen = SeenAt(rows, Alike(rows, field, i)),
         \A i, j \in DOMAIN rows : rows[i].kind = rows[j].kind
  PROVE  /\ Within(s, Firsts(rows, field)) \in Seq(V)
         /\ Picked(s, Firsts(rows, field), Within(s, Firsts(rows, field)))
         /\ Known(rows) \subseteq Known(Within(s, Firsts(rows, field)))
<1> DEFINE F == Firsts(rows, field)
           w == Within(s, F)
<1>1. F \cap DOMAIN s = F
  BY DEF Firsts
<1>2. w \in Seq(V) /\ Picked(s, F, w)
  <2> DEFINE G == F \cap DOMAIN s
  <2> HIDE DEF F
  <2>1. w \in Seq(V) /\ Picked(s, G, w)
    BY WithinOf
  <2>2. G = F
    BY <1>1
  <2> HIDE DEF G, w
  <2>3. QED
    BY <2>1, <2>2
<1> HIDE DEF F, w
<1>3. ASSUME NEW x \in Known(rows) PROVE x \in Known(w)
  <2>1. PICK i \in DOMAIN rows : x \in {<<rows[i].kind, t>> : t \in rows[i].seen}
    BY DEF Known
  <2>2. PICK t \in rows[i].seen : x = <<rows[i].kind, t>>
    BY <2>1
  <2>3. PICK m \in F : Alike(rows, field, m) = Alike(rows, field, i)
    BY AlikeOf DEF F
  <2>4. m \in DOMAIN rows /\ i \in Alike(rows, field, m)
    BY <2>3, AlikeOf DEF F, Firsts
  <2>5. t \in s[m].seen /\ s[m].kind = rows[i].kind
    BY <2>2, <2>4 DEF SeenAt
  <2>6. PICK n \in DOMAIN w : w[n] = s[m]
    BY <1>2, <2>3 DEF Picked
  <2>7. x \in {<<w[n].kind, u>> : u \in w[n].seen}
    BY <2>2, <2>5, <2>6
  <2>8. QED
    BY <2>7 DEF Known
<1>4. QED
  BY <1>2, <1>3 DEF F, w

\* Rows picked keep their ids, and their names, apart.
LEMMA PickedDistinct ==
  ASSUME NEW tier, NEW s, NEW S, NEW w, Picked(s, S, w),
         tier \in KindSet => \A i, j \in S : s[i].id = s[j].id => i = j,
         tier = "entity" => \A i, j \in S : s[i].name = s[j].name => i = j
  PROVE  Distinct(tier, w)
<1>1. \A m, n \in DOMAIN w : m # n => \E i, j \in S : i # j /\ w[m] = s[i] /\ w[n] = s[j]
  BY DEF Picked
<1>2. QED
  BY <1>1 DEF Distinct

\* A row that keeps its place for those at A.
Keeper(rows, i, A) == _absorb(rows[i], {rows[j] : j \in A})

\* The keeper of some lessons, with the evidence and the tasks of all.
LEMMA AbsorbedEarned ==
  ASSUME NEW k \in KindSet, NEW rows \in Seq(EarnedRows(k)), NEW A \in SUBSET DOMAIN rows, NEW i \in A
  PROVE  LET r == Keeper(rows, i, A)
         IN  r \in EarnedRows(k) /\ r.id = rows[i].id /\ r.kind = rows[i].kind
               /\ r.seen = SeenAt(rows, A)
<1> DEFINE others == {rows[j] : j \in A}
           evidence == UNION {o.evidence : o \in others}
           tasks == UNION {o.seen : o \in others}
           r == [rows[i] EXCEPT !.evidence = evidence, !.seen = tasks]
<1>1. _absorb(rows[i], others) = r
  BY DEF _absorb
<1>2. \A j \in A : rows[j] \in EarnedRows(k) /\ rows[j] \in LessonRows /\ rows[j].kind = k /\ Earned(rows[j])
  <2>1. \A j \in A : rows[j] \in EarnedRows(k)
    OBVIOUS
  <2>2. QED
    BY <2>1 DEF EarnedRows
<1>3. evidence \in SUBSET STRING /\ evidence # {} /\ evidence \cap External = {}
  <2>1. \A o \in others : o.evidence \in SUBSET STRING /\ o.evidence # {} /\ o.evidence \cap External = {}
    <3>1. \A o \in LessonRows : o.evidence \in SUBSET STRING
      BY DEF LessonRows
    <3>2. \A o : Earned(o) => o.evidence # {} /\ o.evidence \cap External = {}
      BY DEF Earned, Reliable
    <3>3. \A o \in others : o \in LessonRows /\ Earned(o)
      BY <1>2
    <3> HIDE DEF others
    <3>4. QED
      BY <3>1, <3>2, <3>3
  <2>2. rows[i] \in others
    OBVIOUS
  <2> HIDE DEF others
  <2>3. QED
    BY <2>1, <2>2
<1>4. tasks = SeenAt(rows, A)
  BY DEF SeenAt
<1>5. tasks \in SeenSets /\ rows[i].seen \in SeenSets /\ rows[i].seen \subseteq tasks
  <2>1. \A j \in DOMAIN rows : rows[j].seen \in SeenSets
    <3>1. \A j \in DOMAIN rows : rows[j] \in EarnedRows(k)
      OBVIOUS
    <3>2. QED
      BY <3>1 DEF EarnedRows, LessonRows
  <2>2. SeenAt(rows, A) \in SeenSets
    BY <2>1, SeenAll
  <2>3. rows[i].seen \subseteq SeenAt(rows, A)
    BY DEF SeenAt
  <2> HIDE DEF tasks
  <2>4. QED
    BY <1>4, <2>1, <2>2, <2>3
<1> HIDE DEF evidence, tasks, others
<1>6. r \in LessonRows /\ r.kind = k /\ r.id = rows[i].id /\ r.evidence = evidence /\ r.seen = tasks
        /\ r.trust = rows[i].trust /\ r.remedy = rows[i].remedy /\ r.status = rows[i].status
  <2>1. rows[i] \in LessonRows /\ rows[i].kind = k
    BY <1>2
  <2>2. QED
    BY <1>3, <1>5, <2>1 DEF LessonRows
<1>7. Cardinality(rows[i].seen) \in Nat /\ Cardinality(r.seen) \in Nat /\ MinTasks \in Nat
        /\ Cardinality(rows[i].seen) <= Cardinality(r.seen)
  <2>1. rows[i].seen \cup tasks = tasks
    BY <1>5
  <2>2. \A S \in SeenSets : Cardinality(S) \in Nat
    BY FS_CardinalityType DEF SeenSets
  <2> HIDE DEF r
  <2>3. QED
    BY <1>5, <1>6, <2>1, <2>2, SeenOf, MemoryAssumption
<1> HIDE DEF r
<1>8. Earned(r)
  BY <1>2, <1>3, <1>6, <1>7 DEF Earned, Reliable, _record_active
<1>9. r \in EarnedRows(k)
  BY <1>6, <1>8 DEF EarnedRows
<1>10. Keeper(rows, i, A) = r
  BY <1>1 DEF Keeper, others, r
<1> DEFINE q == Keeper(rows, i, A)
<1>11. q = r
  BY <1>10
<1> HIDE DEF q
<1>12. q \in EarnedRows(k) /\ q.id = rows[i].id /\ q.kind = rows[i].kind /\ q.seen = SeenAt(rows, A)
  BY <1>2, <1>4, <1>6, <1>9, <1>11
<1>13. QED
  BY <1>12 DEF q

\* Collapsing lessons keeps what is known and leaves them earned; it makes ids their own if they
\* are what it collapses by, and keeps them so if not.
LEMMA CollapsedLessons ==
  ASSUME NEW k \in KindSet, NEW rows \in Seq(EarnedRows(k)), NEW field
  PROVE  /\ CollapseBy(rows, field) \in Seq(EarnedRows(k))
         /\ Known(rows) \subseteq Known(CollapseBy(rows, field))
         /\ field = "id" \/ Distinct(k, rows) => Distinct(k, CollapseBy(rows, field))
<1> DEFINE s == [i \in DOMAIN rows |-> _absorb(rows[i], {rows[j] : j \in Alike(rows, field, i)})]
<1>1. CollapseBy(rows, field) = Within(s, Firsts(rows, field))
  BY DEF CollapseBy
<1>2. ASSUME NEW i \in DOMAIN rows
      PROVE  s[i] \in EarnedRows(k) /\ s[i].id = rows[i].id /\ s[i].kind = rows[i].kind
               /\ s[i].seen = SeenAt(rows, Alike(rows, field, i))
  <2> DEFINE A == Alike(rows, field, i)
  <2>1. A \in SUBSET DOMAIN rows /\ i \in A
    BY AlikeOf
  <2> HIDE DEF A
  <2> DEFINE r == Keeper(rows, i, A)
  <2>2. r \in EarnedRows(k) /\ r.id = rows[i].id /\ r.kind = rows[i].kind /\ r.seen = SeenAt(rows, A)
    BY <2>1, AbsorbedEarned
  <2>3. s[i] = r
    BY DEF A, Keeper
  <2> HIDE DEF r, s
  <2>4. QED
    BY <2>2, <2>3 DEF A
<1>3. s = [i \in DOMAIN rows |-> s[i]] /\ DOMAIN s = DOMAIN rows
  OBVIOUS
<1> HIDE DEF s
<1>4. s \in Seq(EarnedRows(k))
  BY <1>2, <1>3, MappedSeq
<1>5. \A i, j \in DOMAIN rows : rows[i].kind = rows[j].kind
  <2>1. \A i \in DOMAIN rows : rows[i] \in EarnedRows(k)
    OBVIOUS
  <2>2. QED
    BY <2>1 DEF EarnedRows
<1> DEFINE F == Firsts(rows, field)
           w == Within(s, F)
<1>6. w \in Seq(EarnedRows(k)) /\ Picked(s, F, w) /\ Known(rows) \subseteq Known(w)
  BY <1>2, <1>3, <1>4, <1>5, PickedFirsts
<1>7. F \subseteq DOMAIN rows
  BY DEF Firsts
<1>8. ASSUME field = "id" PROVE \A i, j \in F : s[i].id = s[j].id => i = j
  <2>1. \A i, j \in F : rows[i]["id"] = rows[j]["id"] => i = j
    BY <1>8, FirstsDiffer
  <2> HIDE DEF F
  <2>2. QED
    BY <1>2, <1>7, <2>1
<1>9. ASSUME Distinct(k, rows) PROVE \A i, j \in F : s[i].id = s[j].id => i = j
  <2> HIDE DEF F
  <2>1. QED
    BY <1>2, <1>7, <1>9 DEF Distinct
<1>10. k # "entity"
  BY FilesAre
<1>11. (\A i, j \in F : s[i].id = s[j].id => i = j) => Distinct(k, w)
  <2> HIDE DEF F, w
  <2>1. QED
    BY <1>6, <1>10, PickedDistinct
<1> HIDE DEF F, w
<1>12. (field = "id" \/ Distinct(k, rows)) => Distinct(k, w)
  BY <1>8, <1>9, <1>11
<1>13. QED
  BY <1>1, <1>6, <1>12 DEF F, w

\* Collapsing cards keeps what is known and leaves one card of each name.
LEMMA CollapsedCards ==
  ASSUME NEW rows \in Seq(ObservedCards)
  PROVE  /\ _collapse_entities(rows) \in Seq(ObservedCards)
         /\ Known(rows) \subseteq Known(_collapse_entities(rows))
         /\ Distinct("entity", _collapse_entities(rows))
<1> DEFINE A(i) == Alike(rows, "name", i)
           Latest(i) == CHOOSE j \in A(i) : \A q \in A(i) : q <= j
           s == [i \in DOMAIN rows |-> [rows[Latest(i)] EXCEPT !.seen = SeenAt(rows, A(i))]]
<1>1. _collapse_entities(rows) = Within(s, Firsts(rows, "name"))
  BY DEF _collapse_entities, SeenAt
<1>2. \A i \in DOMAIN rows : rows[i] \in ObservedCards /\ rows[i] \in CardRows /\ rows[i].trust = "repo-observed"
        /\ rows[i].kind = "entity" /\ rows[i].seen \in SeenSets
  <2>1. \A i \in DOMAIN rows : rows[i] \in ObservedCards
    OBVIOUS
  <2>2. QED
    BY <2>1 DEF ObservedCards, CardRows
<1>3. ASSUME NEW i \in DOMAIN rows
      PROVE  s[i] \in ObservedCards /\ s[i].name = rows[i].name /\ s[i].kind = rows[i].kind
               /\ s[i].seen = SeenAt(rows, A(i))
  <2> DEFINE a == Alike(rows, "name", i)
             m == CHOOSE j \in a : \A q \in a : q <= j
             tasks == SeenAt(rows, a)
             r == [rows[m] EXCEPT !.seen = tasks]
  <2>1. s[i] = r
    OBVIOUS
  <2>2. a \in SUBSET DOMAIN rows /\ i \in a /\ \A j \in a : rows[j].name = rows[i].name
    BY AlikeOf DEF Alike
  <2>3. \E j \in a : \A q \in a : q <= j
    <3>1. DOMAIN rows \subseteq 0..Len(rows) /\ Len(rows) \in Nat
      OBVIOUS
    <3>2. a \in SUBSET (0..Len(rows)) /\ a # {}
      BY <2>2, <3>1
    <3> HIDE DEF a
    <3>3. QED
      BY <3>1, <3>2, GreatestExists
  <2>4. m \in a
    <3> HIDE DEF a
    <3>1. QED
      BY <2>3
  <2>5. tasks \in SeenSets
    <3> HIDE DEF a
    <3>1. QED
      BY <1>2, <2>2, SeenAll
  <2> HIDE DEF a, m, tasks, s
  <2>6. rows[m] \in CardRows /\ rows[m].trust = "repo-observed" /\ rows[m].name = rows[i].name
          /\ rows[m].kind = "entity" /\ rows[i].kind = "entity"
    BY <1>2, <2>2, <2>4
  <2>7. r \in CardRows /\ r.trust = "repo-observed" /\ r.name = rows[m].name /\ r.kind = rows[m].kind /\ r.seen = tasks
    BY <2>5, <2>6 DEF CardRows
  <2> HIDE DEF r
  <2>8. QED
    BY <2>1, <2>6, <2>7 DEF ObservedCards, tasks, a
<1>4. s = [i \in DOMAIN rows |-> s[i]] /\ DOMAIN s = DOMAIN rows
  OBVIOUS
<1> HIDE DEF s
<1>5. s \in Seq(ObservedCards)
  BY <1>3, <1>4, MappedSeq
<1>6. \A i, j \in DOMAIN rows : rows[i].kind = rows[j].kind
  BY <1>2
<1> DEFINE F == Firsts(rows, "name")
           w == Within(s, F)
<1>7. w \in Seq(ObservedCards) /\ Picked(s, F, w) /\ Known(rows) \subseteq Known(w)
  BY <1>3, <1>4, <1>5, <1>6, PickedFirsts
<1>8. F \subseteq DOMAIN rows
  BY DEF Firsts
<1>9. \A i, j \in F : s[i].name = s[j].name => i = j
  <2>1. \A i, j \in F : rows[i]["name"] = rows[j]["name"] => i = j
    BY FirstsDiffer
  <2> HIDE DEF F
  <2>2. QED
    BY <1>3, <1>8, <2>1
<1>10. "entity" \notin KindSet
  BY FilesAre
<1>11. Distinct("entity", w)
  <2> HIDE DEF F, w
  <2>1. QED
    BY <1>7, <1>9, <1>10, PickedDistinct
<1> HIDE DEF F, w
<1>12. QED
  BY <1>1, <1>7, <1>11 DEF F, w
-----------------------------------------------------------------------------
(* The passes of a cleanup.                                                 *)

\* However far the budget and the clock let it come, a reconciliation parts its rows into those it
\* keeps and those it takes out, and forgets none.
LEMMA ReconcileOf ==
  ASSUME NEW R, NEW rows \in Seq(R), NEW found, \A i \in DOMAIN rows : Classified(found[i], rows[i], R),
         NEW budget, NEW cut
  PROVE  LET r == Reconcile(rows, found, budget, cut)
         IN  r.kept \in Seq(R) /\ r.gone \in Seq(HeldRows) /\ Known(rows) \subseteq Known(r.kept) \cup Known(r.gone)
<1> DEFINE Clock(b, i) == [b EXCEPT !.late = @ \/ (~b.full /\ i > cut)]
           Looks(b, i) == can_scan(Clock(b, i)) /\ can_edit(Clock(b, i)) /\ _record_active(rows[i])
           spent == CHOOSE spent : spent = [i \in 0..Len(rows) |->
             IF i = 0 THEN budget
             ELSE IF ~Looks(spent[i - 1], i) THEN Clock(spent[i - 1], i)
             ELSE [Clock(spent[i - 1], i) EXCEPT
                     !.scanned = @ + 1, !.edits = IF found[i].verdict = "fresh" THEN @ ELSE @ + 1]]
           looked == {i \in DOMAIN rows : Looks(spent[i - 1], i)}
           taken == {i \in looked : found[i].verdict = "quarantine"}
           now_ == [i \in DOMAIN rows |-> IF i \in looked THEN found[i].row ELSE rows[i]]
           r == Reconcile(rows, found, budget, cut)
           in == DOMAIN rows \ taken
           kept == Within(now_, in)
           gone == Within(now_, taken)
<1>1. r.kept = kept /\ r.gone = gone
  BY DEF Reconcile
<1>2. looked \subseteq DOMAIN rows
  OBVIOUS
<1> HIDE DEF looked, r
<1> DEFINE B == R \cup HeldRows
<1>3. ASSUME NEW i \in DOMAIN rows
      PROVE  /\ now_[i] \in B /\ now_[i].kind = rows[i].kind /\ now_[i].seen = rows[i].seen
             /\ i \in in => now_[i] \in R
             /\ i \in taken => now_[i] \in HeldRows
  <2>1. Classified(found[i], rows[i], R) /\ rows[i] \in R
    OBVIOUS
  <2>2. CASE i \in looked
    BY <2>1, <2>2 DEF Classified
  <2>3. CASE i \notin looked
    BY <2>1, <2>3
  <2>4. QED
    BY <2>2, <2>3
<1>4. now_ = [i \in DOMAIN rows |-> now_[i]] /\ taken \subseteq DOMAIN rows /\ in \subseteq DOMAIN rows
        /\ \A i \in DOMAIN rows : i \in in \/ i \in taken
  BY <1>2
<1> HIDE DEF now_, taken, in, B
<1>5. now_ \in Seq(B) /\ DOMAIN now_ = DOMAIN rows
  BY <1>3, <1>4, MappedSeq
<1>6. ASSUME NEW S \in SUBSET DOMAIN rows PROVE Within(now_, S) \in Seq(B) /\ Picked(now_, S, Within(now_, S))
  <2> DEFINE G == S \cap DOMAIN now_
             w == Within(now_, S)
  <2>1. w \in Seq(B) /\ Picked(now_, G, w)
    BY <1>5, WithinOf
  <2>2. G = S
    BY <1>5
  <2> HIDE DEF G, w
  <2>3. QED
    BY <2>1, <2>2 DEF w
<1>7. kept \in Seq(B) /\ Picked(now_, in, kept) /\ gone \in Seq(B) /\ Picked(now_, taken, gone)
  BY <1>4, <1>6
<1> HIDE DEF kept, gone
<1>8. kept \in Seq(R) /\ gone \in Seq(HeldRows)
  <2>1. \A n \in DOMAIN kept : kept[n] \in R
    BY <1>3, <1>4, <1>7 DEF Picked
  <2>2. \A n \in DOMAIN gone : gone[n] \in HeldRows
    BY <1>3, <1>4, <1>7 DEF Picked
  <2>3. QED
    BY <1>7, <2>1, <2>2, SeqIn
<1>9. ASSUME NEW x \in Known(rows) PROVE x \in Known(kept) \/ x \in Known(gone)
  <2>1. PICK i \in DOMAIN rows : x \in {<<rows[i].kind, t>> : t \in rows[i].seen}
    BY DEF Known
  <2>2. CASE i \in in
    <3>1. PICK n \in DOMAIN kept : kept[n] = now_[i]
      BY <1>7, <2>2 DEF Picked
    <3>2. x \in {<<kept[n].kind, t>> : t \in kept[n].seen}
      BY <1>3, <2>1, <3>1
    <3>3. QED
      BY <3>2 DEF Known
  <2>3. CASE i \in taken
    <3>1. PICK n \in DOMAIN gone : gone[n] = now_[i]
      BY <1>7, <2>3 DEF Picked
    <3>2. x \in {<<gone[n].kind, t>> : t \in gone[n].seen}
      BY <1>3, <2>1, <3>1
    <3>3. QED
      BY <3>2 DEF Known
  <2>4. QED
    BY <1>4, <2>2, <2>3
<1>10. r.kept \in Seq(R) /\ r.gone \in Seq(HeldRows) /\ Known(rows) \subseteq Known(r.kept) \cup Known(r.gone)
  BY <1>1, <1>8, <1>9
<1>11. QED
  BY <1>10 DEF r

\* The plan of a pass over a tier file: the file anew, then what is taken out of it, and all that
\* was known.
Cleans(plan, tier, rows) ==
  /\ plan \in Seq(Writes) /\ Len(plan) <= 2
  /\ \A n \in DOMAIN plan :
       /\ \/ n = 1 /\ plan[n].op = "replace" /\ plan[n].file = tier
          \/ n = 2 /\ plan[n].op = "extend" /\ plan[n].file = "quarantine"
       /\ plan[n].op = "replace" /\ Distinct(tier, rows) => Distinct(tier, plan[n].rows)
  /\ plan # <<>> /\ tier # "short" =>
       \A x \in Known(rows) : \E n \in DOMAIN plan : x \in Known(plan[n].rows)

\* A file may be left as it is.
LEMMA CleansNothing ==
  ASSUME NEW tier, NEW rows
  PROVE  Cleans(<<>>, tier, rows)
  BY DEF Cleans

\* A file anew, and rows of it in the quarantine.
LEMMA CleansFile ==
  ASSUME NEW tier \in TierFiles, NEW rows, NEW after \in Seq(RowsOf(tier)), NEW gone \in Seq(HeldRows),
         Distinct(tier, rows) => Distinct(tier, after),
         tier # "short" => \A x \in Known(rows) : x \in Known(after) \/ x \in Known(gone)
  PROVE  Cleans(<<_replace_rows(tier, after)>> \o Quarantined(gone), tier, rows)
<1> DEFINE w == _replace_rows(tier, after)
           v == ExtendQuarantine(gone)
<1>1. w \in Writes /\ w.op = "replace" /\ w.file = tier /\ w.rows = after
  <2>1. "replace" \in Puts \cup Restores
    BY DEF Puts
  <2>2. QED
    BY <2>1, WriteOf DEF _replace_rows
<1>2. v \in Writes /\ v.op = "extend" /\ v.file = "quarantine" /\ v.rows = gone
  <2>1. "extend" \in Puts \cup Restores /\ "quarantine" \in TierFiles /\ gone \in Seq(RowsOf("quarantine"))
    BY RowsAre DEF Puts, TierFiles
  <2>2. QED
    BY <2>1, WriteOf DEF ExtendQuarantine
<1> HIDE DEF w, v
<1>3. CASE gone = <<>>
  <2>1. Quarantined(gone) = <<>>
    BY <1>3 DEF Quarantined
  <2>2. <<w>> \o <<>> \in Seq(Writes) /\ Len(<<w>> \o <<>>) = 1 /\ DOMAIN (<<w>> \o <<>>) = {1} /\ (<<w>> \o <<>>)[1] = w
    BY <1>1
  <2>3. Known(gone) = {}
    BY <1>3 DEF Known
  <2> DEFINE p == <<w>> \o <<>>
  <2> HIDE DEF p
  <2>4. Cleans(p, tier, rows)
    BY <1>1, <2>2, <2>3 DEF Cleans, p
  <2>5. QED
    BY <2>1, <2>4 DEF p, w
<1>4. CASE gone # <<>>
  <2>1. Quarantined(gone) = <<v>>
    BY <1>4 DEF Quarantined, v
  <2> DEFINE p == <<w>> \o <<v>>
  <2>2. p \in Seq(Writes) /\ Len(p) = 2 /\ DOMAIN p = {1, 2} /\ p[1] = w /\ p[2] = v
    BY <1>1, <1>2
  <2> HIDE DEF p
  <2>4. Cleans(p, tier, rows)
    <3>1. tier # "short" => \A x \in Known(rows) : \E n \in DOMAIN p : x \in Known(p[n].rows)
      BY <1>1, <1>2, <2>2
    <3>2. \A n \in DOMAIN p :
            /\ \/ n = 1 /\ p[n].op = "replace" /\ p[n].file = tier
               \/ n = 2 /\ p[n].op = "extend" /\ p[n].file = "quarantine"
            /\ p[n].op = "replace" /\ Distinct(tier, rows) => Distinct(tier, p[n].rows)
      BY <1>1, <1>2, <2>2
    <3>3. QED
      BY <2>2, <3>1, <3>2 DEF Cleans
  <2>5. QED
    BY <2>1, <2>4 DEF p, w
<1>5. QED
  BY <1>3, <1>4

\* A file anew.
LEMMA CleansAlone ==
  ASSUME NEW tier \in TierFiles, NEW rows, NEW after \in Seq(RowsOf(tier)),
         Distinct(tier, rows) => Distinct(tier, after),
         tier # "short" => \A x \in Known(rows) : x \in Known(after)
  PROVE  Cleans(<<_replace_rows(tier, after)>>, tier, rows)
<1>1. <<>> \in Seq(HeldRows)
  OBVIOUS
<1>2. Cleans(<<_replace_rows(tier, after)>> \o Quarantined(<<>>), tier, rows)
  BY <1>1, CleansFile
<1>3. <<_replace_rows(tier, after)>> \o Quarantined(<<>>) = <<_replace_rows(tier, after)>>
  BY DEF Quarantined
<1>4. QED
  BY <1>2, <1>3

\* Each pass is such a plan.
LEMMA ExpireCleans ==
  ASSUME NEW rows \in Seq(EpisodeRows), NEW budget, NEW at
  PROVE  Cleans(_expire_episodes(rows, budget, at).plan, "short", rows)
<1> DEFINE expired == SetToSortSeq({r \in ToSet(rows) : _episode_expired(r, at)}, LAMBDA a, b : a.at < b.at)
           take == allow_edits(budget, Len(expired))
           drop == {expired[i].id : i \in 1..take}
           stay == {i \in DOMAIN rows : rows[i].id \notin drop}
           after == Within(rows, stay)
<1>1. _expire_episodes(rows, budget, at).plan = IF take = 0 THEN <<>> ELSE <<_replace_rows("short", after)>>
  BY DEF _expire_episodes
<1> HIDE DEF take, stay
<1>2. after \in Seq(RowsOf("short"))
  BY WithinOf, RowsAre
<1>3. "short" \in TierFiles /\ Distinct("short", after)
  BY FilesAre DEF Distinct
<1> HIDE DEF after
<1>4. Cleans(<<_replace_rows("short", after)>>, "short", rows)
  BY <1>2, <1>3, CleansAlone
<1>5. QED
  BY <1>1, <1>4, CleansNothing

\* The pass over the cards asks for writes that keep cards apart and keep what was known.
LEMMA EntitiesCleans ==
  ASSUME NEW rows \in Seq(ObservedCards), NEW files \in SUBSET Paths, NEW budget, NEW cut
  PROVE  Cleans(_reconcile_entities(rows, files, budget, cut).plan, "entity", rows)
<1> DEFINE found == [i \in DOMAIN rows |-> _classify_entity(rows[i], files)]
           r == Reconcile(rows, found, budget, cut)
           after == _collapse_entities(r.kept)
           anew == <<_replace_rows("entity", after)>> \o Quarantined(r.gone)
<1>1. _reconcile_entities(rows, files, budget, cut).plan = IF ~r.changed THEN <<>> ELSE anew
  BY DEF _reconcile_entities
<1>2. \A i \in DOMAIN rows : Classified(found[i], rows[i], ObservedCards)
  <2>1. \A i \in DOMAIN rows : rows[i] \in ObservedCards
    OBVIOUS
  <2>2. \A i \in DOMAIN rows : Classified(_classify_entity(rows[i], files), rows[i], ObservedCards)
    BY <2>1, ClassifiedCard
  <2>3. QED
    BY <2>2
<1> HIDE DEF found
<1>3. /\ r.kept \in Seq(ObservedCards) /\ r.gone \in Seq(HeldRows)
      /\ Known(rows) \subseteq Known(r.kept) \cup Known(r.gone)
  BY <1>2, ReconcileOf
<1> HIDE DEF r
<1>4. /\ after \in Seq(ObservedCards) /\ Known(r.kept) \subseteq Known(after) /\ Distinct("entity", after)
  BY <1>3, CollapsedCards
<1>5. "entity" \in TierFiles /\ RowsOf("entity") = ObservedCards
  BY FilesAre, RowsAre
<1> HIDE DEF after
<1>6. Cleans(anew, "entity", rows)
  <2>1. \A x \in Known(rows) : x \in Known(after) \/ x \in Known(r.gone)
    BY <1>3, <1>4
  <2>2. after \in Seq(RowsOf("entity"))
    BY <1>4, <1>5
  <2>3. QED
    BY <1>3, <1>4, <1>5, <2>1, <2>2, CleansFile
<1>7. QED
  BY <1>1, <1>6, CleansNothing

\* The pass over a kind of lessons asks for writes that keep ids apart and keep what was known.
LEMMA LessonsCleans ==
  ASSUME NEW k \in KindSet, NEW rows \in Seq(EarnedRows(k)), NEW files \in SUBSET Paths, NEW budget, NEW cut
  PROVE  Cleans(_reconcile_lessons(k, rows, files, budget, cut).plan, k, rows)
<1> DEFINE found == [i \in DOMAIN rows |-> _classify_lesson(rows[i], files)]
           r == Reconcile(rows, found, budget, cut)
           after == CollapseBy(r.kept, "id")
           anew == <<_replace_rows(k, after)>> \o Quarantined(r.gone)
<1>1. _reconcile_lessons(k, rows, files, budget, cut).plan = IF ~r.changed THEN <<>> ELSE anew
  BY DEF _reconcile_lessons, _collapse_by_memory_id
<1>2. \A i \in DOMAIN rows : Classified(found[i], rows[i], EarnedRows(k))
  <2>1. \A i \in DOMAIN rows : rows[i] \in EarnedRows(k)
    OBVIOUS
  <2>2. \A i \in DOMAIN rows : Classified(_classify_lesson(rows[i], files), rows[i], EarnedRows(k))
    BY <2>1, ClassifiedLesson
  <2>3. QED
    BY <2>2
<1> HIDE DEF found
<1>3. /\ r.kept \in Seq(EarnedRows(k)) /\ r.gone \in Seq(HeldRows)
      /\ Known(rows) \subseteq Known(r.kept) \cup Known(r.gone)
  BY <1>2, ReconcileOf
<1> HIDE DEF r
<1>4. /\ after \in Seq(EarnedRows(k)) /\ Known(r.kept) \subseteq Known(after) /\ Distinct(k, after)
  BY <1>3, CollapsedLessons
<1>5. k \in TierFiles /\ RowsOf(k) = EarnedRows(k)
  BY RowsAre DEF TierFiles
<1> HIDE DEF after
<1>6. Cleans(anew, k, rows)
  <2>1. \A x \in Known(rows) : x \in Known(after) \/ x \in Known(r.gone)
    BY <1>3, <1>4
  <2>2. after \in Seq(RowsOf(k))
    BY <1>4, <1>5
  <2>3. QED
    BY <1>3, <1>4, <1>5, <2>1, <2>2, CleansFile
<1>7. QED
  BY <1>1, <1>6, CleansNothing

\* Merging lessons of one subject keeps ids apart and keeps what was known.
LEMMA DuplicatesCleans ==
  ASSUME NEW k \in KindSet, NEW rows \in Seq(EarnedRows(k)), NEW budget
  PROVE  Cleans(_merge_long_term_duplicates(k, rows, budget).plan, k, rows)
<1> DEFINE after == CollapseBy(rows, "subject")
           plan == _merge_long_term_duplicates(k, rows, budget).plan
<1>1. plan = <<>> \/ plan = <<_replace_rows(k, after)>>
  BY DEF _merge_long_term_duplicates, _collapse_duplicates
<1>2. /\ after \in Seq(EarnedRows(k)) /\ Known(rows) \subseteq Known(after)
      /\ Distinct(k, rows) => Distinct(k, after)
  BY CollapsedLessons
<1>3. k \in TierFiles /\ RowsOf(k) = EarnedRows(k)
  BY RowsAre DEF TierFiles
<1> HIDE DEF after, plan
<1>4. Cleans(<<_replace_rows(k, after)>>, k, rows)
  <2>1. after \in Seq(RowsOf(k))
    BY <1>2, <1>3
  <2>2. QED
    BY <1>2, <1>3, <2>1, CleansAlone
<1>5. QED
  BY <1>1, <1>4, CleansNothing DEF plan

\* What a set of files knows is what one of them knows, but for the episodes.
LEMMA ProvenanceOf ==
  ASSUME NEW files, NEW x
  PROVE  x \in Provenance(files) <=> \E f \in DOMAIN files \ {"short"} : x \in Known(files[f])
<1>1. ASSUME NEW f \in DOMAIN files \ {"short"}, x \in Known(files[f]) PROVE x \in Provenance(files)
  <2>1. PICK i \in DOMAIN files[f] : x \in {<<files[f][i].kind, t>> : t \in files[f][i].seen}
    BY <1>1 DEF Known
  <2> DEFINE r == files[f][i]
             all == UNION {ToSet(files[g]) : g \in DOMAIN files \ {"short"}}
  <2>2. r \in all
    BY DEF ToSet
  <2> HIDE DEF r, all
  <2>3. x \in {<<r.kind, t>> : t \in r.seen}
    BY <2>1 DEF r
  <2>4. QED
    BY <2>2, <2>3 DEF Provenance, all
<1>2. ASSUME x \in Provenance(files) PROVE \E f \in DOMAIN files \ {"short"} : x \in Known(files[f])
  <2> DEFINE all == UNION {ToSet(files[g]) : g \in DOMAIN files \ {"short"}}
  <2>1. PICK r \in all : x \in {<<r.kind, t>> : t \in r.seen}
    BY <1>2 DEF Provenance
  <2>2. PICK f \in DOMAIN files \ {"short"} : r \in ToSet(files[f])
    OBVIOUS
  <2>3. PICK i \in DOMAIN files[f] : r = files[f][i]
    BY <2>2 DEF ToSet
  <2> HIDE DEF all
  <2>4. x \in Known(files[f])
    BY <2>1, <2>3 DEF Known
  <2>5. QED
    BY <2>4
<1>3. QED
  BY <1>1, <1>2
-----------------------------------------------------------------------------
(* A restore and a clear.                                                   *)

\* The files are finitely many.
LEMMA FilesFinite ==
  ASSUME NEW S \in SUBSET TierFiles
  PROVE  IsFiniteSet(S)
<1>1. IsFiniteSet({}) /\ \A A, x : IsFiniteSet(A) => IsFiniteSet(A \cup {x})
  BY FS_EmptySet, FS_AddElement
<1>2. TierFiles = {} \cup {"short"} \cup {"entity"} \cup {"quarantine"} \cup {"semantic"} \cup {"procedural"}
                     \cup {"reviewer"} \cup {"failure"}
  BY FilesAre
<1>3. IsFiniteSet(TierFiles)
  BY <1>1, <1>2, Zenon
<1>4. QED
  BY <1>3, FS_Subset

\* The sequence of a finite set holds all of it.
LEMMA SetToSeqOf ==
  ASSUME NEW S, IsFiniteSet(S)
  PROVE  SetToSeq(S) \in Seq(S) /\ \A x \in S : \E n \in DOMAIN SetToSeq(S) : SetToSeq(S)[n] = x
<1> DEFINE c == Cardinality(S)
           F == [1..c -> S]
           f == CHOOSE g \in F : IsInjective(g)
<1>1. SetToSeq(S) = f
  BY DEF SetToSeq
<1>2. c \in Nat /\ ExistsBijection(1..c, S)
  BY FS_CardinalityType
<1>3. IsFiniteSet(1..c) /\ Cardinality(1..c) = c
  <2> HIDE DEF c
  <2>1. 1 \in Int /\ c \in Int
    BY <1>2
  <2>2. IsFiniteSet(1..c) /\ Cardinality(1..c) = IF 1 > c THEN 0 ELSE c - 1 + 1
    BY <2>1, FS_Interval
  <2>3. QED
    BY <1>2, <2>2
<1> HIDE DEF c
<1>4. \E g \in F : IsInjective(g)
  BY <1>2 DEF ExistsBijection, Bijection, Injection, IsInjective
<1> HIDE DEF F
<1>5. f \in F /\ IsInjective(f)
  BY <1>4
<1> HIDE DEF f
<1>6. f \in Injection(1..c, S)
  BY <1>5 DEF F, Injection, IsInjective
<1>7. f \in Surjection(1..c, S)
  BY <1>3, <1>6, FS_Injection DEF c
<1>8. f \in Seq(S)
  BY <1>2, <1>5 DEF F
<1>9. \A x \in S : \E n \in 1..c : f[n] = x
  BY <1>7 DEF Surjection
<1>10. DOMAIN f = 1..c
  BY <1>5 DEF F
<1>11. QED
  BY <1>1, <1>8, <1>9, <1>10

\* What is in s is in a or in b, and what is in these is in s.
Joined(s, a, b) ==
  /\ \A n \in DOMAIN s : (\E m \in DOMAIN a : s[n] = a[m]) \/ (\E m \in DOMAIN b : s[n] = b[m])
  /\ \A m \in DOMAIN a : \E n \in DOMAIN s : s[n] = a[m]
  /\ \A m \in DOMAIN b : \E n \in DOMAIN s : s[n] = b[m]

\* One sequence after another.
LEMMA JoinOf ==
  ASSUME NEW V, NEW a \in Seq(V), NEW b \in Seq(V)
  PROVE  a \o b \in Seq(V) /\ Joined(a \o b, a, b)
<1> DEFINE s == a \o b
           l == Len(a)
           k == Len(b)
<1>1. /\ l \in Nat /\ k \in Nat /\ DOMAIN a = 1..l /\ DOMAIN b = 1..k /\ DOMAIN s = 1..(l + k) /\ s \in Seq(V)
      /\ \A n \in 1..l : s[n] = a[n]
      /\ \A n \in 1..k : s[l + n] = b[n]
  OBVIOUS
<1> HIDE DEF s, l, k
<1>2. ASSUME NEW n \in 1..(l + k) PROVE (\E m \in 1..l : s[n] = a[m]) \/ (\E m \in 1..k : s[n] = b[m])
  <2>1. CASE n <= l
    <3>1. n \in 1..l
      BY <1>1, <2>1
    <3>2. QED
      BY <1>1, <3>1
  <2>2. CASE ~(n <= l)
    <3>1. n - l \in 1..k /\ l + (n - l) = n
      BY <1>1, <2>2
    <3>2. QED
      BY <1>1, <3>1
  <2>3. QED
    BY <2>1, <2>2
<1>3. ASSUME NEW m \in 1..l PROVE \E n \in 1..(l + k) : s[n] = a[m]
  <2>1. m \in 1..(l + k)
    BY <1>1
  <2>2. QED
    BY <1>1, <2>1
<1>4. ASSUME NEW m \in 1..k PROVE \E n \in 1..(l + k) : s[n] = b[m]
  <2>1. l + m \in 1..(l + k)
    BY <1>1
  <2>2. QED
    BY <1>1, <2>1
<1>5. Joined(s, a, b)
  BY <1>1, <1>2, <1>3, <1>4 DEF Joined
<1>6. QED
  BY <1>1, <1>5 DEF s

\* What is left to write before a restore leaves a file as the copy has it.
Undoes(w, files) ==
  /\ w \in Writes
  /\ \/ w.op = "unlink" /\ w.file \notin DOMAIN files
     \/ w.op = "overwrite" /\ w.file \in DOMAIN files /\ w.rows = files[w.file]

\* The plan of a restore puts back every captured file and drops every other.
LEMMA RestorePlan ==
  ASSUME NEW label, NEW files, files = snapshots[label], present \subseteq TierFiles, DOMAIN files \subseteq TierFiles,
         \A f \in DOMAIN files : files[f] \in Seq(RowsOf(f))
  PROVE  /\ restore(label) \in Seq(Writes) /\ restore(label) # <<>>
         /\ restore(label)[Len(restore(label))].op = "rollback" /\ restore(label)[Len(restore(label))].file = "short"
         /\ \A n \in DOMAIN restore(label) : n # Len(restore(label)) => Undoes(restore(label)[n], files)
         /\ \A f \in present \cup DOMAIN files : \E n \in DOMAIN restore(label) :
              n # Len(restore(label)) /\ restore(label)[n].file = f
<1> DEFINE A == present \ DOMAIN files
           sa == SetToSeq(A)
           sb == SetToSeq(DOMAIN files)
           a == [i \in DOMAIN sa |-> [op |-> "unlink", file |-> sa[i], rows |-> <<>>]]
           b == [i \in DOMAIN sb |-> [op |-> "overwrite", file |-> sb[i], rows |-> files[sb[i]]]]
           last == [op |-> "rollback", file |-> "short", rows |-> <<>>]
           U == {w \in Writes : Undoes(w, files)}
<1>1. restore(label) = a \o b \o <<last>>
  <2> DEFINE Item(op, f) == [op |-> op, file |-> f, rows |-> IF op = "unlink" THEN <<>> ELSE files[f]]
             a1 == [i \in DOMAIN sa |-> Item("unlink", sa[i])]
             b1 == [i \in DOMAIN sb |-> Item("overwrite", sb[i])]
  <2>1. restore(label) = a1 \o b1 \o <<last>>
    BY DEF restore, Mapped
  <2>2. a1 = a /\ b1 = b
    BY Zenon
  <2> HIDE DEF a, b, a1, b1, last
  <2>3. QED
    BY <2>1, <2>2
<1>2. IsFiniteSet(A) /\ IsFiniteSet(DOMAIN files)
  BY FilesFinite
<1>3. sa \in Seq(A) /\ sb \in Seq(DOMAIN files) /\ (\A f \in A : \E n \in DOMAIN sa : sa[n] = f)
        /\ \A f \in DOMAIN files : \E n \in DOMAIN sb : sb[n] = f
  <2> HIDE DEF A
  <2>1. QED
    BY <1>2, SetToSeqOf
<1> HIDE DEF sa, sb
<1>4. \A f \in TierFiles : <<>> \in Seq(RowsOf(f))
  OBVIOUS
<1>5. \A f \in A : [op |-> "unlink", file |-> f, rows |-> <<>>] \in U
  <2>1. ASSUME NEW f \in A PROVE [op |-> "unlink", file |-> f, rows |-> <<>>] \in U
    <3> DEFINE w == [op |-> "unlink", file |-> f, rows |-> <<>>]
    <3>1. f \in TierFiles /\ f \notin DOMAIN files /\ "unlink" \in Puts \cup Restores
      BY DEF Restores
    <3>2. w \in Writes
      BY <1>4, <3>1, WriteOf
    <3>3. w.op = "unlink" /\ w.file = f
      OBVIOUS
    <3> HIDE DEF w
    <3>4. w \in U
      BY <3>1, <3>2, <3>3 DEF Undoes
    <3>5. QED
      BY <3>4 DEF w
  <2>2. QED
    BY <2>1
<1>6. \A f \in DOMAIN files : [op |-> "overwrite", file |-> f, rows |-> files[f]] \in U
  <2>1. ASSUME NEW f \in DOMAIN files PROVE [op |-> "overwrite", file |-> f, rows |-> files[f]] \in U
    <3> DEFINE w == [op |-> "overwrite", file |-> f, rows |-> files[f]]
    <3>1. f \in TierFiles /\ files[f] \in Seq(RowsOf(f)) /\ "overwrite" \in Puts \cup Restores
      BY DEF Restores
    <3>2. w \in Writes
      BY <3>1, WriteOf
    <3>3. w.op = "overwrite" /\ w.file = f /\ w.rows = files[f]
      OBVIOUS
    <3> HIDE DEF w
    <3>4. w \in U
      BY <3>1, <3>2, <3>3 DEF Undoes
    <3>5. QED
      BY <3>4 DEF w
  <2>2. QED
    BY <2>1
<1>7. last \in Writes
  <2>1. "short" \in TierFiles /\ "rollback" \in Puts \cup Restores
    BY FilesAre DEF Restores
  <2>2. QED
    BY <1>4, <2>1, WriteOf
<1>8. a \in Seq(U) /\ DOMAIN a = DOMAIN sa /\ \A i \in DOMAIN sa : a[i].file = sa[i]
  <2>1. \A i \in DOMAIN sa : sa[i] \in A
    BY <1>3
  <2>2. \A i \in DOMAIN sa : a[i] \in U /\ a[i].file = sa[i]
    <3> HIDE DEF U, A
    <3>1. QED
      BY <1>5, <2>1
  <2>3. a = [i \in DOMAIN sa |-> a[i]]
    OBVIOUS
  <2> HIDE DEF a, U
  <2>4. QED
    BY <1>3, <2>2, <2>3, MappedSeq
<1>9. b \in Seq(U) /\ DOMAIN b = DOMAIN sb /\ \A i \in DOMAIN sb : b[i].file = sb[i]
  <2>1. \A i \in DOMAIN sb : sb[i] \in DOMAIN files
    BY <1>3
  <2>2. \A i \in DOMAIN sb : b[i] \in U /\ b[i].file = sb[i]
    <3> HIDE DEF U
    <3>1. QED
      BY <1>6, <2>1
  <2>3. b = [i \in DOMAIN sb |-> b[i]]
    OBVIOUS
  <2> HIDE DEF b, U
  <2>4. QED
    BY <1>3, <2>2, <2>3, MappedSeq
<1> HIDE DEF a, b
<1> DEFINE ab == a \o b
           p == ab \o <<last>>
<1>10. ab \in Seq(U) /\ Joined(ab, a, b)
  <2> HIDE DEF U
  <2>1. QED
    BY <1>8, <1>9, JoinOf
<1>11. U \subseteq Writes
  OBVIOUS
<1> HIDE DEF ab, U, last
<1>12. ab \in Seq(Writes)
  BY <1>10, <1>11, SeqWider
<1>13. /\ p \in Seq(Writes) /\ Len(p) = Len(ab) + 1 /\ p[Len(p)] = last /\ p # <<>>
       /\ \A n \in DOMAIN ab : n \in DOMAIN p /\ n # Len(p) /\ p[n] = ab[n]
       /\ \A n \in DOMAIN p : n # Len(p) => n \in DOMAIN ab
  BY <1>7, <1>12
<1>14. \A n \in DOMAIN ab : ab[n] \in U
  BY <1>10
<1> HIDE DEF p
<1>15. \A n \in DOMAIN p : n # Len(p) => Undoes(p[n], files)
  BY <1>13, <1>14 DEF U
<1>16. ASSUME NEW f \in present \cup DOMAIN files PROVE \E n \in DOMAIN p : n # Len(p) /\ p[n].file = f
  <2>1. CASE f \in DOMAIN files
    <3>1. PICK m \in DOMAIN b : b[m].file = f
      BY <1>3, <1>9, <2>1
    <3>2. PICK n \in DOMAIN ab : ab[n] = b[m]
      BY <1>10 DEF Joined
    <3>3. QED
      BY <1>13, <3>1, <3>2
  <2>2. CASE f \notin DOMAIN files
    <3>1. f \in A
      BY <2>2
    <3>2. PICK m \in DOMAIN a : a[m].file = f
      BY <1>3, <1>8, <3>1
    <3>3. PICK n \in DOMAIN ab : ab[n] = a[m]
      BY <1>10 DEF Joined
    <3>4. QED
      BY <1>13, <3>2, <3>3
  <2>3. QED
    BY <2>1, <2>2
<1>17. last.op = "rollback" /\ last.file = "short"
  BY DEF last
<1>18. restore(label) = p
  BY <1>1 DEF p, ab
<1>19. QED
  BY <1>13, <1>15, <1>16, <1>17, <1>18

\* The plan of a clear empties files, and does nothing else.
LEMMA ClearPlan ==
  ASSUME NEW S \in SUBSET TierFiles
  PROVE  LET plan == Mapped(SetToSeq(S), LAMBDA f : _replace_rows(f, <<>>))
         IN  plan \in Seq(Writes) /\ \A n \in DOMAIN plan : plan[n].op = "replace" /\ plan[n].rows = <<>>
<1> DEFINE s == SetToSeq(S)
           plan == [i \in DOMAIN s |-> _replace_rows(s[i], <<>>)]
<1>1. Mapped(s, LAMBDA f : _replace_rows(f, <<>>)) = plan
  BY DEF Mapped
<1>2. s \in Seq(S)
  BY FilesFinite, SetToSeqOf
<1> HIDE DEF s
<1>3. ASSUME NEW i \in DOMAIN s
      PROVE  plan[i] \in Writes /\ plan[i].op = "replace" /\ plan[i].rows = <<>>
  <2>1. s[i] \in TierFiles /\ "replace" \in Puts \cup Restores /\ <<>> \in Seq(RowsOf(s[i]))
    BY <1>2 DEF Puts
  <2> DEFINE w == _replace_rows(s[i], <<>>)
  <2>2. w \in Writes /\ w.op = "replace" /\ w.rows = <<>>
    BY <2>1, WriteOf DEF _replace_rows
  <2>3. plan[i] = w
    OBVIOUS
  <2> HIDE DEF w, plan
  <2>4. QED
    BY <2>2, <2>3
<1>4. plan = [i \in DOMAIN s |-> plan[i]]
  OBVIOUS
<1> HIDE DEF plan
<1>5. plan \in Seq(Writes) /\ DOMAIN plan = DOMAIN s
  BY <1>2, <1>3, <1>4, MappedSeq
<1>6. QED
  BY <1>1, <1>3, <1>5 DEF s

\* The last of some labels is one of them.
LEMMA LastOf ==
  ASSUME NEW labels \in SUBSET Labels, labels # {}
  PROVE  LastLabel(labels) \in labels
<1>1. \A l \in labels : l[1] \in {"cleanup", "clear"} /\ l[2] \in 0..MaxTime /\ MaxTime \in Nat
  BY StoreAssumption DEF Labels
<1>2. ASSUME NEW T \in SUBSET labels, T # {}
      PROVE  \E l \in T : \A m \in T : l[2] >= m[2]
  <2> DEFINE N == {l[2] : l \in T}
  <2>1. N \in SUBSET (0..MaxTime) /\ N # {} /\ MaxTime \in Nat
    BY <1>1, <1>2
  <2> HIDE DEF N
  <2>2. PICK n \in N : \A q \in N : q <= n
    BY <2>1, GreatestExists
  <2>3. PICK l \in T : l[2] = n
    BY DEF N
  <2>4. \A m \in T : m[2] \in N
    BY DEF N
  <2>5. \A m \in T : l[2] >= m[2]
    BY <2>1, <2>2, <2>3, <2>4
  <2>6. QED
    BY <2>5
<1> DEFINE C == {l \in labels : l[1] = "clear"}
<1>3. \E l \in labels : \A m \in labels : (l[1] = m[1] /\ l[2] >= m[2]) \/ (l[1] = "clear" /\ m[1] = "cleanup")
  <2>1. CASE C = {}
    <3>1. \A l \in labels : l[1] = "cleanup"
      BY <1>1, <2>1
    <3>2. PICK l \in labels : \A m \in labels : l[2] >= m[2]
      BY <1>2
    <3>3. QED
      BY <3>1, <3>2
  <2>2. CASE C # {}
    <3>1. PICK l \in C : \A m \in C : l[2] >= m[2]
      BY <1>2, <2>2
    <3>2. \A m \in labels : m \in C \/ m[1] = "cleanup"
      BY <1>1
    <3>3. l[1] = "clear" /\ l \in labels /\ \A m \in C : m[1] = "clear"
      OBVIOUS
    <3> HIDE DEF C
    <3>4. QED
      BY <3>1, <3>2, <3>3
  <2>3. QED
    BY <2>1, <2>2
<1>4. QED
  BY <1>3 DEF LastLabel
-----------------------------------------------------------------------------
(* Steps: what a process takes in hand, with the files as they are.         *)

\* What p does next, and nothing else of what processes do.
LEMMA SetOf ==
  ASSUME DOMAIN proc = Sides, NEW p \in Sides, NEW r, Set(p, r)
  PROVE  /\ DOMAIN proc' = Sides /\ proc'[p] = r
         /\ \A q \in Sides : q # p => proc'[q] = proc[q]
  BY DEF Set

\* Nothing is in hand.
LEMMA IdleOf ==
  /\ DOMAIN Idle = Fields /\ Idle.op = "idle" /\ Idle.plan = <<>> /\ Idle.copies = <<>>
  /\ \A p \in Sides : SideInv(p, Idle)
<1>1. DOMAIN Idle = Fields /\ Idle.op = "idle" /\ Idle.plan = <<>> /\ Idle.copies = <<>>
  BY DEF Idle, Fields
<1>2. <<>> \in Seq(Writes) /\ <<>> \in Seq(TierFiles) /\ DOMAIN <<>> = {}
  OBVIOUS
<1>3. \A p \in Sides : SideInv(p, Idle)
  BY <1>1, <1>2 DEF SideInv, Busy
<1>4. QED
  BY <1>1, <1>3

\* A process that does not work has nothing to break.
LEMMA RestAlone ==
  ASSUME NEW p, NEW d, SideInv(p, d), ~Busy(d)
  PROVE  AloneInv(d)
<1>1. d.plan = <<>> /\ d.op # "restore" /\ d.op # "cleanup" /\ DOMAIN <<>> = {}
  BY DEF SideInv, Busy
<1>2. QED
  BY <1>1 DEF AloneInv, RestoreInv, FoundInv

\* The files as they were are as they should be.
LEMMA FilesStay ==
  ASSUME UNCHANGED <<tiers, present, audited, snapshots>>
  PROVE  (FilesInv => FilesInv') /\ (DistinctInv => DistinctInv')
<1>1. tiers' = tiers /\ present' = present /\ audited' = audited /\ snapshots' = snapshots
  OBVIOUS
<1>2. FilesInv => FilesInv'
  BY <1>1 DEF FilesInv
<1>3. DistinctInv => DistinctInv'
  BY <1>1 DEF DistinctInv
<1>4. QED
  BY <1>2, <1>3

\* Time, the repository and the task change nothing of the store.
LEMMA WorldStep ==
  ASSUME MemoryInv, WorldInv', UNCHANGED <<tiers, present, audited, snapshots, proc, overlap, stopped>>
  PROVE  MemoryInv'
<1>1. FilesInv' /\ (DistinctInv => DistinctInv')
  BY FilesStay DEF MemoryInv
<1>2. DOMAIN proc' = Sides /\ \A p \in Sides : SideInv(p, proc[p])'
  <2>1. proc' = proc
    OBVIOUS
  <2>2. QED
    BY <2>1 DEF MemoryInv, SideInv, Busy
<1>3. ASSUME ~overlap'
      PROVE  DistinctInv' /\ ~(Busy(proc["daemon"])' /\ Busy(proc["operator"])') /\ \A p \in Sides : AloneInv(proc[p])'
  <2>1. ~overlap /\ proc' = proc
    BY <1>3
  <2>2. DistinctInv /\ ~(Busy(proc["daemon"]) /\ Busy(proc["operator"])) /\ \A p \in Sides : AloneInv(proc[p])
    BY <2>1 DEF MemoryInv
  <2>3. ASSUME NEW p \in Sides PROVE AloneInv(proc[p])'
    <3>1. AloneInv(proc[p])
      BY <2>2
    <3>2. tiers' = tiers /\ present' = present /\ snapshots' = snapshots
      OBVIOUS
    <3>3. QED
      BY <2>1, <3>1, <3>2 DEF AloneInv, RestoreInv, FoundInv, Restored, Written
  <2>4. ~(Busy(proc["daemon"])' /\ Busy(proc["operator"])')
    BY <2>1, <2>2 DEF Busy
  <2>5. QED
    BY <1>1, <2>2, <2>3, <2>4
<1>4. TrailInv'
  BY DEF MemoryInv, TrailInv
<1>5. QED
  BY <1>1, <1>2, <1>3, <1>4 DEF MemoryInv

\* A step of one process that leaves the files alone: enough that what it has in hand is right, that
\* nobody else works if nobody is to, and that it does not leave a restore half way.
LEMMA HandStep ==
  ASSUME MemoryInv, WorldInv', UNCHANGED <<tiers, present, audited, snapshots>>,
         NEW p \in Sides, NEW r, Set(p, r), SideInv(p, r), overlap => overlap', stopped => stopped',
         ~overlap' => ~(Busy(r) /\ \E q \in Sides \ {p} : Busy(proc[q])),
         ~overlap' => AloneInv(r),
         ~overlap' /\ ~stopped' /\ p = "operator" =>
           (proc[p].op = "restore" /\ proc[p].plan # <<>> => r.op = "restore" /\ r.plan # <<>>)
  PROVE  MemoryInv'
<1>1. FilesInv' /\ (DistinctInv => DistinctInv')
  BY FilesStay DEF MemoryInv
<1>2. /\ DOMAIN proc' = Sides /\ proc'[p] = r
      /\ \A q \in Sides : q # p => proc'[q] = proc[q]
  BY SetOf DEF MemoryInv
<1>3. \A q \in Sides : SideInv(q, proc'[q])
  BY <1>2 DEF MemoryInv
<1>4. ASSUME ~overlap'
      PROVE  DistinctInv' /\ ~(Busy(proc'["daemon"]) /\ Busy(proc'["operator"])) /\ \A q \in Sides : AloneInv(proc[q])'
  <2>1. ~overlap /\ DistinctInv /\ ~(Busy(proc["daemon"]) /\ Busy(proc["operator"])) /\ \A q \in Sides : AloneInv(proc[q])
    BY <1>4 DEF MemoryInv
  <2>2. AloneInv(r) /\ ~(Busy(r) /\ \E q \in Sides \ {p} : Busy(proc[q]))
    BY <1>4
  <2>3. ASSUME NEW q \in Sides PROVE AloneInv(proc[q])'
    <3> DEFINE d == proc'[q]
    <3>1. AloneInv(d)
      BY <1>2, <2>1, <2>2
    <3>2. tiers' = tiers /\ present' = present /\ snapshots' = snapshots
      OBVIOUS
    <3>3. QED
      BY <3>1, <3>2 DEF AloneInv, RestoreInv, FoundInv, Restored, Written
  <2>4. ~(Busy(proc'["daemon"]) /\ Busy(proc'["operator"]))
    BY <1>2, <2>1, <2>2 DEF Sides
  <2>5. QED
    BY <1>1, <2>1, <2>3, <2>4
<1>5. TrailInv'
  <2>1. ASSUME ~overlap', ~stopped', audited' # tiers'
        PROVE  proc'["operator"].op = "restore" /\ proc'["operator"].plan # <<>>
    <3>1. ~overlap /\ ~stopped /\ audited # tiers
      BY <2>1
    <3>2. proc["operator"].op = "restore" /\ proc["operator"].plan # <<>>
      BY <3>1 DEF MemoryInv, TrailInv
    <3>3. CASE p = "operator"
      BY <1>2, <2>1, <3>2, <3>3
    <3>4. CASE p # "operator"
      BY <1>2, <3>2, <3>4 DEF Sides
    <3>5. QED
      BY <3>3, <3>4
  <2>2. QED
    BY <2>1 DEF TrailInv
<1>6. \A q \in Sides : SideInv(q, proc[q])'
  BY <1>3 DEF SideInv, Busy
<1>7. ~overlap' => ~(Busy(proc["daemon"])' /\ Busy(proc["operator"])')
  BY <1>4 DEF Busy
<1>8. QED
  BY <1>1, <1>2, <1>4, <1>5, <1>6, <1>7 DEF MemoryInv
-----------------------------------------------------------------------------
(* Each step.                                                               *)

\* What holds of one process.
LEMMA OneOf ==
  ASSUME MemoryInv, NEW p \in Sides
  PROVE  /\ SideInv(p, proc[p]) /\ WorldInv /\ FilesInv /\ DOMAIN proc = Sides
         /\ ~overlap => /\ DistinctInv /\ AloneInv(proc[p])
                        /\ Busy(proc[p]) => \A q \in Sides \ {p} : ~Busy(proc[q])
  BY DEF MemoryInv, Sides

\* What is spent leaves a number, and nobody beside anybody.
LEMMA SpendOf ==
  ASSUME WorldInv, NEW what \in {"finals", "cleanups", "commands", "stops"}, Spend(what)
  PROVE  /\ left' \in [{"finals", "cleanups", "commands", "stops"} -> Int] /\ ~overlap
         /\ left'[what] # left[what]
<1>1. /\ left \in [{"finals", "cleanups", "commands", "stops"} -> Int] /\ ~overlap
      /\ left' = [left EXCEPT ![what] = left[what] - 1]
  BY DEF WorldInv, Spend
<1>2. QED
  BY <1>1

\* A task starts or ends, time passes, files move.
LEMMA StepWorld ==
  ASSUME MemoryInv, (\E t \in Tasks : TaskStarts(t)) \/ TaskEnds \/ Tick \/ Move
  PROVE  MemoryInv'
<1>1. WorldInv
  BY DEF MemoryInv
<1>2. MaxTime \in Nat /\ None \notin Tasks /\ Len(Trees) \in Nat
  BY StoreAssumption
<1>3. CASE \E t \in Tasks : TaskStarts(t)
  <2>1. PICK t \in Tasks : TaskStarts(t)
    BY <1>3
  <2>2. WorldInv' /\ UNCHANGED <<tiers, present, audited, snapshots, proc, overlap, stopped>>
    BY <1>1, <2>1 DEF TaskStarts, WorldInv, disk, history
  <2>3. QED
    BY <2>2, WorldStep
<1>4. CASE TaskEnds
  <2>1. WorldInv' /\ UNCHANGED <<tiers, present, audited, snapshots, proc, overlap, stopped>>
    BY <1>1, <1>4 DEF TaskEnds, WorldInv, disk, history
  <2>2. QED
    BY <2>1, WorldStep
<1>5. CASE Tick
  <2>1. WorldInv' /\ UNCHANGED <<tiers, present, audited, snapshots, proc, overlap, stopped>>
    BY <1>1, <1>2, <1>5 DEF Tick, WorldInv, disk, history
  <2>2. QED
    BY <2>1, WorldStep
<1>6. CASE Move
  <2>1. WorldInv' /\ UNCHANGED <<tiers, present, audited, snapshots, proc, overlap, stopped>>
    BY <1>1, <1>2, <1>6 DEF Move, WorldInv, disk, history
  <2>2. QED
    BY <2>1, WorldStep
<1>7. QED
  BY <1>3, <1>4, <1>5, <1>6

\* A process ends what it does, dies, or an operator says no.
LEMMA StepIdle ==
  ASSUME MemoryInv, NEW p \in Sides, Finish(p) \/ Die(p) \/ (p = "operator" /\ Declined)
  PROVE  MemoryInv'
<1>1. Set(p, Idle) /\ UNCHANGED <<tiers, present, audited, snapshots>> /\ overlap' = overlap
        /\ (stopped => stopped')
  BY DEF Finish, Die, Declined, disk, history, world, Spend
<1>2. WorldInv'
  <2>1. WorldInv
    BY DEF MemoryInv
  <2>2. store' = store /\ now' = now /\ era' = era /\ active' = active /\ overlap' = overlap /\ reused' = reused
    BY <2>1 DEF Finish, Die, Declined, disk, history, world
  <2>3. stopped' \in BOOLEAN /\ left' \in [{"finals", "cleanups", "commands", "stops"} -> Int]
    <3>1. CASE Die(p)
      BY <2>1, <3>1, SpendOf DEF Die
    <3>2. CASE Finish(p) \/ Declined
      BY <2>1, <3>2 DEF Finish, Declined, history, WorldInv
    <3>3. QED
      BY <3>1, <3>2
  <2>4. QED
    BY <2>1, <2>2, <2>3 DEF WorldInv
<1>3. SideInv(p, Idle) /\ ~Busy(Idle) /\ AloneInv(Idle)
  BY IdleOf, RestAlone DEF Busy
<1>4. ~overlap' /\ ~stopped' /\ p = "operator" => ~(proc[p].op = "restore" /\ proc[p].plan # <<>>)
  BY DEF Finish, Die, Declined, Finished
<1>5. QED
  BY <1>1, <1>2, <1>3, <1>4, HandStep

\* A record with a new plan and nothing else to watch.
LEMMA PlanSide ==
  ASSUME NEW p, NEW d, NEW r, SideInv(p, d), d.op # "restore", Busy(d),
         DOMAIN r = Fields, r.op = d.op, r.task = d.task, r.at = d.at, r.copies = d.copies, r.label = d.label,
         d.op \in {"success", "failure"} => r.todo \in Seq(Candidates),
         d.op = "cleanup" => r.todo \in Seq(CleanupPasses),
         r.plan \in Seq(Writes),
         \A n \in DOMAIN r.plan : r.plan[n].op \in Puts /\ (r.plan[n].op = "append" => n = 1)
  PROVE  SideInv(p, r)
<1>1. \A n \in DOMAIN r.plan : r.plan[n].op # "rollback"
  BY DEF Puts
<1>2. QED
  BY <1>1 DEF SideInv, Busy

\* The next candidate of a delta.
LEMMA StepDelta ==
  ASSUME MemoryInv, apply_delta
  PROVE  MemoryInv'
<1> DEFINE d == proc["daemon"]
           c == Head(d.todo)
           failed == d.op = "failure"
           plan == IF c.kind = "entity"
                   THEN _ingest_entity(c, failed, tiers["quarantine"], tiers["entity"], tree, d.task)
                   ELSE _ingest_long_term(c, failed, tiers["quarantine"], tiers[c.kind], d.at, d.task)
           r == [d EXCEPT !.todo = Tail(@), !.plan = plan]
           tier == c.kind
<1>1. d.op \in {"success", "failure"} /\ d.plan = <<>> /\ d.todo # <<>> /\ Set("daemon", r)
        /\ UNCHANGED <<disk, world, history, left>>
  BY DEF apply_delta
<1>2. "daemon" \in Sides
  BY DEF Sides
<1>3. SideInv("daemon", d) /\ WorldInv /\ FilesInv /\ (~overlap => DistinctInv)
        /\ (~overlap => (Busy(d) => \A q \in Sides \ {"daemon"} : ~Busy(proc[q])))
  BY <1>2, OneOf
<1>4. d.task \in Tasks /\ d.at \in Nat /\ d.todo \in Seq(Candidates) /\ DOMAIN d = Fields
  BY <1>1, <1>3 DEF SideInv
<1>5. c \in Candidates /\ Tail(d.todo) \in Seq(Candidates)
  BY <1>1, <1>4
<1>6. WorldInv' /\ UNCHANGED <<tiers, present, audited, snapshots, overlap, stopped>>
  BY <1>1, <1>3 DEF WorldInv, disk, history, world
<1>7. AskedPlan(plan, tier, tiers[tier]) /\ tier \in KindSet \cup {"entity"}
  <2>1. tiers["quarantine"] \in Seq(HeldRows) /\ tiers["entity"] \in Seq(ObservedCards)
          /\ \A k \in KindSet : tiers[k] \in Seq(EarnedRows(k))
    BY <1>3, FilesAre, RowsAre DEF FilesInv
  <2> HIDE DEF d, c, failed
  <2>2. CASE c \in CardCandidates
    <3>1. c.kind = "entity"
      BY <2>2 DEF CardCandidates
    <3>2. plan = _ingest_entity(c, failed, tiers["quarantine"], tiers["entity"], tree, d.task)
      BY <3>1
    <3>3. AskedPlan(_ingest_entity(c, failed, tiers["quarantine"], tiers["entity"], tree, d.task), "entity", tiers["entity"])
      BY <1>4, <2>1, <2>2, CardPlan
    <3> HIDE DEF plan
    <3>4. QED
      BY <3>1, <3>2, <3>3
  <2>3. CASE c \in LessonCandidates
    <3>1. c.kind \in KindSet /\ c.kind # "entity"
      BY <2>3, FilesAre DEF LessonCandidates
    <3>2. plan = _ingest_long_term(c, failed, tiers["quarantine"], tiers[c.kind], d.at, d.task)
      BY <3>1
    <3>3. AskedPlan(_ingest_long_term(c, failed, tiers["quarantine"], tiers[c.kind], d.at, d.task), c.kind, tiers[c.kind])
      BY <1>4, <2>1, <2>3, <3>1, LessonPlan
    <3> HIDE DEF plan
    <3>4. QED
      BY <3>1, <3>2, <3>3
  <2>4. QED
    BY <1>5, <2>2, <2>3 DEF Candidates
<1> HIDE DEF plan, tier
<1>8. DOMAIN r = Fields /\ r.op = d.op /\ r.task = d.task /\ r.at = d.at /\ r.todo = Tail(d.todo) /\ r.plan = plan
        /\ r.copies = d.copies /\ r.label = d.label
  BY <1>4 DEF Fields
<1> HIDE DEF r, d, c
<1>9. SideInv("daemon", r)
  <2>1. plan \in Seq(Writes) /\ \A n \in DOMAIN plan : plan[n].op \in Puts /\ (plan[n].op = "append" => n = 1)
    BY <1>7 DEF AskedPlan, Asked, Puts
  <2>2. Busy(d) /\ d.op # "restore" /\ d.op # "cleanup"
    BY <1>1 DEF Busy
  <2>3. QED
    BY <1>3, <1>5, <1>8, <2>1, <2>2, PlanSide
<1>10. ASSUME ~overlap PROVE AloneInv(r)
  <2>1. ASSUME NEW n \in DOMAIN plan PROVE Distinct(plan[n].file, Written(plan[n]))
    <3>1. Asked(plan[n], tier, tiers[tier]) /\ plan[n].file \in {tier, "quarantine"}
      BY <1>7 DEF AskedPlan
    <3>2. CASE plan[n].file = "quarantine"
      BY <3>2, FilesAre DEF Distinct
    <3>3. CASE plan[n].file = tier
      <4>1. Distinct(tier, tiers[tier])
        BY <1>3, <1>7, <1>10 DEF DistinctInv, TierFiles
      <4>2. Written(plan[n]) = IF plan[n].op = "append" THEN tiers[tier] \o plan[n].rows ELSE plan[n].rows
        BY <3>3 DEF Written
      <4>3. QED
        BY <3>1, <3>3, <4>1, <4>2 DEF Asked
    <3>4. QED
      BY <3>1, <3>2, <3>3
  <2>2. r.op # "restore" /\ r.op # "cleanup"
    BY <1>1, <1>8
  <2>3. QED
    BY <1>8, <2>1, <2>2 DEF AloneInv, RestoreInv, FoundInv
<1>11. ~overlap' => ~(Busy(r) /\ \E q \in Sides \ {"daemon"} : Busy(proc[q]))
  BY <1>1, <1>3, <1>6, <1>8 DEF Busy
<1>12. QED
  BY <1>1, <1>2, <1>6, <1>9, <1>10, <1>11, HandStep
\* The next pass of a cleanup.
LEMMA StepPass ==
  ASSUME MemoryInv, NEW p \in Sides, CleanupPass(p)
  PROVE  MemoryInv'
<1> DEFINE d == proc[p]
           Held(i) == tiers[d.todo[i][2]] # <<>>
           n == CHOOSE i \in DOMAIN d.todo : Held(i) /\ \A j \in 1..(i - 1) : tiers[d.todo[j][2]] = <<>>
           pass == d.todo[n]
           tier == pass[2]
           rows == tiers[tier]
           Late(cut) == [d.budget EXCEPT !.late = @ \/ (pass[1] = "duplicates" /\ cut < Len(rows))]
           Result(cut) == CASE pass[1] = "expire" -> _expire_episodes(rows, Late(cut), d.at)
                            [] pass[1] = "entities" -> _reconcile_entities(rows, tree, Late(cut), cut)
                            [] pass[1] = "lessons" -> _reconcile_lessons(tier, rows, tree, Late(cut), cut)
                            [] OTHER -> _merge_long_term_duplicates(tier, rows, Late(cut))
           rest == SubSeq(d.todo, n + 1, Len(d.todo))
           Next_(cut) == [d EXCEPT !.todo = rest, !.plan = Result(cut).plan, !.budget = Result(cut).budget]
<1>1. /\ d.op = "cleanup" /\ d.plan = <<>> /\ (\E i \in DOMAIN d.todo : Held(i))
      /\ (\E cut : Set(p, Next_(cut))) /\ UNCHANGED <<disk, world, history, left>>
  BY DEF CleanupPass
<1>2. PICK cut : Set(p, Next_(cut))
  BY <1>1
<1> DEFINE plan == Result(cut).plan
           r == Next_(cut)
<1>3. SideInv(p, d) /\ WorldInv /\ FilesInv /\ (~overlap => DistinctInv /\ AloneInv(d))
        /\ (~overlap => (Busy(d) => \A q \in Sides \ {p} : ~Busy(proc[q])))
  BY OneOf
<1>4. d.todo \in Seq(CleanupPasses) /\ DOMAIN d = Fields
  BY <1>1, <1>3 DEF SideInv
<1>5. n \in DOMAIN d.todo
  <2> DEFINE todo == d.todo
             N == {i \in DOMAIN todo : Held(i)}
  <2>1. N \in SUBSET Nat /\ N # {}
    <3>1. todo \in Seq(CleanupPasses) /\ \E i \in DOMAIN todo : Held(i)
      BY <1>1, <1>4
    <3> HIDE DEF todo, Held
    <3>2. DOMAIN todo \subseteq Nat
      BY <3>1
    <3>3. QED
      BY <3>1, <3>2
  <2> HIDE DEF N
  <2>2. PICK m \in N : \A v \in N : m <= v
    BY <2>1, LeastExists
  <2>3. m \in DOMAIN todo /\ Held(m)
    BY DEF N
  <2>4. ASSUME NEW j \in 1..(m - 1) PROVE tiers[todo[j][2]] = <<>>
    <3>1. j \in DOMAIN todo /\ ~(m <= j)
      BY <1>4, <2>3
    <3>2. j \notin N
      BY <2>2, <3>1
    <3>3. QED
      BY <3>1, <3>2 DEF N
  <2> DEFINE Good(i) == Held(i) /\ \A j \in 1..(i - 1) : tiers[d.todo[j][2]] = <<>>
  <2>5. \E i \in DOMAIN d.todo : Good(i)
    BY <2>3, <2>4
  <2>6. n = CHOOSE i \in DOMAIN d.todo : Good(i)
    OBVIOUS
  <2> HIDE DEF Good, d, n, todo
  <2>7. QED
    BY <2>5, <2>6
<1>6. rest \in Seq(CleanupPasses) /\ pass \in CleanupPasses
  <2> DEFINE todo == d.todo
  <2>1. todo \in Seq(CleanupPasses) /\ n \in 1..Len(todo)
    BY <1>4, <1>5
  <2> HIDE DEF todo, n
  <2>2. SubSeq(todo, n + 1, Len(todo)) \in Seq(CleanupPasses) /\ todo[n] \in CleanupPasses
    BY <2>1
  <2>3. QED
    BY <2>2 DEF todo
<1> HIDE DEF n, Late
<1>7. WorldInv' /\ UNCHANGED <<tiers, present, audited, snapshots, overlap, stopped>>
  BY <1>1, <1>3 DEF WorldInv, disk, history, world
<1>8. tree \in SUBSET Paths
  BY <1>3, StoreAssumption DEF tree, WorldInv
<1> HIDE DEF pass, d
<1>9. tier \in TierFiles \ {"quarantine"} /\ Cleans(plan, tier, rows)
  <2>1. \/ pass = <<"expire", "short">> \/ pass = <<"entities", "entity">>
        \/ \E k \in KindSet : pass = <<"lessons", k>> \/ pass = <<"duplicates", k>>
    BY <1>6 DEF CleanupPasses
  <2>2. /\ tiers["short"] \in Seq(EpisodeRows) /\ tiers["entity"] \in Seq(ObservedCards)
        /\ \A k \in KindSet : tiers[k] \in Seq(EarnedRows(k))
    BY <1>3, FilesAre, RowsAre DEF FilesInv
  <2>3. CASE pass = <<"expire", "short">>
    <3>1. tier = "short" /\ pass[1] = "expire"
      BY <2>3
    <3>2. plan = _expire_episodes(rows, Late(cut), d.at).plan
      BY <3>1
    <3>3. rows \in Seq(EpisodeRows)
      BY <2>2, <3>1
    <3> HIDE DEF plan, tier, rows
    <3>4. QED
      BY <3>1, <3>2, <3>3, FilesAre, ExpireCleans
  <2>4. CASE pass = <<"entities", "entity">>
    <3>1. tier = "entity" /\ pass[1] = "entities"
      BY <2>4
    <3>2. plan = _reconcile_entities(rows, tree, Late(cut), cut).plan
      BY <3>1
    <3>3. rows \in Seq(ObservedCards)
      BY <2>2, <3>1
    <3> HIDE DEF plan, tier, rows
    <3>4. QED
      BY <1>8, <3>1, <3>2, <3>3, FilesAre, EntitiesCleans
  <2>5. ASSUME NEW k \in KindSet, pass = <<"lessons", k>> PROVE tier \in TierFiles \ {"quarantine"} /\ Cleans(plan, tier, rows)
    <3>1. tier = k /\ pass[1] = "lessons"
      BY <2>5
    <3>2. plan = _reconcile_lessons(tier, rows, tree, Late(cut), cut).plan
      BY <3>1
    <3>3. rows \in Seq(EarnedRows(k))
      BY <2>2, <3>1
    <3> HIDE DEF plan, tier, rows
    <3>4. QED
      BY <1>8, <3>1, <3>2, <3>3, FilesAre, LessonsCleans
  <2>6. ASSUME NEW k \in KindSet, pass = <<"duplicates", k>> PROVE tier \in TierFiles \ {"quarantine"} /\ Cleans(plan, tier, rows)
    <3>1. tier = k /\ pass[1] = "duplicates"
      BY <2>6
    <3>2. plan = _merge_long_term_duplicates(tier, rows, Late(cut)).plan
      BY <3>1
    <3>3. rows \in Seq(EarnedRows(k))
      BY <2>2, <3>1
    <3> HIDE DEF plan, tier, rows
    <3>4. QED
      BY <3>1, <3>2, <3>3, FilesAre, DuplicatesCleans
  <2>7. QED
    BY <2>1, <2>3, <2>4, <2>5, <2>6
<1>10. DOMAIN r = Fields /\ r.op = d.op /\ r.task = d.task /\ r.at = d.at /\ r.todo = rest /\ r.plan = plan /\ r.found = d.found
        /\ r.copies = d.copies /\ r.label = d.label
  BY <1>4 DEF Fields
<1>11. Set(p, r)
  BY <1>2
<1> HIDE DEF plan, tier, rows, r, Result, rest
<1>12. SideInv(p, r)
  <2>1. plan \in Seq(Writes) /\ \A m \in DOMAIN plan : plan[m].op \in Puts /\ (plan[m].op = "append" => m = 1)
    BY <1>9 DEF Cleans, Puts
  <2>2. Busy(d) /\ d.op # "restore" /\ d.op \notin {"success", "failure"}
    BY <1>1 DEF Busy
  <2>3. QED
    BY <1>3, <1>6, <1>10, <2>1, <2>2, PlanSide
<1>13. ASSUME ~overlap PROVE AloneInv(r)
  <2>1. ASSUME NEW m \in DOMAIN plan PROVE Distinct(plan[m].file, Written(plan[m]))
    <3>1. CASE plan[m].op = "replace"
      <4>1. Distinct(tier, rows)
        BY <1>3, <1>9, <1>13 DEF DistinctInv, rows
      <4>2. plan[m].file = tier /\ Distinct(tier, plan[m].rows)
        BY <1>9, <3>1, <4>1 DEF Cleans
      <4>3. Written(plan[m]) = plan[m].rows
        BY <3>1 DEF Written
      <4>4. QED
        BY <4>2, <4>3
    <3>2. CASE plan[m].op # "replace"
      <4>1. plan[m].file = "quarantine"
        BY <1>9, <3>2 DEF Cleans
      <4>2. QED
        BY <4>1, FilesAre DEF Distinct
    <3>3. QED
      BY <3>1, <3>2
  <2>2. FoundInv(r)
    <3>1. Len(plan) <= 2 /\ plan \in Seq(Writes)
            /\ \A m \in DOMAIN plan : \/ m = 1 /\ plan[m].op = "replace" /\ plan[m].file = tier
                                      \/ m = 2 /\ plan[m].op = "extend" /\ plan[m].file = "quarantine"
      BY <1>9 DEF Cleans
    <3>2. Len(plan) = 2 => plan[1].file # "quarantine" /\ plan[2].file = "quarantine"
      <4>1. ASSUME Len(plan) = 2 PROVE 1 \in DOMAIN plan /\ 2 \in DOMAIN plan
        BY <3>1, <4>1
      <4>2. QED
        BY <1>9, <3>1, <4>1
    <3>3. ASSUME NEW x \in d.found
          PROVE  \/ \E f \in TierFiles \ {"short"} :
                      x \in Known(tiers[f]) /\ \A m \in DOMAIN plan : plan[m].file = f => plan[m].op = "extend"
                 \/ \E m \in DOMAIN plan : plan[m].file # "short" /\ x \in Known(plan[m].rows)
      <4>1. PICK f \in TierFiles \ {"short"} : x \in Known(tiers[f])
        <5>1. AloneInv(d) /\ DOMAIN d.plan = {}
          BY <1>1, <1>3, <1>13
        <5>2. QED
          BY <1>1, <5>1 DEF AloneInv, FoundInv
      <4>2. CASE f # tier
        BY <3>1, <4>1, <4>2
      <4>3. CASE f = tier /\ plan = <<>>
        BY <4>1, <4>3
      <4>4. CASE f = tier /\ plan # <<>>
        <5>1. PICK m \in DOMAIN plan : x \in Known(plan[m].rows)
          BY <1>9, <4>1, <4>4 DEF Cleans, rows
        <5>2. plan[m].file # "short"
          BY <3>1, <4>4
        <5>3. QED
          BY <5>1, <5>2
      <4>5. QED
        BY <4>2, <4>3, <4>4
    <3>4. QED
      BY <1>10, <3>1, <3>2, <3>3 DEF FoundInv
  <2>3. RestoreInv(r)
    BY <1>1, <1>10 DEF RestoreInv
  <2>4. QED
    BY <1>10, <2>1, <2>2, <2>3 DEF AloneInv
<1>14. ~overlap' => ~(Busy(r) /\ \E q \in Sides \ {p} : Busy(proc[q]))
  BY <1>1, <1>3, <1>7, <1>10 DEF Busy
<1>15. d.op # "restore"
  BY <1>1
<1>16. QED
  BY <1>7, <1>11, <1>12, <1>13, <1>14, <1>15, HandStep DEF d

\* Rows one after another know what each knows.
LEMMA KnownJoin ==
  ASSUME NEW V, NEW a \in Seq(V), NEW b \in Seq(V)
  PROVE  Known(a) \cup Known(b) \subseteq Known(a \o b)
<1> DEFINE c == a \o b
<1>1. Joined(c, a, b)
  BY JoinOf
<1> HIDE DEF c
<1>2. Known(a) \subseteq Known(c) /\ Known(b) \subseteq Known(c)
  BY <1>1 DEF Known, Joined
<1>3. QED
  BY <1>2 DEF c

\* The quarantine is read when its turn comes.
LEMMA StepRead ==
  ASSUME MemoryInv, NEW p \in Sides, ReadQuarantine(p)
  PROVE  MemoryInv'
<1> DEFINE d == proc[p]
           h == Head(d.plan)
           w == _replace_rows("quarantine", tiers["quarantine"] \o h.rows)
           plan == <<w>> \o Tail(d.plan)
           r == [d EXCEPT !.plan = plan]
<1>1. d.plan # <<>> /\ h.op = "extend" /\ Set(p, r) /\ UNCHANGED <<disk, world, history, left>>
  BY DEF ReadQuarantine, NextIs
<1>2. SideInv(p, d) /\ WorldInv /\ FilesInv /\ (~overlap => DistinctInv /\ AloneInv(d))
        /\ (~overlap => (Busy(d) => \A q \in Sides \ {p} : ~Busy(proc[q])))
  BY OneOf
<1>3. d.plan \in Seq(Writes) /\ DOMAIN d = Fields
  BY <1>2 DEF SideInv
<1>4. h \in Writes /\ h = d.plan[1] /\ 1 \in DOMAIN d.plan /\ Tail(d.plan) \in Seq(Writes)
  BY <1>1, <1>3
<1>5. h.file = "quarantine" /\ h.rows \in Seq(HeldRows)
  BY <1>1, <1>4, RowsAre DEF Writes
<1>6. w \in Writes /\ w.op = "replace" /\ w.file = "quarantine" /\ w.rows = tiers["quarantine"] \o h.rows
  <2>1. "quarantine" \in TierFiles /\ "replace" \in Puts \cup Restores
    BY FilesAre DEF Puts
  <2>2. tiers["quarantine"] \in Seq(HeldRows)
    BY <1>2, <2>1, RowsAre DEF FilesInv
  <2>3. tiers["quarantine"] \o h.rows \in Seq(RowsOf("quarantine"))
    BY <1>5, <2>2, RowsAre
  <2>4. QED
    BY <2>1, <2>3, WriteOf DEF _replace_rows
<1>7. d.op # "restore" /\ Busy(d)
  <2>1. d.op = "restore" => h.op \in Restores
    BY <1>2, <1>4 DEF SideInv
  <2>2. QED
    BY <1>1, <1>2, <2>1 DEF SideInv, Restores
<1> HIDE DEF w
<1>8. /\ plan \in Seq(Writes) /\ Len(plan) = Len(d.plan) /\ DOMAIN plan = DOMAIN d.plan /\ plan[1] = w
      /\ \A n \in DOMAIN plan : n # 1 => plan[n] = d.plan[n]
  <2> DEFINE t == d.plan
  <2>1. t \in Seq(Writes) /\ t # <<>>
    BY <1>1, <1>3
  <2> HIDE DEF t
  <2>2. /\ <<w>> \o Tail(t) \in Seq(Writes) /\ Len(<<w>> \o Tail(t)) = Len(t) /\ DOMAIN (<<w>> \o Tail(t)) = DOMAIN t
        /\ (<<w>> \o Tail(t))[1] = w
    BY <1>6, <2>1
  <2>3. \A n \in DOMAIN t : n # 1 => (<<w>> \o Tail(t))[n] = t[n]
    BY <1>6, <2>1
  <2>4. QED
    BY <2>2, <2>3 DEF t
<1>9. DOMAIN r = Fields /\ r.op = d.op /\ r.task = d.task /\ r.at = d.at /\ r.todo = d.todo /\ r.plan = plan /\ r.found = d.found
        /\ r.copies = d.copies /\ r.label = d.label
  BY <1>3 DEF Fields
<1>10. WorldInv' /\ UNCHANGED <<tiers, present, audited, snapshots, overlap, stopped>>
  BY <1>1, <1>2 DEF WorldInv, disk, history, world
<1> HIDE DEF plan, r, d
<1>11. SideInv(p, r)
  <2>1. \A n \in DOMAIN plan : plan[n].op \in Puts /\ (plan[n].op = "append" => n = 1)
    BY <1>2, <1>6, <1>7, <1>8 DEF SideInv, Puts
  <2>2. (d.op \in {"success", "failure"} => r.todo \in Seq(Candidates)) /\ (d.op = "cleanup" => r.todo \in Seq(CleanupPasses))
    BY <1>2, <1>9 DEF SideInv
  <2>3. QED
    BY <1>2, <1>7, <1>8, <1>9, <2>1, <2>2, PlanSide
<1>12. ASSUME ~overlap PROVE AloneInv(r)
  <2>1. ASSUME NEW n \in DOMAIN plan PROVE Distinct(plan[n].file, Written(plan[n]))
    <3>1. CASE n = 1
      BY <1>6, <1>8, <3>1, FilesAre DEF Distinct
    <3>2. CASE n # 1
      BY <1>2, <1>8, <1>12, <3>2 DEF AloneInv
    <3>3. QED
      BY <3>1, <3>2
  <2>2. FoundInv(r)
    <3>1. ASSUME d.op = "cleanup" PROVE FoundInv(r)
      <4>1. /\ Len(d.plan) <= 2 /\ (Len(d.plan) = 2 => d.plan[1].file # "quarantine")
            /\ \A n \in DOMAIN d.plan : d.plan[n].op \in {"replace", "extend"}
        BY <1>2, <1>12, <3>1 DEF AloneInv, FoundInv
      <4>2. Len(d.plan) = 1
        <5>1. Len(d.plan) \in Nat /\ Len(d.plan) # 0
          BY <1>1, <1>3
        <5>2. d.plan[1].file = "quarantine"
          BY <1>4, <1>5
        <5> DEFINE l == Len(d.plan)
        <5>3. l <= 2 /\ l \in Nat /\ l # 0 /\ l # 2
          BY <4>1, <5>1, <5>2
        <5> HIDE DEF l
        <5>4. l = 1
          BY <5>3
        <5>5. QED
          BY <5>4 DEF l
      <4>3. DOMAIN plan = {1} /\ DOMAIN d.plan = {1} /\ Len(plan) = 1
        BY <1>8, <4>2, <1>3
      <4>4. ASSUME NEW x \in d.found
            PROVE  \/ \E f \in TierFiles \ {"short"} :
                        x \in Known(tiers[f]) /\ \A n \in DOMAIN plan : plan[n].file = f => plan[n].op = "extend"
                   \/ \E n \in DOMAIN plan : plan[n].file # "short" /\ x \in Known(plan[n].rows)
        <5>1. \/ \E f \in TierFiles \ {"short"} :
                   x \in Known(tiers[f]) /\ \A n \in DOMAIN d.plan : d.plan[n].file = f => d.plan[n].op = "extend"
              \/ \E n \in DOMAIN d.plan : d.plan[n].file # "short" /\ x \in Known(d.plan[n].rows)
          BY <1>2, <1>12, <3>1 DEF AloneInv, FoundInv
        <5>2. tiers["quarantine"] \in Seq(HeldRows)
          BY <1>2, FilesAre, RowsAre DEF FilesInv
        <5>3. x \in Known(tiers["quarantine"]) \/ x \in Known(h.rows) => x \in Known(w.rows)
          <6>1. Known(tiers["quarantine"]) \cup Known(h.rows) \subseteq Known(tiers["quarantine"] \o h.rows)
            BY <1>5, <5>2, KnownJoin
          <6>2. w.rows = tiers["quarantine"] \o h.rows
            BY <1>6
          <6>3. QED
            BY <6>1, <6>2
        <5>4. CASE \E n \in DOMAIN d.plan : d.plan[n].file # "short" /\ x \in Known(d.plan[n].rows)
          BY <1>4, <1>6, <1>8, <4>3, <5>3, <5>4
        <5>5. ASSUME NEW f \in TierFiles \ {"short"}, x \in Known(tiers[f])
              PROVE  \/ \E g \in TierFiles \ {"short"} :
                          x \in Known(tiers[g]) /\ \A n \in DOMAIN plan : plan[n].file = g => plan[n].op = "extend"
                     \/ \E n \in DOMAIN plan : plan[n].file # "short" /\ x \in Known(plan[n].rows)
          <6>1. CASE f = "quarantine"
            BY <1>6, <1>8, <4>3, <5>3, <5>5, <6>1
          <6>2. CASE f # "quarantine"
            BY <1>6, <1>8, <4>3, <5>5, <6>2
          <6>3. QED
            BY <6>1, <6>2
        <5>6. QED
          BY <5>1, <5>4, <5>5
      <4>5. \A n \in DOMAIN plan : plan[n].op \in {"replace", "extend"}
        BY <1>6, <1>8, <4>3
      <4>6. QED
        BY <1>9, <4>3, <4>4, <4>5 DEF FoundInv
    <3>2. QED
      BY <1>9, <3>1 DEF FoundInv
  <2>3. RestoreInv(r)
    BY <1>7, <1>9 DEF RestoreInv
  <2>4. QED
    BY <1>9, <2>1, <2>2, <2>3 DEF AloneInv
<1>13. ~overlap' => ~(Busy(r) /\ \E q \in Sides \ {p} : Busy(proc[q]))
  BY <1>2, <1>7, <1>9, <1>10 DEF Busy
<1>14. QED
  BY <1>1, <1>7, <1>10, <1>11, <1>12, <1>13, HandStep DEF d, r, plan
\* A process that enters alone finds nobody at work.
LEMMA EnterOf ==
  ASSUME DOMAIN proc = Sides, NEW p \in Sides, NEW r, Enter(p, r)
  PROVE  /\ Set(p, r) /\ (overlap => overlap')
         /\ ~overlap' => ~(Busy(r) /\ \E q \in Sides \ {p} : Busy(proc[q]))
         /\ overlap \in BOOLEAN => overlap' \in BOOLEAN
<1>1. Set(p, r) /\ overlap' = (overlap \/ \E q \in DOMAIN proc \ {p} : proc[q].op \notin {"idle", "asking"})
  BY DEF Enter
<1>2. QED
  BY <1>1 DEF Busy

\* A task's end is written: its episode first, then what its delta asks for.
LEMMA StepFinal ==
  ASSUME MemoryInv, NEW delta \in Seq(RawItem), NEW failed \in BOOLEAN, _write_memory(delta, failed)
  PROVE  MemoryInv'
<1> DEFINE row == EpisodeRecord(active, now)
           w == _append_row("short", row)
           todo == IF failed THEN <<>> ELSE parse_delta(delta)
           r == [Idle EXCEPT !.op = IF failed THEN "failure" ELSE "success", !.task = active, !.at = now,
                             !.todo = todo, !.plan = <<w>>]
<1>1. /\ active # None /\ proc["daemon"].op = "idle" /\ Spend("finals") /\ store' = TRUE /\ Enter("daemon", r)
      /\ UNCHANGED <<tiers, present, audited, snapshots, world, owed, reused, stopped>>
  BY DEF _write_memory
<1>2. "daemon" \in Sides /\ WorldInv /\ DOMAIN proc = Sides
  BY DEF MemoryInv, Sides
<1>3. /\ Set("daemon", r) /\ (overlap => overlap')
      /\ ~overlap' => ~(Busy(r) /\ \E q \in Sides \ {"daemon"} : Busy(proc[q]))
      /\ overlap' \in BOOLEAN
  <2> HIDE DEF r
  <2>1. QED
    BY <1>1, <1>2, EnterOf DEF WorldInv
<1>4. active \in Tasks /\ now \in Nat
  BY <1>1, <1>2, StoreAssumption DEF WorldInv
<1>5. w \in Writes /\ w.op = "append" /\ w.file = "short"
  <2>1. row \in EpisodeRows
    BY <1>4 DEF EpisodeRecord, EpisodeRows
  <2>2. <<row>> \in Seq(RowsOf("short")) /\ "short" \in TierFiles /\ "append" \in Puts \cup Restores
    BY <2>1, FilesAre, RowsAre DEF Puts
  <2> HIDE DEF row
  <2>3. QED
    BY <2>2, WriteOf DEF _append_row
<1>6. todo \in Seq(Candidates)
  <2>1. <<>> \in Seq(Candidates) /\ parse_delta(delta) \in Seq(Candidates)
    BY ParsedOf
  <2>2. QED
    BY <2>1
<1> HIDE DEF w, todo
<1>7. /\ DOMAIN r = Fields /\ r.op \in {"success", "failure"} /\ r.task = active /\ r.at = now /\ r.todo = todo
      /\ r.plan = <<w>> /\ r.copies = <<>>
  BY DEF Idle, Fields
<1>8. <<w>> \in Seq(Writes) /\ <<>> \in Seq(TierFiles) /\ DOMAIN <<w>> = {1} /\ <<w>>[1] = w
  BY <1>5
<1> HIDE DEF r
<1>9. SideInv("daemon", r)
  BY <1>4, <1>5, <1>6, <1>7, <1>8 DEF SideInv, Busy, Puts
<1>10. AloneInv(r)
  <2>1. Distinct(w.file, Written(w))
    BY <1>5, FilesAre DEF Distinct
  <2>2. QED
    BY <1>7, <1>8, <2>1 DEF AloneInv, RestoreInv, FoundInv
<1>11. WorldInv'
  <2>1. left' \in [{"finals", "cleanups", "commands", "stops"} -> Int]
    BY <1>1, <1>2, SpendOf
  <2>2. active' = active /\ now' = now /\ era' = era /\ reused' = reused /\ stopped' = stopped /\ store' \in BOOLEAN
    BY <1>1 DEF world
  <2>3. QED
    BY <1>2, <1>3, <2>1, <2>2 DEF WorldInv
<1>12. UNCHANGED <<tiers, present, audited, snapshots>> /\ stopped' = stopped
  BY <1>1
<1>13. QED
  BY <1>2, <1>3, <1>9, <1>10, <1>11, <1>12, HandStep

\* What an operator's command begins with.
LEMMA CommandsOf ==
  ASSUME MemoryInv, Commands
  PROVE  /\ "operator" \in Sides /\ DOMAIN proc = Sides /\ WorldInv /\ proc["operator"].op = "idle"
         /\ left' \in [{"finals", "cleanups", "commands", "stops"} -> Int]
<1>1. WorldInv /\ DOMAIN proc = Sides /\ "operator" \in Sides
  BY DEF MemoryInv, Sides
<1>2. Spend("commands") /\ proc["operator"].op = "idle"
  BY DEF Commands
<1>3. QED
  BY <1>1, <1>2, SpendOf

\* The question before a clear or a purge.
LEMMA StepAsk ==
  ASSUME MemoryInv, _cmd_memory_clear
  PROVE  MemoryInv'
<1>1. PICK scope \in Scopes : Set("operator", [Idle EXCEPT !.op = "asking", !.scope = scope])
  BY DEF _cmd_memory_clear
<1>2. Commands /\ UNCHANGED <<disk, world, history>>
  BY DEF _cmd_memory_clear
<1>3. "operator" \in Sides /\ DOMAIN proc = Sides /\ WorldInv /\ proc["operator"].op = "idle"
        /\ left' \in [{"finals", "cleanups", "commands", "stops"} -> Int]
  BY <1>2, CommandsOf
<1> DEFINE r == [Idle EXCEPT !.op = "asking", !.scope = scope]
<1>4. DOMAIN r = Fields /\ r.op = "asking" /\ r.scope = scope /\ r.plan = <<>> /\ r.copies = <<>>
  BY DEF Idle, Fields
<1>5. Set("operator", r)
  BY <1>1
<1> HIDE DEF r
<1>6. scope \subseteq MemoryTier
  BY StoreAssumption
<1>7. SideInv("operator", r) /\ ~Busy(r)
  <2>1. <<>> \in Seq(Writes) /\ <<>> \in Seq(TierFiles) /\ DOMAIN <<>> = {}
    OBVIOUS
  <2>2. QED
    BY <1>4, <1>6, <2>1 DEF SideInv, Busy
<1>8. AloneInv(r)
  BY <1>7, RestAlone
<1>9. WorldInv' /\ UNCHANGED <<tiers, present, audited, snapshots, overlap, stopped>>
  BY <1>2, <1>3 DEF WorldInv, disk, history, world
<1>10. QED
  BY <1>3, <1>5, <1>7, <1>8, <1>9, HandStep

\* A restore of a copy.
LEMMA StepRestore ==
  ASSUME MemoryInv, _cmd_memory_restore
  PROVE  MemoryInv'
<1>1. PICK label \in DOMAIN snapshots \cup {LastLabel(l) : l \in {DOMAIN snapshots} \ {{}}} :
        Enter("operator", [Idle EXCEPT !.op = "restore", !.label = label, !.plan = restore(label)])
  BY DEF _cmd_memory_restore
<1>2. Commands /\ UNCHANGED <<disk, world, reused, stopped>>
  BY DEF _cmd_memory_restore
<1>3. "operator" \in Sides /\ DOMAIN proc = Sides /\ WorldInv /\ proc["operator"].op = "idle"
        /\ left' \in [{"finals", "cleanups", "commands", "stops"} -> Int]
  BY <1>2, CommandsOf
<1>4. FilesInv /\ (~overlap => DistinctInv)
  BY DEF MemoryInv
<1>5. label \in DOMAIN snapshots
  <2>1. DOMAIN snapshots \in SUBSET Labels
    BY <1>4 DEF FilesInv
  <2>2. CASE label \in {LastLabel(l) : l \in {DOMAIN snapshots} \ {{}}}
    <3>1. label = LastLabel(DOMAIN snapshots) /\ DOMAIN snapshots # {}
      BY <2>2
    <3>2. QED
      BY <2>1, <3>1, LastOf
  <2>3. QED
    BY <2>2
<1> DEFINE plan == restore(label)
           files == snapshots[label]
           r == [Idle EXCEPT !.op = "restore", !.label = label, !.plan = plan]
<1>6. DOMAIN files \subseteq TierFiles /\ (\A f \in DOMAIN files : files[f] \in Seq(RowsOf(f))) /\ present \subseteq TierFiles
  BY <1>4, <1>5 DEF FilesInv
<1>7. /\ plan \in Seq(Writes) /\ plan # <<>> /\ plan[Len(plan)].op = "rollback" /\ plan[Len(plan)].file = "short"
      /\ \A n \in DOMAIN plan : n # Len(plan) => Undoes(plan[n], files)
      /\ \A f \in present \cup DOMAIN files : \E n \in DOMAIN plan : n # Len(plan) /\ plan[n].file = f
  BY <1>6, RestorePlan
<1>8. DOMAIN r = Fields /\ r.op = "restore" /\ r.label = label /\ r.plan = plan /\ r.copies = <<>>
  BY DEF Idle, Fields
<1>9. Enter("operator", r)
  BY <1>1
<1> HIDE DEF plan, files, r
<1>10. /\ Set("operator", r) /\ (overlap => overlap')
       /\ ~overlap' => ~(Busy(r) /\ \E q \in Sides \ {"operator"} : Busy(proc[q]))
       /\ overlap' \in BOOLEAN
  BY <1>3, <1>9, EnterOf DEF WorldInv
<1>11. SideInv("operator", r)
  <2>1. ASSUME NEW n \in DOMAIN plan
        PROVE  /\ plan[n].op \in Restores /\ plan[n].op # "append"
               /\ plan[n].op = "rollback" <=> n = Len(plan)
    BY <1>7 DEF Undoes, Restores
  <2>2. <<>> \in Seq(TierFiles)
    OBVIOUS
  <2>3. QED
    BY <1>7, <1>8, <2>1, <2>2 DEF SideInv, Busy
<1>12. ASSUME ~overlap' PROVE AloneInv(r)
  <2>1. ASSUME NEW n \in DOMAIN plan PROVE Distinct(plan[n].file, Written(plan[n]))
    <3>1. plan[n] \in Writes
      BY <1>7
    <3>2. CASE n = Len(plan)
      <4>1. plan[n].file = "short"
        BY <1>7, <3>2
      <4>2. QED
        BY <4>1, FilesAre DEF Distinct
    <3>3. CASE plan[n].op = "unlink"
      <4>1. plan[n].rows = <<>> /\ Written(plan[n]) = plan[n].rows /\ DOMAIN <<>> = {}
        BY <3>1, <3>3 DEF Writes, Written
      <4>2. QED
        BY <4>1 DEF Distinct
    <3>4. CASE plan[n].op = "overwrite" /\ n # Len(plan)
      <4>1. plan[n].file \in DOMAIN files /\ plan[n].rows = files[plan[n].file] /\ Written(plan[n]) = plan[n].rows
        BY <1>7, <3>4 DEF Undoes, Written
      <4>2. Distinct(plan[n].file, files[plan[n].file])
        BY <1>4, <1>5, <1>10, <1>12, <4>1 DEF DistinctInv, files
      <4>3. QED
        BY <4>1, <4>2
    <3>5. QED
      BY <1>7, <3>2, <3>3, <3>4 DEF Undoes
  <2>2. RestoreInv(r)
    <3> DEFINE Due(f) == \E n \in DOMAIN plan : plan[n].op \in {"unlink", "overwrite"} /\ plan[n].file = f
    <3>1. \A n \in DOMAIN plan :
            /\ plan[n].op = "unlink" => plan[n].file \notin DOMAIN files
            /\ plan[n].op = "overwrite" => plan[n].file \in DOMAIN files /\ plan[n].rows = files[plan[n].file]
      BY <1>7 DEF Undoes
    <3>2. ASSUME NEW f \in TierFiles PROVE Due(f) \/ Restored(f, files)
      <4>1. CASE f \in present \cup DOMAIN files
        <5>1. PICK n \in DOMAIN plan : n # Len(plan) /\ plan[n].file = f
          BY <1>7, <4>1
        <5>2. plan[n].op \in {"unlink", "overwrite"}
          BY <1>7, <5>1 DEF Undoes
        <5>3. QED
          BY <5>1, <5>2
      <4>2. CASE f \notin present \cup DOMAIN files
        BY <4>2 DEF Restored
      <4>3. QED
        BY <4>1, <4>2
    <3>3. QED
      BY <1>5, <1>8, <3>1, <3>2 DEF RestoreInv, files
  <2>3. FoundInv(r)
    BY <1>8 DEF FoundInv
  <2>4. QED
    BY <1>8, <2>1, <2>2, <2>3 DEF AloneInv
<1>13. WorldInv'
  <2>1. store' = store /\ active' = active /\ now' = now /\ era' = era /\ reused' = reused /\ stopped' = stopped
    BY <1>2 DEF disk, world
  <2>2. QED
    BY <1>3, <1>10, <2>1 DEF WorldInv
<1>14. UNCHANGED <<tiers, present, audited, snapshots>> /\ stopped' = stopped
  BY <1>2 DEF disk
<1>15. QED
  BY <1>3, <1>10, <1>11, <1>12, <1>13, <1>14, HandStep
-----------------------------------------------------------------------------
(* A copy is taken.                                                          *)

\* The files to copy are the tier files that exist.
LEMMA FilesToCopy ==
  ASSUME present \subseteq TierFiles
  PROVE  tier_files \in Seq(TierFiles) /\ \A f \in TierFiles : f \in ToSet(tier_files) <=> f \in present
<1> DEFINE head == <<"short", "entity", "quarantine">>
           all == _tier_candidates
           places == {i \in DOMAIN all : all[i] \in present}
<1>1. LongTermKinds \in Seq(KindSet) /\ KindSet = ToSet(LongTermKinds) /\ TierFiles = {"short", "entity", "quarantine"} \cup KindSet
  BY FilesAre DEF LongTermKinds, KindSet, TierFiles, ToSet
<1>2. LongTermKinds \in Seq(TierFiles) /\ head \in Seq(TierFiles) /\ head[1] = "short" /\ head[2] = "entity"
        /\ head[3] = "quarantine" /\ DOMAIN head = 1..3
  BY <1>1
<1> HIDE DEF head
<1>3. all \in Seq(TierFiles) /\ Joined(all, head, LongTermKinds)
  BY <1>2, JoinOf DEF _tier_candidates, head
<1>4. \A f \in TierFiles : \E i \in DOMAIN all : all[i] = f
  BY <1>1, <1>2, <1>3 DEF Joined, ToSet
<1>5. tier_files = Within(all, places)
  BY DEF tier_files, Existing
<1> HIDE DEF all
<1> DEFINE w == Within(all, places)
<1>6. w \in Seq(TierFiles) /\ Picked(all, places \cap DOMAIN all, w)
  BY <1>3, WithinOf
<1> HIDE DEF w
<1>7. \A f \in TierFiles : f \in ToSet(w) <=> f \in present
  <2>1. \A f : f \in ToSet(w) <=> \E n \in DOMAIN w : w[n] = f
    BY DEF ToSet
  <2>2. QED
    BY <1>4, <1>6, <2>1 DEF Picked
<1>8. QED
  BY <1>5, <1>6, <1>7 DEF w

\* A snapshot begins: no copy changes, and one of a new name is empty.
LEMMA BegunOf ==
  ASSUME NEW label, take_snapshot(label)
  PROVE  /\ DOMAIN snapshots' = DOMAIN snapshots \cup {label} /\ (~reused' => ~reused /\ label \notin DOMAIN snapshots)
         /\ \A l \in DOMAIN snapshots : snapshots'[l] = snapshots[l]
         /\ label \notin DOMAIN snapshots => snapshots'[label] = <<>>
         /\ DOMAIN before' = DOMAIN before \cup {label} /\ before'[label] = Restrict(tiers, present)
         /\ \A l \in DOMAIN before : l # label => before'[l] = before[l]
  BY DEF take_snapshot

\* A copy holds one more file, or that file anew.
LEMMA CaptureOf ==
  ASSUME NEW label, NEW tier, NEW rows, Capture(label, tier, rows)
  PROVE  /\ DOMAIN snapshots' = DOMAIN snapshots \cup {label}
         /\ \A l \in DOMAIN snapshots : l # label => snapshots'[l] = snapshots[l]
         /\ tier \in DOMAIN snapshots'[label] /\ snapshots'[label][tier] = rows
         /\ \A f \in DOMAIN snapshots'[label] :
              f # tier => label \in DOMAIN snapshots /\ f \in DOMAIN snapshots[label] /\ snapshots'[label][f] = snapshots[label][f]
         /\ label \in DOMAIN snapshots =>
              \A f \in DOMAIN snapshots[label] :
                f \in DOMAIN snapshots'[label] /\ (f # tier => snapshots'[label][f] = snapshots[label][f])
<1> DEFINE old == IF label \in DOMAIN snapshots THEN snapshots[label] ELSE <<>>
           new == [f \in DOMAIN old \cup {tier} |-> IF f = tier THEN rows ELSE old[f]]
<1>1. snapshots' = [l \in DOMAIN snapshots \cup {label} |-> IF l = label THEN new ELSE snapshots[l]]
  BY DEF Capture
<1>2. /\ DOMAIN new = DOMAIN old \cup {tier} /\ new[tier] = rows
      /\ \A f \in DOMAIN old : f # tier => new[f] = old[f]
  OBVIOUS
<1>3. DOMAIN old # {} => label \in DOMAIN snapshots
  OBVIOUS
<1>4. label \in DOMAIN snapshots => old = snapshots[label]
  OBVIOUS
<1> HIDE DEF new, old
<1>5. snapshots'[label] = new /\ DOMAIN snapshots' = DOMAIN snapshots \cup {label}
        /\ \A l \in DOMAIN snapshots : l # label => snapshots'[l] = snapshots[l]
  BY <1>1
<1>6. QED
  BY <1>2, <1>3, <1>4, <1>5

\* With rows of its kind it is a copy like any other.
LEMMA CapturedFiles ==
  ASSUME FilesInv, NEW label \in Labels, NEW tier \in TierFiles, NEW rows \in Seq(RowsOf(tier)),
         Capture(label, tier, rows), UNCHANGED <<tiers, present, audited>>
  PROVE  FilesInv' /\ (DistinctInv /\ Distinct(tier, rows) => DistinctInv')
<1>0. /\ DOMAIN snapshots' = DOMAIN snapshots \cup {label}
      /\ \A l \in DOMAIN snapshots : l # label => snapshots'[l] = snapshots[l]
      /\ snapshots'[label][tier] = rows
      /\ \A f \in DOMAIN snapshots'[label] :
           f # tier => label \in DOMAIN snapshots /\ f \in DOMAIN snapshots[label] /\ snapshots'[label][f] = snapshots[label][f]
  <2>1. Capture(label, tier, rows)
    OBVIOUS
  <2>2. QED
    BY <2>1, CaptureOf
<1>1. ASSUME NEW l \in DOMAIN snapshots', NEW f \in DOMAIN snapshots'[l]
      PROVE  /\ f \in TierFiles /\ snapshots'[l][f] \in Seq(RowsOf(f))
             /\ DistinctInv /\ Distinct(tier, rows) => Distinct(f, snapshots'[l][f])
  <2>1. CASE l = label /\ f = tier
    BY <1>0, <2>1
  <2>2. CASE ~(l = label /\ f = tier)
    <3>1. l \in DOMAIN snapshots /\ f \in DOMAIN snapshots[l] /\ snapshots'[l][f] = snapshots[l][f]
      BY <1>0, <2>2
    <3>2. QED
      BY <3>1 DEF FilesInv, DistinctInv
  <2>3. QED
    BY <2>1, <2>2
<1>2. DOMAIN snapshots' \subseteq Labels
  BY <1>0 DEF FilesInv
<1>3. FilesInv'
  <2>1. \A l \in DOMAIN snapshots' :
          DOMAIN snapshots'[l] \subseteq TierFiles /\ \A f \in DOMAIN snapshots'[l] : snapshots'[l][f] \in Seq(RowsOf(f))
    BY <1>1
  <2>2. QED
    BY <1>2, <2>1 DEF FilesInv
<1>4. ASSUME DistinctInv, Distinct(tier, rows) PROVE DistinctInv'
  BY <1>1, <1>4 DEF DistinctInv
<1>5. QED
  BY <1>3, <1>4

\* A process starts its work with a snapshot of the files.
LEMMA SnapStep ==
  ASSUME MemoryInv, WorldInv', NEW p \in Sides, NEW r, Enter(p, r), NEW label \in Labels, take_snapshot(label),
         UNCHANGED <<tiers, present, audited, stopped>>, SideInv(p, r), Busy(r), r.op # "restore",
         proc[p].op # "restore", ~overlap => AloneInv(r)
  PROVE  MemoryInv'
<1>1. /\ WorldInv /\ FilesInv /\ DOMAIN proc = Sides /\ (\A q \in Sides : SideInv(q, proc[q])) /\ TrailInv
      /\ ~overlap => DistinctInv
  BY DEF MemoryInv
<1>2. /\ DOMAIN snapshots' = DOMAIN snapshots \cup {label} /\ (label \notin DOMAIN snapshots => snapshots'[label] = <<>>)
      /\ \A l \in DOMAIN snapshots : snapshots'[l] = snapshots[l]
  BY BegunOf
<1>3. /\ Set(p, r) /\ (overlap => overlap') /\ DOMAIN proc' = Sides /\ proc'[p] = r
      /\ ~overlap' => \A q \in Sides : q # p => ~Busy(proc[q])
      /\ \A q \in Sides : q # p => proc'[q] = proc[q]
  BY <1>1, EnterOf, SetOf
<1>4. \A l \in DOMAIN snapshots' : \A f \in DOMAIN snapshots'[l] :
        l \in DOMAIN snapshots /\ f \in DOMAIN snapshots[l] /\ snapshots'[l][f] = snapshots[l][f]
  <2>1. DOMAIN <<>> = {}
    OBVIOUS
  <2>2. QED
    BY <1>2, <2>1
<1>5. FilesInv'
  <2>1. \A l \in DOMAIN snapshots' :
          DOMAIN snapshots'[l] \subseteq TierFiles /\ \A f \in DOMAIN snapshots'[l] : snapshots'[l][f] \in Seq(RowsOf(f))
    BY <1>1, <1>4 DEF FilesInv
  <2>2. DOMAIN snapshots' \subseteq Labels
    BY <1>1, <1>2 DEF FilesInv
  <2>3. QED
    BY <1>1, <2>1, <2>2 DEF FilesInv
<1>6. ASSUME ~overlap' PROVE DistinctInv'
  <2>1. DistinctInv
    BY <1>1, <1>3, <1>6
  <2>2. QED
    BY <1>4, <2>1 DEF DistinctInv
<1>7. ASSUME ~overlap', NEW q \in Sides PROVE AloneInv(proc[q])'
  <2> DEFINE d == proc'[q]
  <2>1. AloneInv(d) /\ d.op # "restore"
    <3>1. CASE q = p
      BY <1>3, <1>7, <3>1
    <3>2. CASE q # p
      <4>1. SideInv(q, d) /\ ~Busy(d)
        BY <1>1, <1>3, <1>7, <3>2
      <4>2. AloneInv(d)
        BY <4>1, RestAlone
      <4>3. QED
        BY <4>1, <4>2 DEF Busy
    <3>3. QED
      BY <3>1, <3>2
  <2>2. tiers' = tiers /\ present' = present
    OBVIOUS
  <2>3. QED
    BY <2>1, <2>2 DEF AloneInv, RestoreInv, FoundInv, Written
<1>8. TrailInv'
  <2>1. ASSUME ~overlap', ~stopped' PROVE audited' = tiers'
    <3>1. ~(proc["operator"].op = "restore")
      BY <1>3, <2>1 DEF Sides, Busy
    <3>2. QED
      BY <1>1, <1>3, <2>1, <3>1 DEF TrailInv
  <2>2. QED
    BY <2>1 DEF TrailInv
<1>9. \A q \in Sides : SideInv(q, proc[q])'
  <2>1. \A q \in Sides : SideInv(q, proc'[q])
    BY <1>1, <1>3
  <2>2. QED
    BY <2>1 DEF SideInv, Busy
<1>10. ~overlap' => ~(Busy(proc["daemon"])' /\ Busy(proc["operator"])')
  <2>1. ~overlap' => ~(Busy(proc'["daemon"]) /\ Busy(proc'["operator"]))
    BY <1>3 DEF Sides
  <2>2. QED
    BY <2>1 DEF Busy
<1>11. QED
  BY <1>3, <1>5, <1>6, <1>7, <1>8, <1>9, <1>10 DEF MemoryInv

\* The passes of a cleanup are passes.
LEMMA PassesAre == Passes \in Seq(CleanupPasses)
<1> DEFINE a == [i \in DOMAIN LongTermKinds |-> <<"lessons", LongTermKinds[i]>>]
           b == [i \in DOMAIN LongTermKinds |-> <<"duplicates", LongTermKinds[i]>>]
           first == <<<<"expire", "short">>, <<"entities", "entity">>>>
<1>1. Passes = first \o a \o b
  BY DEF Passes, Mapped
<1>2. LongTermKinds \in Seq(KindSet)
  <2>1. DOMAIN LongTermKinds = 1..4 /\ LongTermKinds \in Seq({"semantic", "procedural", "reviewer", "failure"})
    BY DEF LongTermKinds
  <2>2. QED
    BY <2>1, FilesAre
<1>3. first \in Seq(CleanupPasses)
  <2>1. <<"expire", "short">> \in CleanupPasses /\ <<"entities", "entity">> \in CleanupPasses
    BY DEF CleanupPasses
  <2>2. QED
    BY <2>1
<1>4. a \in Seq(CleanupPasses)
  <2>1. \A i \in DOMAIN LongTermKinds : LongTermKinds[i] \in KindSet
    BY <1>2
  <2>2. \A i \in DOMAIN LongTermKinds : a[i] \in CleanupPasses
    BY <2>1 DEF CleanupPasses
  <2>3. a = [i \in DOMAIN LongTermKinds |-> a[i]]
    OBVIOUS
  <2> HIDE DEF a
  <2>4. QED
    BY <1>2, <2>2, <2>3, MappedSeq
<1>5. b \in Seq(CleanupPasses)
  <2>1. \A i \in DOMAIN LongTermKinds : LongTermKinds[i] \in KindSet
    BY <1>2
  <2>2. \A i \in DOMAIN LongTermKinds : b[i] \in CleanupPasses
    BY <2>1 DEF CleanupPasses
  <2>3. b = [i \in DOMAIN LongTermKinds |-> b[i]]
    OBVIOUS
  <2> HIDE DEF b
  <2>4. QED
    BY <1>2, <2>2, <2>3, MappedSeq
<1> HIDE DEF a, b, first
<1>6. QED
  BY <1>1, <1>3, <1>4, <1>5

\* A cleanup starts: all that is known is in the files.
LEMMA StepRun ==
  ASSUME MemoryInv, NEW p \in Sides, NEW full \in BOOLEAN, run_once(p, full), proc[p].op = "idle",
         UNCHANGED <<store, tiers, present, audited, world, stopped>>,
         left' \in [{"finals", "cleanups", "commands", "stops"} -> Int]
  PROVE  MemoryInv'
<1> DEFINE r == [Idle EXCEPT !.op = "cleanup", !.budget = Budget(full), !.todo = Passes,
                             !.found = Provenance(tiers), !.at = now, !.label = <<"cleanup", now>>,
                             !.copies = tier_files]
           label == <<"cleanup", now>>
<1>1. Enter(p, r) /\ take_snapshot(label)
  BY DEF run_once
<1>2. WorldInv /\ FilesInv /\ DOMAIN proc = Sides
  BY DEF MemoryInv
<1>3. DOMAIN r = Fields /\ r.op = "cleanup" /\ r.todo = Passes /\ r.found = Provenance(tiers) /\ r.at = now /\ r.plan = <<>>
        /\ r.label = label /\ r.copies = tier_files
  BY DEF Idle, Fields
<1> HIDE DEF r
<1>4. now \in 0..MaxTime /\ MaxTime \in Nat /\ label \in Labels /\ now \in Nat
  BY <1>2, StoreAssumption DEF WorldInv, Labels
<1>5. <<>> \in Seq(Writes) /\ DOMAIN <<>> = {} /\ Len(<<>>) = 0
  OBVIOUS
<1>6. SideInv(p, r) /\ Busy(r)
  <2>1. tier_files \in Seq(TierFiles)
    BY <1>2, FilesToCopy DEF FilesInv
  <2>2. QED
    BY <1>3, <1>4, <1>5, <2>1, PassesAre DEF SideInv, Busy
<1>7. AloneInv(r)
  <2>1. \A x \in r.found : \E f \in TierFiles \ {"short"} : x \in Known(tiers[f])
    BY <1>2, <1>3, ProvenanceOf DEF FilesInv
  <2>2. QED
    BY <1>3, <1>5, <2>1 DEF AloneInv, RestoreInv, FoundInv
<1>8. WorldInv'
  <2>1. overlap' \in BOOLEAN
    BY <1>1, <1>2, EnterOf DEF WorldInv
  <2>2. reused' \in BOOLEAN
    BY <1>1 DEF take_snapshot
  <2>3. store' = store /\ active' = active /\ now' = now /\ era' = era /\ stopped' = stopped
    BY DEF world
  <2>4. QED
    BY <1>2, <2>1, <2>2, <2>3 DEF WorldInv
<1> HIDE DEF label
<1>9. QED
  BY <1>1, <1>3, <1>4, <1>6, <1>7, <1>8, SnapStep

\* By the watch loop between tasks, or by a command.
LEMMA StepHook ==
  ASSUME MemoryInv, _build_cleanup_hook
  PROVE  MemoryInv'
<1>1. /\ proc["daemon"].op = "idle" /\ Spend("cleanups") /\ run_once("daemon", FALSE)
      /\ UNCHANGED <<store, tiers, present, audited, world, stopped>>
  BY DEF _build_cleanup_hook
<1>2. WorldInv /\ "daemon" \in Sides
  BY DEF MemoryInv, Sides
<1>3. left' \in [{"finals", "cleanups", "commands", "stops"} -> Int]
  BY <1>1, <1>2, SpendOf
<1>4. QED
  BY <1>1, <1>2, <1>3, StepRun

\* An operator's compact is a pass in a second process.
LEMMA StepCompact ==
  ASSUME MemoryInv, _cmd_memory_compact
  PROVE  MemoryInv'
<1>1. Commands /\ run_once("operator", TRUE) /\ UNCHANGED <<store, tiers, present, audited, world, stopped>>
  BY DEF _cmd_memory_compact
<1>2. QED
  BY <1>1, CommandsOf, StepRun

\* An operator empties some files.
LEMMA StepClear ==
  ASSUME MemoryInv, clear
  PROVE  MemoryInv'
<1> DEFINE d == proc["operator"]
           files == {f \in UNION {FilesOf(t) : t \in d.scope} : tiers[f] # <<>>}
           plan == Mapped(SetToSeq(files), LAMBDA f : _replace_rows(f, <<>>))
           r == [Idle EXCEPT !.op = "clear", !.label = <<"clear", now>>, !.copies = tier_files, !.plan = plan]
           label == <<"clear", now>>
<1>1. d.op = "asking" /\ Enter("operator", r) /\ take_snapshot(label)
        /\ UNCHANGED <<store, tiers, present, audited, world, stopped, left>>
  BY DEF clear
<1>2. WorldInv /\ FilesInv /\ DOMAIN proc = Sides /\ "operator" \in Sides /\ SideInv("operator", d)
  BY DEF MemoryInv, Sides
<1>3. files \in SUBSET TierFiles
  <2>1. d.scope \subseteq MemoryTier
    BY <1>1, <1>2 DEF SideInv
  <2>2. \A t \in MemoryTier : FilesOf(t) \subseteq TierFiles
    BY DEF MemoryTier, FilesOf, TierFiles
  <2>3. QED
    BY <2>1, <2>2
<1>4. plan \in Seq(Writes) /\ \A n \in DOMAIN plan : plan[n].op = "replace" /\ plan[n].rows = <<>>
  <2> HIDE DEF files
  <2>1. QED
    BY <1>3, ClearPlan
<1> HIDE DEF plan
<1>5. DOMAIN r = Fields /\ r.op = "clear" /\ r.plan = plan /\ r.label = label /\ r.copies = tier_files
  BY DEF Idle, Fields
<1> HIDE DEF r
<1>6. SideInv("operator", r) /\ Busy(r)
  <2>1. tier_files \in Seq(TierFiles) /\ label \in Labels
    BY <1>2, FilesToCopy DEF WorldInv, FilesInv, Labels
  <2> HIDE DEF label
  <2>2. QED
    BY <1>4, <1>5, <2>1 DEF SideInv, Busy, Puts
<1>7. AloneInv(r)
  <2>1. ASSUME NEW n \in DOMAIN plan PROVE Distinct(plan[n].file, Written(plan[n]))
    <3>1. Written(plan[n]) = <<>> /\ DOMAIN <<>> = {}
      BY <1>4 DEF Written
    <3>2. QED
      BY <3>1 DEF Distinct
  <2>2. QED
    BY <1>5, <2>1 DEF AloneInv, RestoreInv, FoundInv
<1>8. now \in 0..MaxTime /\ label \in Labels
  BY <1>2 DEF WorldInv, Labels
<1>9. WorldInv'
  <2>1. overlap' \in BOOLEAN
    BY <1>1, <1>2, EnterOf DEF WorldInv
  <2>2. reused' \in BOOLEAN
    BY <1>1 DEF take_snapshot
  <2>3. store' = store /\ active' = active /\ now' = now /\ era' = era /\ stopped' = stopped /\ left' = left
    BY <1>1 DEF world
  <2>4. QED
    BY <1>2, <2>1, <2>2, <2>3 DEF WorldInv
<1> HIDE DEF label
<1>10. QED
  BY <1>1, <1>2, <1>5, <1>6, <1>7, <1>8, <1>9, SnapStep
-----------------------------------------------------------------------------
(* A file is written.                                                        *)

\* What is left to show of a step of a process that works alone, or enters so.
LEMMA WorkStep ==
  ASSUME MemoryInv, WorldInv', FilesInv', TrailInv', NEW p \in Sides, NEW r, Set(p, r), SideInv(p, r),
         ~overlap' => DistinctInv' /\ AloneInv(proc[p])' /\ \A q \in Sides \ {p} : ~Busy(proc[q])
  PROVE  MemoryInv'
<1>1. DOMAIN proc = Sides /\ \A q \in Sides : SideInv(q, proc[q])
  BY DEF MemoryInv
<1>2. /\ DOMAIN proc' = Sides /\ proc'[p] = r
      /\ \A q \in Sides : q # p => proc'[q] = proc[q]
  BY <1>1, SetOf
<1>3. ASSUME ~overlap', NEW q \in Sides PROVE AloneInv(proc[q])'
  <2>1. CASE q = p
    BY <1>3, <2>1
  <2>2. CASE q # p
    <3>1. SideInv(q, proc[q]) /\ ~Busy(proc[q])
      BY <1>1, <1>3, <2>2
    <3>2. proc'[q] = proc[q]
      BY <1>2, <2>2
    <3>3. proc'[q].plan = <<>> /\ proc'[q].op # "restore" /\ proc'[q].op # "cleanup" /\ DOMAIN <<>> = {}
      BY <3>1, <3>2 DEF SideInv, Busy
    <3>4. QED
      BY <3>3 DEF AloneInv, RestoreInv, FoundInv
  <2>3. QED
    BY <2>1, <2>2
<1>4. \A q \in Sides : SideInv(q, proc[q])'
  <2>1. \A q \in Sides : SideInv(q, proc'[q])
    BY <1>1, <1>2
  <2>2. QED
    BY <2>1 DEF SideInv, Busy
<1>5. ~overlap' => ~(Busy(proc["daemon"])' /\ Busy(proc["operator"])')
  <2>1. ~overlap' => ~(Busy(proc'["daemon"]) /\ Busy(proc'["operator"]))
    BY <1>2 DEF Sides
  <2>2. QED
    BY <2>1 DEF Busy
<1>6. QED
  BY <1>2, <1>3, <1>4, <1>5 DEF MemoryInv

\* A file has rows of its kind after a write.
LEMMA WrittenOf ==
  ASSUME FilesInv, NEW w \in Writes
  PROVE  Written(w) \in Seq(RowsOf(w.file)) /\ w.file \in TierFiles /\ (w.op = "unlink" => Written(w) = <<>>)
<1>1. w.file \in TierFiles /\ w.rows \in Seq(RowsOf(w.file)) /\ (w.op = "unlink" => w.rows = <<>>)
  BY DEF Writes
<1>2. tiers[w.file] \in Seq(RowsOf(w.file))
  BY <1>1 DEF FilesInv
<1>3. Written(w) = IF w.op = "append" THEN tiers[w.file] \o w.rows ELSE w.rows
  BY DEF Written
<1> DEFINE R == RowsOf(w.file)
<1>4. tiers[w.file] \o w.rows \in Seq(R)
  <2> HIDE DEF R
  <2>1. w.rows \in Seq(R) /\ tiers[w.file] \in Seq(R)
    BY <1>1, <1>2 DEF R
  <2>2. QED
    BY <2>1
<1>5. QED
  BY <1>1, <1>3, <1>4

\* The files after a write.
LEMMA PutOf ==
  ASSUME FilesInv, NEW w \in Writes, Put(w), snapshots' = snapshots, DOMAIN audited' = TierFiles
  PROVE  /\ FilesInv' /\ DOMAIN tiers' = TierFiles /\ tiers'[w.file] = Written(w)
         /\ w.op = "unlink" => w.file \notin present'
         /\ w.op # "unlink" => w.file \in present'
         /\ \A f \in TierFiles : f # w.file => tiers'[f] = tiers[f] /\ (f \in present' <=> f \in present)
         /\ DistinctInv /\ Distinct(w.file, Written(w)) => DistinctInv'
<1>1. Written(w) \in Seq(RowsOf(w.file)) /\ w.file \in TierFiles /\ (w.op = "unlink" => Written(w) = <<>>)
  BY WrittenOf
<1>2. /\ DOMAIN tiers' = TierFiles /\ tiers'[w.file] = Written(w)
      /\ \A f \in TierFiles : f # w.file => tiers'[f] = tiers[f]
  BY <1>1 DEF Put, FilesInv
<1>3. present' = IF w.op = "unlink" THEN present \ {w.file} ELSE present \cup {w.file}
  BY DEF Put
<1>4. FilesInv'
  <2>1. ASSUME NEW f \in TierFiles PROVE tiers'[f] \in Seq(RowsOf(f)) /\ (tiers'[f] # <<>> => f \in present')
    <3>1. CASE f = w.file
      BY <1>1, <1>2, <1>3, <3>1
    <3>2. CASE f # w.file
      BY <1>2, <1>3, <3>2 DEF FilesInv
    <3>3. QED
      BY <3>1, <3>2
  <2>2. present' \subseteq TierFiles
    BY <1>1, <1>3 DEF FilesInv
  <2>3. QED
    BY <1>2, <2>1, <2>2 DEF FilesInv
<1>5. ASSUME DistinctInv, Distinct(w.file, Written(w)) PROVE DistinctInv'
  <2>1. \A f \in TierFiles : Distinct(f, tiers'[f])
    BY <1>2, <1>5 DEF DistinctInv
  <2>2. QED
    BY <1>5, <2>1 DEF DistinctInv
<1>6. QED
  BY <1>2, <1>3, <1>4, <1>5

\* What is left of a plan.
LEMMA TailOf ==
  ASSUME NEW V, NEW s \in Seq(V), s # <<>>
  PROVE  /\ Head(s) = s[1] /\ 1 \in DOMAIN s /\ Tail(s) \in Seq(V) /\ Len(s) \in Nat /\ Len(Tail(s)) = Len(s) - 1
         /\ \A n \in DOMAIN Tail(s) : n \in Nat /\ n # 0 /\ n + 1 \in DOMAIN s /\ Tail(s)[n] = s[n + 1]
         /\ \A n \in DOMAIN s : n # 1 => n - 1 \in DOMAIN Tail(s) /\ Tail(s)[n - 1] = s[n]
         /\ (Len(s) # 1 => Tail(s) # <<>>)
<1> DEFINE t == Tail(s)
           l == Len(s)
<1>1. /\ Head(s) = s[1] /\ t \in Seq(V) /\ l \in Nat /\ l # 0 /\ Len(t) = l - 1 /\ DOMAIN s = 1..l /\ DOMAIN t = 1..(l - 1)
      /\ \A n \in 1..(l - 1) : t[n] = s[n + 1]
  OBVIOUS
<1> HIDE DEF t, l
<1>2. \A n \in 1..(l - 1) : n \in Nat /\ n # 0 /\ n + 1 \in 1..l
  BY <1>1
<1>3. \A n \in 1..l : n # 1 => n - 1 \in 1..(l - 1) /\ (n - 1) + 1 = n
  BY <1>1
<1>4. l # 1 => t # <<>>
  <2>1. t = <<>> => Len(t) = 0
    OBVIOUS
  <2>2. QED
    BY <1>1, <2>1
<1>5. 1 \in 1..l
  BY <1>1
<1>6. QED
  BY <1>1, <1>2, <1>3, <1>4, <1>5 DEF t, l

\* What a process that is about to write has in hand.
LEMMA NextOf ==
  ASSUME MemoryInv, NEW p \in Sides, NEW ops, NextIs(p, ops)
  PROVE  LET d == proc[p]
             w == Head(d.plan)
         IN  /\ d.plan \in Seq(Writes) /\ d.plan # <<>> /\ w \in Writes /\ w = d.plan[1] /\ 1 \in DOMAIN d.plan /\ w.op \in ops
             /\ DOMAIN d = Fields /\ Busy(d) /\ SideInv(p, d) /\ WorldInv /\ FilesInv /\ DOMAIN proc = Sides
             /\ ~overlap => DistinctInv /\ AloneInv(d) /\ Distinct(w.file, Written(w)) /\ \A q \in Sides \ {p} : ~Busy(proc[q])
<1> DEFINE d == proc[p]
           w == Head(d.plan)
<1>1. d.plan # <<>> /\ w.op \in ops
  BY DEF NextIs
<1>2. /\ SideInv(p, d) /\ WorldInv /\ FilesInv /\ DOMAIN proc = Sides
      /\ ~overlap => DistinctInv /\ AloneInv(d) /\ (Busy(d) => \A q \in Sides \ {p} : ~Busy(proc[q]))
  BY OneOf
<1> HIDE DEF d
<1>3. d.plan \in Seq(Writes) /\ DOMAIN d = Fields /\ Busy(d)
  BY <1>1, <1>2 DEF SideInv
<1>4. w = d.plan[1] /\ 1 \in DOMAIN d.plan
  BY <1>1, <1>3, TailOf
<1> HIDE DEF w
<1>5. w \in Writes
  BY <1>3, <1>4
<1>6. ~overlap => Distinct(w.file, Written(w))
  BY <1>2, <1>4 DEF AloneInv
<1>7. QED
  BY <1>1, <1>2, <1>3, <1>4, <1>5, <1>6 DEF d, w

\* A process that dies between a write and its audit row.
LEMMA StepDie ==
  ASSUME MemoryInv, NEW p \in Sides, DieBeforeRecord(p)
  PROVE  MemoryInv'
<1> DEFINE d == proc[p]
           w == Head(d.plan)
<1>1. /\ NextIs(p, {"append", "replace"}) /\ Spend("stops") /\ Put(w) /\ Set(p, Idle) /\ stopped' = TRUE
      /\ UNCHANGED <<store, audited, snapshots, world, owed, overlap, reused>>
  BY DEF DieBeforeRecord
<1>2. /\ w \in Writes /\ WorldInv /\ FilesInv /\ DOMAIN proc = Sides
      /\ ~overlap => DistinctInv /\ Distinct(w.file, Written(w)) /\ \A q \in Sides \ {p} : ~Busy(proc[q])
  BY <1>1, NextOf
<1> HIDE DEF w, d
<1>3. FilesInv' /\ (DistinctInv /\ Distinct(w.file, Written(w)) => DistinctInv')
  <2>1. DOMAIN audited' = TierFiles
    BY <1>1, <1>2 DEF FilesInv
  <2>2. QED
    BY <1>1, <1>2, <2>1, PutOf
<1>4. WorldInv'
  <2>1. left' \in [{"finals", "cleanups", "commands", "stops"} -> Int]
    BY <1>1, <1>2, SpendOf
  <2>2. store' = store /\ active' = active /\ now' = now /\ era' = era /\ reused' = reused /\ overlap' = overlap
    BY <1>1 DEF world
  <2>3. QED
    BY <1>1, <1>2, <2>1, <2>2 DEF WorldInv
<1>5. TrailInv'
  BY <1>1 DEF TrailInv
<1>6. AloneInv(proc[p])'
  <2>1. proc'[p].plan = <<>> /\ proc'[p].op = "idle" /\ DOMAIN <<>> = {}
    BY <1>1, <1>2, SetOf, IdleOf
  <2>2. QED
    BY <2>1 DEF AloneInv, RestoreInv, FoundInv
<1>7. overlap' = overlap
  BY <1>1
<1>8. QED
  BY <1>1, <1>2, <1>3, <1>4, <1>5, <1>6, <1>7, IdleOf, WorkStep

\* What a process that is still copying has in hand.
LEMMA CopierOf ==
  ASSUME MemoryInv, NEW p \in Sides, proc[p].copies # <<>>
  PROVE  LET d == proc[p]
         IN  /\ Head(d.copies) \in TierFiles /\ Tail(d.copies) \in Seq(TierFiles) /\ d.copies \in Seq(TierFiles)
             /\ d.op \in {"cleanup", "clear"} /\ d.label \in Labels /\ Busy(d) /\ DOMAIN d = Fields
             /\ SideInv(p, d) /\ WorldInv /\ FilesInv /\ DOMAIN proc = Sides
             /\ ~overlap => DistinctInv /\ AloneInv(d) /\ \A q \in Sides \ {p} : ~Busy(proc[q])
<1> DEFINE d == proc[p]
<1>1. /\ SideInv(p, d) /\ WorldInv /\ FilesInv /\ DOMAIN proc = Sides
      /\ ~overlap => DistinctInv /\ AloneInv(d) /\ (Busy(d) => \A q \in Sides \ {p} : ~Busy(proc[q]))
  BY OneOf
<1> HIDE DEF d
<1>2. d.copies # <<>>
  BY DEF d
<1>3. d.copies \in Seq(TierFiles) /\ d.op \in {"cleanup", "clear"} /\ d.label \in Labels /\ DOMAIN d = Fields
  BY <1>1, <1>2 DEF SideInv
<1>4. Head(d.copies) \in TierFiles /\ Tail(d.copies) \in Seq(TierFiles)
  BY <1>2, <1>3
<1>5. Busy(d)
  BY <1>3 DEF Busy
<1>6. QED
  BY <1>1, <1>3, <1>4, <1>5 DEF d

\* The next file of a snapshot.
LEMMA StepCopy ==
  ASSUME MemoryInv, NEW p \in Sides, CopyFile(p)
  PROVE  MemoryInv'
<1> DEFINE d == proc[p]
           tier == Head(d.copies)
           rest == Tail(d.copies)
           r == [d EXCEPT !.copies = rest]
<1>1. /\ d.copies # <<>> /\ (tier \in present => Capture(d.label, tier, tiers[tier]))
      /\ tier \notin present => snapshots' = snapshots
      /\ Set(p, r) /\ UNCHANGED <<store, tiers, present, audited, world, before, overlap, reused, stopped, left>>
  BY DEF CopyFile
<1>2. /\ tier \in TierFiles /\ rest \in Seq(TierFiles) /\ d.op \in {"cleanup", "clear"} /\ d.label \in Labels
      /\ Busy(d) /\ DOMAIN d = Fields /\ SideInv(p, d) /\ WorldInv /\ FilesInv /\ DOMAIN proc = Sides
      /\ ~overlap => DistinctInv /\ AloneInv(d) /\ \A q \in Sides \ {p} : ~Busy(proc[q])
  BY <1>1, CopierOf
<1>3. /\ DOMAIN r = Fields /\ r.op = d.op /\ r.task = d.task /\ r.at = d.at /\ r.todo = d.todo /\ r.plan = d.plan
      /\ r.found = d.found /\ r.label = d.label /\ r.scope = d.scope /\ r.copies = rest
  BY <1>2 DEF Fields
<1> HIDE DEF d, tier, rest, r
<1>4. FilesInv' /\ (DistinctInv => DistinctInv')
  <2>1. CASE tier \in present
    <3>1. tiers[tier] \in Seq(RowsOf(tier)) /\ (DistinctInv => Distinct(tier, tiers[tier]))
      BY <1>2 DEF FilesInv, DistinctInv
    <3>2. QED
      BY <1>1, <1>2, <2>1, <3>1, CapturedFiles
  <2>2. CASE tier \notin present
    BY <1>1, <1>2, <2>2, FilesStay
  <2>3. QED
    BY <2>1, <2>2
<1>5. SideInv(p, r)
  BY <1>2, <1>3 DEF SideInv, Busy
<1>6. WorldInv'
  BY <1>1, <1>2 DEF WorldInv, world
<1>7. proc'[p] = r /\ \A q \in Sides : q # p => proc'[q] = proc[q]
  BY <1>1, <1>2, SetOf
<1>8. TrailInv'
  <2>1. ASSUME ~overlap, ~stopped, audited # tiers PROVE proc'["operator"].op = "restore" /\ proc'["operator"].plan # <<>>
    <3>1. proc["operator"].op = "restore" /\ proc["operator"].plan # <<>>
      BY <2>1 DEF MemoryInv, TrailInv
    <3>2. p # "operator"
      BY <1>2, <3>1 DEF d
    <3>3. QED
      BY <1>7, <3>1, <3>2 DEF Sides
  <2>2. QED
    BY <1>1, <2>1 DEF TrailInv
<1>9. ASSUME ~overlap' PROVE AloneInv(proc[p])'
  <2>1. AloneInv(d)
    BY <1>1, <1>2, <1>9
  <2>2. tiers' = tiers /\ present' = present /\ r.op # "restore"
    BY <1>1, <1>2, <1>3
  <2>3. QED
    BY <1>3, <1>7, <2>1, <2>2 DEF AloneInv, RestoreInv, FoundInv, Written
<1>10. QED
  BY <1>1, <1>2, <1>4, <1>5, <1>6, <1>8, <1>9, WorkStep

\* A process that dies inside a copy leaves a file empty.
LEMMA StepInside ==
  ASSUME MemoryInv, NEW p \in Sides, DieInside(p)
  PROVE  MemoryInv'
<1>1. Spend("stops") /\ Set(p, Idle) /\ stopped' = TRUE /\ UNCHANGED <<store, audited, world, overlap, reused>>
  BY DEF DieInside
<1>2. WorldInv /\ FilesInv /\ DOMAIN proc = Sides
  BY DEF MemoryInv
<1>3. FilesInv' /\ (~overlap => DistinctInv' /\ \A q \in Sides \ {p} : ~Busy(proc[q]))
  <2> DEFINE d == proc[p]
             tier == Head(d.copies)
             v == Head(d.plan)
             w == [v EXCEPT !.rows = <<>>]
  <2>1. CASE d.copies # <<>> /\ Capture(d.label, tier, <<>>) /\ UNCHANGED <<tiers, present>>
    <3>1. /\ tier \in TierFiles /\ d.label \in Labels
          /\ ~overlap => DistinctInv /\ \A q \in Sides \ {p} : ~Busy(proc[q])
      BY <2>1, CopierOf
    <3>2. <<>> \in Seq(RowsOf(tier)) /\ DOMAIN <<>> = {}
      OBVIOUS
    <3>3. Distinct(tier, <<>>)
      BY <3>2 DEF Distinct
    <3> HIDE DEF tier, d
    <3>4. FilesInv' /\ (DistinctInv => DistinctInv')
      BY <1>1, <1>2, <2>1, <3>1, <3>2, <3>3, CapturedFiles
    <3>5. QED
      BY <3>1, <3>4 DEF d
  <2>2. CASE NextIs(p, {"overwrite"}) /\ Put(w) /\ snapshots' = snapshots
    <3>1. /\ v \in Writes /\ v.op \in {"overwrite"}
          /\ ~overlap => DistinctInv /\ \A q \in Sides \ {p} : ~Busy(proc[q])
      BY <2>2, NextOf
    <3> HIDE DEF v
    <3>2. w.op = "overwrite" /\ w.rows = <<>> /\ w.file = v.file
      BY <3>1 DEF Writes
    <3>3. w \in Writes
      <4>1. <<>> \in Seq(AnyRows) /\ <<>> \in Seq(RowsOf(v.file))
        OBVIOUS
      <4>2. w \in [op : Puts \cup Restores, file : TierFiles, rows : Seq(AnyRows)]
        BY <3>1, <4>1 DEF Writes
      <4> HIDE DEF w
      <4>3. QED
        BY <3>2, <4>1, <4>2 DEF Writes
    <3> HIDE DEF w
    <3>4. Distinct(w.file, Written(w))
      <4>1. Written(w) = <<>> /\ DOMAIN <<>> = {}
        BY <3>2 DEF Written
      <4>2. QED
        BY <4>1 DEF Distinct
    <3>5. DOMAIN audited' = TierFiles
      BY <1>1, <1>2 DEF FilesInv
    <3>6. FilesInv' /\ (DistinctInv => DistinctInv')
      BY <1>2, <2>2, <3>3, <3>4, <3>5, PutOf
    <3>7. QED
      BY <3>1, <3>6
  <2>3. QED
    BY <2>1, <2>2 DEF DieInside
<1>4. WorldInv'
  <2>1. left' \in [{"finals", "cleanups", "commands", "stops"} -> Int]
    BY <1>1, <1>2, SpendOf
  <2>2. store' = store /\ active' = active /\ now' = now /\ era' = era /\ reused' = reused /\ overlap' = overlap
    BY <1>1 DEF world
  <2>3. QED
    BY <1>1, <1>2, <2>1, <2>2 DEF WorldInv
<1>5. TrailInv'
  BY <1>1 DEF TrailInv
<1>6. AloneInv(proc[p])'
  <2>1. proc'[p].plan = <<>> /\ proc'[p].op = "idle" /\ DOMAIN <<>> = {}
    BY <1>1, <1>2, SetOf, IdleOf
  <2>2. QED
    BY <2>1 DEF AloneInv, RestoreInv, FoundInv
<1>7. overlap' = overlap
  BY <1>1
<1>8. QED
  BY <1>1, <1>2, <1>3, <1>4, <1>5, <1>6, <1>7, IdleOf, WorkStep

\* After a write of a restore, what it has not put back is still in its plan.
LEMMA WriteRestores ==
  ASSUME NEW p \in Sides, FilesInv, NEW d, d.plan \in Seq(Writes), d.plan # <<>>, RestoreInv(d), d.op = "restore",
         Head(d.plan).op \in {"overwrite", "unlink"}, Put(Head(d.plan)), snapshots' = snapshots, DOMAIN audited' = TierFiles,
         NEW r, r.op = d.op, r.label = d.label, r.plan = Tail(d.plan), proc'[p] = r
  PROVE  RestoreInv(proc[p])'
<1> DEFINE w == Head(d.plan)
           t == Tail(d.plan)
           files == snapshots[d.label]
           Due(f) == \E n \in DOMAIN d.plan : d.plan[n].op \in {"unlink", "overwrite"} /\ d.plan[n].file = f
           Left(f) == \E n \in DOMAIN t : t[n].op \in {"unlink", "overwrite"} /\ t[n].file = f
<1>1. /\ w = d.plan[1] /\ 1 \in DOMAIN d.plan
      /\ \A n \in DOMAIN t : n + 1 \in DOMAIN d.plan /\ t[n] = d.plan[n + 1]
      /\ \A n \in DOMAIN d.plan : n # 1 => n - 1 \in DOMAIN t /\ t[n - 1] = d.plan[n]
  BY TailOf
<1>2. /\ d.label \in DOMAIN snapshots
      /\ \A n \in DOMAIN d.plan :
           /\ d.plan[n].op = "unlink" => d.plan[n].file \notin DOMAIN files
           /\ d.plan[n].op = "overwrite" => d.plan[n].file \in DOMAIN files /\ d.plan[n].rows = files[d.plan[n].file]
      /\ \A f \in TierFiles : Due(f) \/ Restored(f, files)
  BY DEF RestoreInv
<1>3. w.op \in {"overwrite", "unlink"} /\ Put(w) /\ w \in Writes
  BY <1>1
<1> HIDE DEF w, t, files
<1>4. /\ tiers'[w.file] = Written(w) /\ (w.op = "unlink" => w.file \notin present') /\ (w.op # "unlink" => w.file \in present')
      /\ \A f \in TierFiles : f # w.file => tiers'[f] = tiers[f] /\ (f \in present' <=> f \in present)
  BY <1>3, PutOf
<1>5. ASSUME NEW f \in TierFiles
      PROVE  Left(f) \/ IF f \in DOMAIN files THEN f \in present' /\ tiers'[f] = files[f] ELSE f \notin present'
  <2>1. CASE f = w.file
    <3>1. CASE w.op = "unlink"
      BY <1>1, <1>2, <1>4, <2>1, <3>1
    <3>2. CASE w.op = "overwrite"
      <4>1. Written(w) = w.rows
        BY <3>2 DEF Written
      <4>2. QED
        BY <1>1, <1>2, <1>4, <2>1, <3>2, <4>1
    <3>3. QED
      BY <1>3, <3>1, <3>2
  <2>2. CASE f # w.file
    <3>1. CASE Due(f)
      BY <1>1, <2>2, <3>1
    <3>2. CASE Restored(f, files)
      BY <1>4, <2>2, <3>2 DEF Restored
    <3>3. QED
      BY <1>2, <3>1, <3>2
  <2>3. QED
    BY <2>1, <2>2
<1>6. \A n \in DOMAIN t :
        /\ t[n].op = "unlink" => t[n].file \notin DOMAIN files
        /\ t[n].op = "overwrite" => t[n].file \in DOMAIN files /\ t[n].rows = files[t[n].file]
  BY <1>1, <1>2
<1>7. files = snapshots'[r.label] /\ t = r.plan
  BY DEF files, t
<1>8. QED
  BY <1>2, <1>5, <1>6, <1>7 DEF RestoreInv, Restored

\* After a write of a cleanup, what it found is in a file it is done with or in what it will write.
LEMMA WriteFinds ==
  ASSUME NEW p \in Sides, FilesInv, NEW d, d.plan \in Seq(Writes), d.plan # <<>>, FoundInv(d), d.op = "cleanup",
         Head(d.plan).op # "extend", Put(Head(d.plan)), snapshots' = snapshots, DOMAIN audited' = TierFiles,
         NEW r, r.op = d.op, r.found = d.found, r.plan = Tail(d.plan), proc'[p] = r
  PROVE  FoundInv(proc[p])'
<1> DEFINE w == Head(d.plan)
           t == Tail(d.plan)
           l == Len(d.plan)
<1>1. /\ w = d.plan[1] /\ 1 \in DOMAIN d.plan /\ l \in Nat /\ Len(t) = l - 1 /\ DOMAIN d.plan = 1..l
      /\ \A n \in DOMAIN t : n \in Nat /\ n # 0 /\ n + 1 \in DOMAIN d.plan /\ t[n] = d.plan[n + 1]
      /\ \A n \in DOMAIN d.plan : n # 1 => n - 1 \in DOMAIN t /\ t[n - 1] = d.plan[n]
  BY TailOf
<1>2. /\ l <= 2 /\ (\A n \in DOMAIN d.plan : d.plan[n].op \in {"replace", "extend"})
      /\ l = 2 => d.plan[1].file # "quarantine" /\ d.plan[2].file = "quarantine"
      /\ \A x \in d.found :
         \/ \E f \in TierFiles \ {"short"} :
              x \in Known(tiers[f]) /\ \A n \in DOMAIN d.plan : d.plan[n].file = f => d.plan[n].op = "extend"
         \/ \E n \in DOMAIN d.plan : d.plan[n].file # "short" /\ x \in Known(d.plan[n].rows)
  BY DEF FoundInv
<1>3. w.op = "replace" /\ Put(w) /\ w \in Writes
  <2>1. d.plan[1] \in Writes /\ d.plan[1].op \in {"replace", "extend"} /\ w.op # "extend" /\ Put(w)
    BY <1>1, <1>2
  <2>2. w = d.plan[1]
    BY <1>1
  <2> HIDE DEF w
  <2>3. QED
    BY <2>1, <2>2
<1> HIDE DEF w, t, l
<1>4. /\ tiers'[w.file] = w.rows /\ w.file \in TierFiles
      /\ \A f \in TierFiles : f # w.file => tiers'[f] = tiers[f]
  <2>1. Written(w) = w.rows
    BY <1>3 DEF Written
  <2>2. QED
    BY <1>3, <2>1, PutOf, WrittenOf
<1>5. Len(t) <= 2 /\ Len(t) # 2 /\ \A n \in DOMAIN t : n = 1 /\ l = 2 /\ t[n] = d.plan[2]
  <2>1. Len(t) <= 2 /\ Len(t) # 2
    BY <1>1, <1>2
  <2>2. ASSUME NEW n \in DOMAIN t PROVE n = 1 /\ l = 2 /\ t[n] = d.plan[2]
    <3>1. n \in Nat /\ n # 0 /\ n + 1 \in 1..l /\ l <= 2 /\ l \in Nat
      BY <1>1, <1>2
    <3>2. n = 1 /\ l = 2 /\ n + 1 = 2
      BY <3>1
    <3>3. QED
      BY <1>1, <3>2
  <2>3. QED
    BY <2>1, <2>2
<1>6. ASSUME NEW x \in d.found
      PROVE  \/ \E f \in TierFiles \ {"short"} :
                  x \in Known(tiers'[f]) /\ \A n \in DOMAIN t : t[n].file = f => t[n].op = "extend"
             \/ \E n \in DOMAIN t : t[n].file # "short" /\ x \in Known(t[n].rows)
  <2>1. ASSUME NEW f \in TierFiles \ {"short"}, x \in Known(tiers[f]),
               \A n \in DOMAIN d.plan : d.plan[n].file = f => d.plan[n].op = "extend"
        PROVE  x \in Known(tiers'[f]) /\ \A n \in DOMAIN t : t[n].file = f => t[n].op = "extend"
    <3>1. f # w.file
      BY <1>1, <1>3, <2>1
    <3>2. QED
      BY <1>1, <1>4, <2>1, <3>1
  <2>2. ASSUME NEW n \in DOMAIN d.plan, d.plan[n].file # "short", x \in Known(d.plan[n].rows)
        PROVE  \/ \E f \in TierFiles \ {"short"} :
                    x \in Known(tiers'[f]) /\ \A m \in DOMAIN t : t[m].file = f => t[m].op = "extend"
               \/ \E m \in DOMAIN t : t[m].file # "short" /\ x \in Known(t[m].rows)
    <3>1. CASE n = 1
      <4>1. w.file \in TierFiles \ {"short"} /\ x \in Known(tiers'[w.file])
        BY <1>1, <1>4, <2>2, <3>1
      <4>2. \A m \in DOMAIN t : t[m].file # w.file
        BY <1>1, <1>2, <1>5
      <4>3. QED
        BY <4>1, <4>2
    <3>2. CASE n # 1
      BY <1>1, <2>2, <3>2
    <3>3. QED
      BY <3>1, <3>2
  <2>3. QED
    BY <1>2, <2>1, <2>2
<1>7. \A n \in DOMAIN t : t[n].op \in {"replace", "extend"}
  BY <1>1, <1>2
<1> DEFINE e == proc'[p]
<1>8. e.plan = t /\ e.found = d.found
  BY DEF t
<1> HIDE DEF e
<1>9. /\ Len(e.plan) <= 2
      /\ \A n \in DOMAIN e.plan : e.plan[n].op \in {"replace", "extend"}
      /\ Len(e.plan) = 2 => e.plan[1].file # "quarantine" /\ e.plan[2].file = "quarantine"
  BY <1>5, <1>7, <1>8
<1>10. \A x \in e.found :
         \/ \E f \in TierFiles \ {"short"} :
              x \in Known(tiers'[f]) /\ \A n \in DOMAIN e.plan : e.plan[n].file = f => e.plan[n].op = "extend"
         \/ \E n \in DOMAIN e.plan : e.plan[n].file # "short" /\ x \in Known(e.plan[n].rows)
  BY <1>6, <1>8
<1>11. QED
  BY <1>9, <1>10 DEF FoundInv, e

\* A write and its audit row.
LEMMA StepWrite ==
  ASSUME MemoryInv, NEW p \in Sides, Write(p)
  PROVE  MemoryInv'
<1> DEFINE d == proc[p]
           w == Head(d.plan)
           t == Tail(d.plan)
           r == [d EXCEPT !.plan = t]
           ops == {"append", "replace", "overwrite", "unlink"}
<1>1. NextIs(p, ops) /\ Put(w) /\ record(w) /\ Set(p, r) /\ UNCHANGED <<store, snapshots, world, history, left>>
  BY DEF Write
<1>2. /\ d.plan \in Seq(Writes) /\ d.plan # <<>> /\ w \in Writes /\ w = d.plan[1] /\ 1 \in DOMAIN d.plan /\ w.op \in ops
      /\ DOMAIN d = Fields /\ Busy(d) /\ SideInv(p, d) /\ WorldInv /\ FilesInv /\ DOMAIN proc = Sides
      /\ ~overlap => DistinctInv /\ AloneInv(d) /\ Distinct(w.file, Written(w)) /\ \A q \in Sides \ {p} : ~Busy(proc[q])
  BY <1>1, NextOf
<1>3. /\ t \in Seq(Writes) /\ Len(d.plan) \in Nat /\ Len(t) = Len(d.plan) - 1
      /\ \A n \in DOMAIN t : n \in Nat /\ n # 0 /\ n + 1 \in DOMAIN d.plan /\ t[n] = d.plan[n + 1]
      /\ Len(d.plan) # 1 => t # <<>>
  BY <1>2, TailOf
<1>4. /\ DOMAIN r = Fields /\ r.op = d.op /\ r.task = d.task /\ r.at = d.at /\ r.todo = d.todo /\ r.plan = t
      /\ r.found = d.found /\ r.label = d.label /\ r.scope = d.scope /\ r.copies = d.copies
  BY <1>2 DEF Fields
<1>5. overlap' = overlap /\ stopped' = stopped /\ reused' = reused /\ owed' = owed /\ snapshots' = snapshots
  BY <1>1 DEF history
<1> DEFINE l == Len(d.plan)
<1>6. w.op \in {"append", "replace"} <=> d.op # "restore"
  BY <1>2 DEF SideInv, Puts, Restores
<1>7. \A n \in DOMAIN t : n + 1 # 1 /\ (n + 1 = l <=> n = Len(t))
  <2> HIDE DEF l, t
  <2>1. \A n \in DOMAIN t : n \in Nat /\ n # 0
    BY <1>3
  <2>2. Len(t) = l - 1 /\ l \in Nat
    BY <1>3 DEF l
  <2>3. QED
    BY <2>1, <2>2
<1> HIDE DEF d, w, t, r, l
<1>8. DOMAIN audited' = TierFiles
  BY <1>1, <1>2 DEF record, FilesInv
<1>9. FilesInv' /\ (DistinctInv /\ Distinct(w.file, Written(w)) => DistinctInv')
  BY <1>1, <1>2, <1>5, <1>8, PutOf
<1>10. SideInv(p, r)
  <2>1. ASSUME NEW n \in DOMAIN t
        PROVE  /\ d.op # "restore" => t[n].op \in Puts
               /\ d.op = "restore" => t[n].op \in Restores
               /\ t[n].op = "rollback" <=> d.op = "restore" /\ n = Len(t)
               /\ t[n].op # "append"
    <3>1. n + 1 \in DOMAIN d.plan /\ t[n] = d.plan[n + 1] /\ n + 1 # 1 /\ (n + 1 = Len(d.plan) <=> n = Len(t))
      BY <1>3, <1>7 DEF l
    <3>2. /\ d.op # "restore" => d.plan[n + 1].op \in Puts
          /\ d.op = "restore" => d.plan[n + 1].op \in Restores
          /\ d.plan[n + 1].op = "rollback" <=> d.op = "restore" /\ n + 1 = Len(d.plan)
          /\ d.plan[n + 1].op = "append" => n + 1 = 1
      BY <1>2, <3>1 DEF SideInv
    <3>3. QED
      BY <3>1, <3>2
  <2>2. QED
    BY <1>2, <1>3, <1>4, <2>1 DEF SideInv, Busy
<1>11. proc'[p] = r
  BY <1>1, <1>2, SetOf
<1>12. ASSUME ~overlap PROVE AloneInv(proc[p])'
  <2>1. AloneInv(d)
    BY <1>2, <1>12
  <2>2. ASSUME NEW n \in DOMAIN t PROVE Distinct(t[n].file, t[n].rows) /\ t[n].op # "append"
    <3>1. t[n].op # "append" /\ n + 1 \in DOMAIN d.plan /\ t[n] = d.plan[n + 1]
      BY <1>3, <1>4, <1>7, <1>10, <1>2 DEF SideInv
    <3>2. Written(d.plan[n + 1]) = t[n].rows
      BY <3>1 DEF Written
    <3>3. Distinct(d.plan[n + 1].file, Written(d.plan[n + 1]))
      BY <2>1, <3>1 DEF AloneInv
    <3>4. QED
      BY <3>1, <3>2, <3>3
  <2>3. \A n \in DOMAIN proc'[p].plan : Distinct(proc'[p].plan[n].file, Written(proc[p].plan[n])')
    <3>1. proc'[p].plan = t
      BY <1>4, <1>11
    <3>2. ASSUME NEW n \in DOMAIN proc'[p].plan PROVE Distinct(proc'[p].plan[n].file, Written(proc[p].plan[n])')
      <4>1. Distinct(proc'[p].plan[n].file, proc'[p].plan[n].rows) /\ proc'[p].plan[n].op # "append"
        BY <2>2, <3>1
      <4>2. Written(proc[p].plan[n])' = proc'[p].plan[n].rows
        BY <4>1 DEF Written
      <4>3. QED
        BY <4>1, <4>2
    <3>3. QED
      BY <3>2
  <2>4. RestoreInv(proc[p])'
    <3>1. CASE d.op = "restore"
      <4>1. w.op \in {"overwrite", "unlink"} /\ RestoreInv(d)
        BY <1>2, <1>6, <2>1, <3>1 DEF AloneInv
      <4>2. QED
        BY <1>1, <1>2, <1>4, <1>5, <1>8, <1>11, <3>1, <4>1, WriteRestores DEF w, t
    <3>2. CASE d.op # "restore"
      BY <1>4, <1>11, <3>2 DEF RestoreInv
    <3>3. QED
      BY <3>1, <3>2
  <2>5. FoundInv(proc[p])'
    <3>1. CASE d.op = "cleanup"
      <4>1. FoundInv(d) /\ w.op # "extend"
        BY <1>2, <2>1 DEF AloneInv
      <4>2. QED
        BY <1>1, <1>2, <1>4, <1>5, <1>8, <1>11, <3>1, <4>1, WriteFinds DEF w, t
    <3>2. CASE d.op # "cleanup"
      BY <1>4, <1>11, <3>2 DEF FoundInv
    <3>3. QED
      BY <3>1, <3>2
  <2>6. QED
    BY <2>3, <2>4, <2>5 DEF AloneInv
<1>13. TrailInv'
  <2>1. ASSUME ~overlap, ~stopped PROVE audited' = tiers' \/ (proc'["operator"].op = "restore" /\ proc'["operator"].plan # <<>>)
    <3>1. CASE d.op = "restore"
      <4>1. p = "operator"
        BY <1>2, <3>1 DEF SideInv
      <4>2. Len(d.plan) # 1
        BY <1>2, <3>1, <1>6 DEF SideInv
      <4>3. QED
        BY <1>3, <1>4, <1>11, <3>1, <4>1, <4>2
    <3>2. CASE d.op # "restore"
      <4>1. proc["operator"].op # "restore"
        BY <1>2, <2>1, <3>2 DEF Sides, Busy, d
      <4>2. audited = tiers
        BY <2>1, <4>1 DEF MemoryInv, TrailInv
      <4>3. w.op \in {"append", "replace"}
        BY <1>6, <3>2
      <4>4. audited' = [audited EXCEPT ![w.file] = Written(w)] /\ tiers' = [tiers EXCEPT ![w.file] = Written(w)]
        BY <1>1, <4>3 DEF record, Put
      <4>5. QED
        BY <4>2, <4>4
    <3>3. QED
      BY <3>1, <3>2
  <2>2. QED
    BY <1>5, <2>1 DEF TrailInv
<1>14. WorldInv'
  BY <1>1, <1>2, <1>5 DEF WorldInv, world
<1>15. QED
  BY <1>1, <1>2, <1>5, <1>9, <1>10, <1>12, <1>13, <1>14, WorkStep

\* The last step of a restore: one row of the trail for all it did.
LEMMA StepRollback ==
  ASSUME MemoryInv, NEW p \in Sides, Rollback(p)
  PROVE  MemoryInv'
<1> DEFINE d == proc[p]
           w == Head(d.plan)
           r == [d EXCEPT !.plan = <<>>]
<1>1. NextIs(p, {"rollback"}) /\ audited' = tiers /\ Set(p, r)
        /\ UNCHANGED <<store, tiers, present, snapshots, world, history, left>>
  BY DEF Rollback
<1>2. /\ d.plan \in Seq(Writes) /\ d.plan # <<>> /\ w = d.plan[1] /\ 1 \in DOMAIN d.plan /\ w.op = "rollback"
      /\ DOMAIN d = Fields /\ Busy(d) /\ SideInv(p, d) /\ WorldInv /\ FilesInv /\ DOMAIN proc = Sides
      /\ ~overlap => DistinctInv /\ AloneInv(d) /\ \A q \in Sides \ {p} : ~Busy(proc[q])
  <2>1. w.op \in {"rollback"} => w.op = "rollback"
    OBVIOUS
  <2>2. QED
    BY <1>1, <2>1, NextOf
<1>3. DOMAIN r = Fields /\ r.op = d.op /\ r.plan = <<>> /\ r.label = d.label /\ r.copies = d.copies
  BY <1>2 DEF Fields
<1> HIDE DEF d, w, r
<1>4. d.op = "restore" /\ p = "operator" /\ Len(d.plan) = 1 /\ DOMAIN d.plan = {1}
  <2>1. d.op = "restore" /\ 1 = Len(d.plan)
    BY <1>2 DEF SideInv
  <2>2. DOMAIN d.plan = {1}
    BY <1>2, <2>1
  <2>3. QED
    BY <1>2, <2>1, <2>2 DEF SideInv
<1>5. overlap' = overlap /\ stopped' = stopped /\ reused' = reused /\ owed' = owed /\ snapshots' = snapshots
        /\ tiers' = tiers /\ present' = present
  BY <1>1 DEF history
<1>6. FilesInv' /\ (DistinctInv => DistinctInv')
  BY <1>1, <1>2, <1>5 DEF FilesInv, DistinctInv
<1>7. SideInv(p, r)
  <2>1. <<>> \in Seq(Writes) /\ DOMAIN <<>> = {}
    OBVIOUS
  <2>2. QED
    BY <1>2, <1>3, <1>4, <2>1 DEF SideInv, Busy
<1>8. proc'[p] = r
  BY <1>1, <1>2, SetOf
<1>9. ASSUME ~overlap PROVE AloneInv(proc[p])'
  <2>1. RestoreInv(d)
    BY <1>2, <1>9 DEF AloneInv
  <2>2. d.label \in DOMAIN snapshots /\ \A f \in TierFiles : Restored(f, snapshots[d.label])
    BY <1>2, <1>4, <2>1 DEF RestoreInv
  <2>3. DOMAIN <<>> = {}
    OBVIOUS
  <2>4. RestoreInv(proc[p])'
    BY <1>3, <1>5, <1>8, <2>2, <2>3 DEF RestoreInv, Restored
  <2>5. FoundInv(proc[p])' /\ \A n \in DOMAIN proc'[p].plan : Distinct(proc'[p].plan[n].file, Written(proc[p].plan[n])')
    BY <1>3, <1>4, <1>8, <2>3 DEF FoundInv
  <2>6. QED
    BY <2>4, <2>5 DEF AloneInv
<1>10. TrailInv'
  BY <1>1, <1>5 DEF TrailInv
<1>11. WorldInv'
  BY <1>1, <1>2, <1>5 DEF WorldInv, world
<1>12. QED
  BY <1>1, <1>2, <1>5, <1>6, <1>7, <1>9, <1>10, <1>11, WorkStep

\* The store is removed.
LEMMA StepPurge ==
  ASSUME MemoryInv, Purge
  PROVE  MemoryInv'
<1>1. /\ Enter("operator", Idle) /\ store' = FALSE /\ tiers' = Empty /\ present' = {} /\ audited' = Empty
      /\ snapshots' = <<>> /\ owed' = {} /\ UNCHANGED <<world, reused, stopped, left>>
  BY DEF Purge
<1>2. WorldInv /\ DOMAIN proc = Sides /\ "operator" \in Sides
  BY DEF MemoryInv, Sides
<1>3. /\ Set("operator", Idle) /\ overlap' = (overlap \/ \E q \in DOMAIN proc \ {"operator"} : proc[q].op \notin {"idle", "asking"})
  BY <1>1 DEF Enter
<1>4. DOMAIN Empty = TierFiles /\ (\A f \in TierFiles : Empty[f] = <<>>) /\ DOMAIN <<>> = {}
  BY DEF Empty
<1>5. FilesInv'
  <2>1. ASSUME NEW f \in TierFiles PROVE tiers'[f] \in Seq(RowsOf(f)) /\ tiers'[f] = <<>>
    <3>1. <<>> \in Seq(RowsOf(f))
      OBVIOUS
    <3>2. QED
      BY <1>1, <1>4, <3>1
  <2>2. QED
    BY <1>1, <1>4, <2>1 DEF FilesInv
<1>6. DistinctInv'
  <2>1. \A f \in TierFiles : Distinct(f, tiers'[f])
    BY <1>1, <1>4 DEF Distinct
  <2>2. QED
    BY <1>1, <1>4, <2>1 DEF DistinctInv
<1>7. TrailInv'
  BY <1>1 DEF TrailInv
<1>8. AloneInv(proc["operator"])'
  <2>1. proc'["operator"].plan = <<>> /\ proc'["operator"].op = "idle"
    BY <1>2, <1>3, SetOf, IdleOf
  <2>2. QED
    BY <1>4, <2>1 DEF AloneInv, RestoreInv, FoundInv
<1>9. WorldInv'
  <2>1. store' \in BOOLEAN /\ active' = active /\ now' = now /\ era' = era /\ reused' = reused /\ stopped' = stopped
          /\ left' = left /\ overlap' \in BOOLEAN
    BY <1>1, <1>2, <1>3 DEF world, WorldInv
  <2>2. QED
    BY <1>2, <2>1 DEF WorldInv
<1>10. ~overlap' => \A q \in Sides \ {"operator"} : ~Busy(proc[q])
  BY <1>2, <1>3 DEF Busy
<1>11. QED
  BY <1>2, <1>3, <1>5, <1>6, <1>7, <1>8, <1>9, <1>10, IdleOf, WorkStep
-----------------------------------------------------------------------------
(* What the snapshots hold.                                                  *)

\* The snapshots that are still being taken.
Open == {proc[p].label : p \in {q \in Sides : proc[q].copies # <<>>}}

\* Of such a one: a file is still to be copied, or it is in the snapshot as it stands.
CopyInv(d) ==
  /\ d.label \in DOMAIN before /\ before[d.label] = Restrict(tiers, present)
  /\ \A f \in TierFiles : IF f \in ToSet(d.copies) THEN f \in present ELSE Restored(f, snapshots[d.label])

\* What is owed is in a snapshot that nobody is taking; a snapshot that nobody cut short is the
\* store as it was when it began.
SnapInv ==
  ~overlap /\ ~reused =>
    /\ owed \subseteq UNION {Provenance(snapshots[l]) : l \in DOMAIN snapshots \ Open}
    /\ DOMAIN before \subseteq DOMAIN snapshots
    /\ \A l \in DOMAIN before \ Open : before[l] = [f \in DOMAIN snapshots[l] |-> snapshots[l][f]]
    /\ \A p \in Sides : proc[p].copies # <<>> => CopyInv(proc[p])

\* Who does not work copies nothing, and nobody copies beside one who works alone.
LEMMA NoCopier ==
  ASSUME MemoryInv, NEW p \in Sides
  PROVE  /\ ~Busy(proc[p]) => proc[p].copies = <<>>
         /\ Busy(proc[p]) /\ ~overlap => \A q \in Sides \ {p} : proc[q].copies = <<>>
<1>1. \A q \in Sides : SideInv(q, proc[q])
  BY DEF MemoryInv
<1>2. \A q \in Sides : ~Busy(proc[q]) => proc[q].copies = <<>>
  BY <1>1 DEF SideInv, Busy
<1>3. Busy(proc[p]) /\ ~overlap => \A q \in Sides \ {p} : ~Busy(proc[q])
  BY OneOf
<1>4. QED
  BY <1>2, <1>3

\* Who writes is done with copying.
LEMMA WriterAlone ==
  ASSUME MemoryInv, NEW p \in Sides, NEW ops, NextIs(p, ops), ~overlap
  PROVE  \A q \in Sides : proc[q].copies = <<>>
<1>1. Busy(proc[p]) /\ proc[p].copies = <<>>
  BY NextOf DEF NextIs
<1>2. QED
  BY <1>1, NoCopier

\* A pass of a cleanup sets what is left, a plan and a budget.
LEMMA PassSets ==
  ASSUME NEW q, CleanupPass(q)
  PROVE  \E todo, plan, budget : Set(q, [proc[q] EXCEPT !.todo = todo, !.plan = plan, !.budget = budget])
<1> DEFINE d == proc[q]
           n == CHOOSE i \in DOMAIN d.todo : /\ tiers[d.todo[i][2]] # <<>>
                                            /\ \A j \in 1..(i - 1) : tiers[d.todo[j][2]] = <<>>
           pass == d.todo[n]
           rows == tiers[pass[2]]
           b(cut) == [d.budget EXCEPT !.late = @ \/ (pass[1] = "duplicates" /\ cut < Len(rows))]
           r(cut) == CASE pass[1] = "expire" -> _expire_episodes(rows, b(cut), d.at)
                       [] pass[1] = "entities" -> _reconcile_entities(rows, tree, b(cut), cut)
                       [] pass[1] = "lessons" -> _reconcile_lessons(pass[2], rows, tree, b(cut), cut)
                       [] OTHER -> _merge_long_term_duplicates(pass[2], rows, b(cut))
           rest == SubSeq(d.todo, n + 1, Len(d.todo))
<1>1. \E cut : Set(q, [d EXCEPT !.todo = rest, !.plan = r(cut).plan, !.budget = r(cut).budget])
  BY DEF CleanupPass
<1> HIDE DEF r, rest
<1>2. QED
  BY <1>1

\* A step that takes nobody from his copying, and changes no file under one who copies.
LEMMA SnapKeeps ==
  ASSUME SnapInv, overlap => overlap', reused => reused', UNCHANGED <<snapshots, before, owed>>,
         \A q \in Sides : /\ proc'[q].copies = proc[q].copies
                          /\ proc[q].copies # <<>> => proc'[q].label = proc[q].label,
         ~overlap' => UNCHANGED <<tiers, present>> \/ \A q \in Sides : proc[q].copies = <<>>
  PROVE  SnapInv'
<1> SUFFICES ASSUME ~overlap', ~reused'
             PROVE  /\ owed' \subseteq UNION {Provenance(snapshots'[l]) : l \in DOMAIN snapshots' \ Open'}
                    /\ DOMAIN before' \subseteq DOMAIN snapshots'
                    /\ \A l \in DOMAIN before' \ Open' : before'[l] = [f \in DOMAIN snapshots'[l] |-> snapshots'[l][f]]
                    /\ \A p \in Sides : proc'[p].copies # <<>> => CopyInv(proc[p])'
  BY DEF SnapInv
<1>1. /\ owed \subseteq UNION {Provenance(snapshots[l]) : l \in DOMAIN snapshots \ Open}
      /\ DOMAIN before \subseteq DOMAIN snapshots
      /\ \A l \in DOMAIN before \ Open : before[l] = [f \in DOMAIN snapshots[l] |-> snapshots[l][f]]
      /\ \A p \in Sides : proc[p].copies # <<>> => CopyInv(proc[p])
  BY DEF SnapInv
<1>2. Open' = Open
  BY DEF Open
<1>3. \A l : Provenance(snapshots'[l]) = Provenance(snapshots[l])
  BY DEF Provenance
<1>4. ASSUME NEW p \in Sides, proc'[p].copies # <<>> PROVE CopyInv(proc[p])'
  <2>1. CopyInv(proc[p]) /\ proc'[p].copies = proc[p].copies /\ proc'[p].label = proc[p].label
          /\ tiers' = tiers /\ present' = present
    BY <1>1, <1>4
  <2>2. QED
    BY <2>1 DEF CopyInv, Restored
<1>5. QED
  BY <1>1, <1>2, <1>3, <1>4

\* One process goes on, or begins or ends with nothing to copy.
LEMMA SnapTurn ==
  ASSUME MemoryInv, SnapInv, NEW p \in Sides, NEW r, Set(p, r), r.copies = proc[p].copies,
         proc[p].copies # <<>> => r.label = proc[p].label, overlap => overlap',
         UNCHANGED <<snapshots, before, owed, reused>>,
         UNCHANGED <<tiers, present>> \/ (~overlap => \A q \in Sides : proc[q].copies = <<>>)
  PROVE  SnapInv'
<1>1. proc'[p] = r /\ \A q \in Sides : q # p => proc'[q] = proc[q]
  BY SetOf DEF MemoryInv
<1>2. QED
  BY <1>1, SnapKeeps

\* A process begins a snapshot of a new name.
LEMMA SnapBegins ==
  ASSUME MemoryInv, SnapInv, NEW p \in Sides, ~Busy(proc[p]), NEW r, Enter(p, r), NEW label, take_snapshot(label),
         r.label = label, r.copies = tier_files, present # {}, UNCHANGED <<tiers, present, owed>>
  PROVE  SnapInv'
<1>0. /\ DOMAIN snapshots' = DOMAIN snapshots \cup {label} /\ (~reused' => ~reused /\ label \notin DOMAIN snapshots)
      /\ \A l \in DOMAIN snapshots : snapshots'[l] = snapshots[l]
      /\ label \notin DOMAIN snapshots => snapshots'[label] = <<>>
      /\ DOMAIN before' = DOMAIN before \cup {label} /\ before'[label] = Restrict(tiers, present)
      /\ \A l \in DOMAIN before : l # label => before'[l] = before[l]
  BY DEF take_snapshot
<1> SUFFICES ASSUME ~overlap', ~reused'
             PROVE  /\ owed' \subseteq UNION {Provenance(snapshots'[l]) : l \in DOMAIN snapshots' \ Open'}
                    /\ DOMAIN before' \subseteq DOMAIN snapshots'
                    /\ \A l \in DOMAIN before' \ Open' : before'[l] = [f \in DOMAIN snapshots'[l] |-> snapshots'[l][f]]
                    /\ \A q \in Sides : proc'[q].copies # <<>> => CopyInv(proc[q])'
  BY DEF SnapInv
<1>1. FilesInv /\ DOMAIN proc = Sides /\ present \subseteq TierFiles
  BY DEF MemoryInv, FilesInv
<1>2. /\ Set(p, r) /\ (overlap => overlap') /\ ~(Busy(r) /\ \E q \in Sides \ {p} : Busy(proc[q]))
  BY <1>1, EnterOf
<1>3. proc'[p] = r /\ \A q \in Sides : q # p => proc'[q] = proc[q]
  BY <1>1, <1>2, SetOf
<1>4. ~reused /\ label \notin DOMAIN snapshots /\ ~overlap
  BY <1>0, <1>2
<1>5. \A q \in Sides : q # p => ~Busy(proc[q])
  <2>1. \A q \in Sides : q # p => q \in DOMAIN proc \ {p}
    BY <1>1
  <2>2. QED
    BY <2>1 DEF Enter, Busy
<1>6. \A q \in Sides : proc[q].copies = <<>>
  BY <1>5, NoCopier
<1>7. tier_files \in Seq(TierFiles) /\ (\A f \in TierFiles : f \in ToSet(tier_files) <=> f \in present)
  BY <1>1, FilesToCopy
<1>8. tier_files # <<>>
  <2>1. ToSet(<<>>) = {}
    BY DEF ToSet
  <2>2. QED
    BY <1>1, <1>7, <2>1
<1>9. Open = {} /\ Open' = {label}
  <2>1. {q \in Sides : proc'[q].copies # <<>>} = {p}
    BY <1>3, <1>6, <1>8
  <2>2. QED
    BY <1>3, <1>6, <2>1 DEF Open
<1>10. /\ owed \subseteq UNION {Provenance(snapshots[l]) : l \in DOMAIN snapshots}
       /\ DOMAIN before \subseteq DOMAIN snapshots
       /\ \A l \in DOMAIN before : before[l] = [f \in DOMAIN snapshots[l] |-> snapshots[l][f]]
  BY <1>4, <1>9 DEF SnapInv
<1>11. \A l \in DOMAIN snapshots : Provenance(snapshots'[l]) = Provenance(snapshots[l])
  BY <1>0 DEF Provenance
<1>12. owed' \subseteq UNION {Provenance(snapshots'[l]) : l \in DOMAIN snapshots' \ Open'}
  <2>1. ASSUME NEW x \in owed PROVE \E l \in DOMAIN snapshots' \ Open' : x \in Provenance(snapshots'[l])
    <3>1. PICK l \in DOMAIN snapshots : x \in Provenance(snapshots[l])
      BY <1>10
    <3>2. l \in DOMAIN snapshots' \ Open'
      BY <1>0, <1>4, <1>9
    <3>3. QED
      BY <1>11, <3>1, <3>2
  <2>2. QED
    BY <2>1
<1>13. ASSUME NEW l \in DOMAIN before' \ Open' PROVE before'[l] = [f \in DOMAIN snapshots'[l] |-> snapshots'[l][f]]
  <2>1. l \in DOMAIN before /\ l # label /\ l \in DOMAIN snapshots
    BY <1>0, <1>9, <1>10
  <2>2. before'[l] = before[l] /\ snapshots'[l] = snapshots[l]
    BY <1>0, <2>1
  <2>3. QED
    BY <1>10, <2>1, <2>2
<1>14. CopyInv(proc[p])'
  <2>1. proc'[p].label = label /\ proc'[p].copies = tier_files /\ snapshots'[label] = <<>> /\ DOMAIN <<>> = {}
    BY <1>0, <1>3, <1>4
  <2>2. label \in DOMAIN before' /\ before'[label] = Restrict(tiers', present')
    BY <1>0
  <2>3. QED
    BY <1>7, <2>1, <2>2 DEF CopyInv, Restored
<1>15. QED
  BY <1>0, <1>3, <1>6, <1>10, <1>12, <1>13, <1>14

\* The next file is copied, the last one perhaps.
LEMMA SnapCopies ==
  ASSUME MemoryInv, SnapInv, NEW p \in Sides, CopyFile(p)
  PROVE  SnapInv'
<1> DEFINE d == proc[p]
           tier == Head(d.copies)
           rest == Tail(d.copies)
           r == [d EXCEPT !.copies = rest]
           label == d.label
<1> SUFFICES ASSUME ~overlap', ~reused'
             PROVE  /\ owed' \subseteq UNION {Provenance(snapshots'[l]) : l \in DOMAIN snapshots' \ Open'}
                    /\ DOMAIN before' \subseteq DOMAIN snapshots'
                    /\ \A l \in DOMAIN before' \ Open' : before'[l] = [f \in DOMAIN snapshots'[l] |-> snapshots'[l][f]]
                    /\ \A q \in Sides : proc'[q].copies # <<>> => CopyInv(proc[q])'
  BY DEF SnapInv
<1>1. /\ d.copies # <<>> /\ (tier \in present => Capture(label, tier, tiers[tier]))
      /\ owed' = IF rest = <<>> THEN owed \cup Provenance(tiers) ELSE owed
      /\ Set(p, r) /\ UNCHANGED <<store, tiers, present, audited, world, before, overlap, reused, stopped, left>>
  BY DEF CopyFile
<1>2. /\ tier \in TierFiles /\ rest \in Seq(TierFiles) /\ d.copies \in Seq(TierFiles)
      /\ Busy(d) /\ DOMAIN d = Fields /\ FilesInv /\ DOMAIN proc = Sides /\ ~overlap /\ ~reused
  BY <1>1, CopierOf
<1>3. r.label = label /\ r.copies = rest
  BY <1>2 DEF Fields
<1>4. \A f : f \in ToSet(d.copies) <=> f = tier \/ f \in ToSet(rest)
  <2> DEFINE s == d.copies
  <2>1. s \in Seq(TierFiles) /\ s # <<>>
    BY <1>1, <1>2
  <2> HIDE DEF s
  <2>2. /\ Head(s) = s[1] /\ 1 \in DOMAIN s
        /\ \A n \in DOMAIN Tail(s) : n + 1 \in DOMAIN s /\ Tail(s)[n] = s[n + 1]
        /\ \A n \in DOMAIN s : n # 1 => n - 1 \in DOMAIN Tail(s) /\ Tail(s)[n - 1] = s[n]
    BY <2>1, TailOf
  <2>3. \A f : f \in ToSet(s) <=> \E n \in DOMAIN s : s[n] = f
    BY DEF ToSet
  <2>4. \A f : f \in ToSet(Tail(s)) <=> \E n \in DOMAIN Tail(s) : Tail(s)[n] = f
    BY DEF ToSet
  <2>5. QED
    BY <2>2, <2>3, <2>4 DEF s
<1>5. \A q \in Sides : q # p => proc[q].copies = <<>>
  BY <1>2, NoCopier
<1> HIDE DEF r, rest, tier
<1>6. proc'[p] = r /\ \A q \in Sides : q # p => proc'[q] = proc[q]
  BY <1>1, <1>2, SetOf
<1>7. Open = {label}
  <2>1. {q \in Sides : proc[q].copies # <<>>} = {p}
    BY <1>1, <1>5
  <2>2. QED
    BY <2>1 DEF Open
<1>8. Open' = IF rest = <<>> THEN {} ELSE {label}
  <2>1. {q \in Sides : proc'[q].copies # <<>>} = IF rest = <<>> THEN {} ELSE {p}
    BY <1>3, <1>5, <1>6
  <2>2. QED
    BY <1>3, <1>6, <2>1 DEF Open
<1>9. /\ owed \subseteq UNION {Provenance(snapshots[l]) : l \in DOMAIN snapshots \ {label}}
      /\ DOMAIN before \subseteq DOMAIN snapshots
      /\ \A l \in DOMAIN before \ {label} : before[l] = [f \in DOMAIN snapshots[l] |-> snapshots[l][f]]
      /\ CopyInv(d)
  BY <1>1, <1>2, <1>7 DEF SnapInv
<1>10. label \in DOMAIN before /\ label \in DOMAIN snapshots /\ before[label] = Restrict(tiers, present)
         /\ \A f \in TierFiles : IF f \in ToSet(d.copies) THEN f \in present ELSE Restored(f, snapshots[label])
  BY <1>9 DEF CopyInv
<1>11. tier \in present
  BY <1>2, <1>4, <1>10
<1> DEFINE old == snapshots[label]
           new == snapshots'[label]
<1>12. /\ DOMAIN snapshots' = DOMAIN snapshots
       /\ \A l \in DOMAIN snapshots : l # label => snapshots'[l] = snapshots[l]
       /\ tier \in DOMAIN new /\ new[tier] = tiers[tier]
       /\ \A f \in DOMAIN new : f # tier => f \in DOMAIN old /\ new[f] = old[f]
       /\ \A f \in DOMAIN old : f \in DOMAIN new
  <2>1. Capture(label, tier, tiers[tier])
    BY <1>1, <1>11
  <2> HIDE DEF label
  <2>2. QED
    BY <1>10, <2>1, CaptureOf
<1> HIDE DEF old, new, label, d
<1>13. \A f \in TierFiles :
         IF f \in ToSet(rest) THEN f \in present
         ELSE IF f \in DOMAIN new THEN f \in present /\ tiers[f] = new[f] ELSE f \notin present
  BY <1>4, <1>10, <1>11, <1>12 DEF Restored, old
<1>14. DOMAIN new \subseteq TierFiles /\ present \subseteq TierFiles /\ DOMAIN tiers = TierFiles
  BY <1>2, <1>10, <1>12 DEF FilesInv, old
<1>15. rest = <<>> => before[label] = [f \in DOMAIN new |-> new[f]] /\ DOMAIN new = present /\ \A f \in present : new[f] = tiers[f]
  <2>1. ASSUME rest = <<>> PROVE DOMAIN new = present /\ \A f \in present : new[f] = tiers[f]
    <3>1. ToSet(<<>>) = {}
      BY DEF ToSet
    <3>2. QED
      BY <1>13, <1>14, <2>1, <3>1
  <2>2. Restrict(tiers, present) = [f \in present |-> tiers[f]]
    BY DEF Restrict
  <2>3. QED
    BY <1>10, <2>1, <2>2
<1>16. \A l \in DOMAIN snapshots \ {label} : Provenance(snapshots'[l]) = Provenance(snapshots[l])
  BY <1>12 DEF Provenance
<1>17. ASSUME NEW x \in owed' PROVE \E l \in DOMAIN snapshots' \ Open' : x \in Provenance(snapshots'[l])
  <2>1. CASE x \in owed
    <3>1. PICK l \in DOMAIN snapshots \ {label} : x \in Provenance(snapshots[l])
      BY <1>9, <2>1
    <3>2. l \in DOMAIN snapshots' \ Open'
      BY <1>8, <1>12
    <3>3. QED
      BY <1>16, <3>1, <3>2
  <2>2. CASE x \in Provenance(tiers) /\ rest = <<>>
    <3>1. PICK f \in DOMAIN tiers \ {"short"} : x \in Known(tiers[f])
      BY <2>2, ProvenanceOf
    <3>2. tiers[f] # <<>>
      BY <3>1 DEF Known
    <3>3. f \in present
      BY <1>2, <3>1, <3>2 DEF FilesInv
    <3>4. f \in DOMAIN new \ {"short"} /\ x \in Known(new[f])
      BY <1>15, <2>2, <3>1, <3>3
    <3>5. x \in Provenance(new)
      BY <3>4, ProvenanceOf
    <3>6. label \in DOMAIN snapshots' \ Open' /\ Provenance(new) = Provenance(snapshots'[label])
      BY <1>8, <1>10, <1>12, <2>2 DEF new
    <3>7. QED
      BY <3>5, <3>6
  <2>3. QED
    BY <1>1, <2>1, <2>2
<1>18. ASSUME NEW l \in DOMAIN before' \ Open' PROVE before'[l] = [f \in DOMAIN snapshots'[l] |-> snapshots'[l][f]]
  <2>1. l \in DOMAIN before /\ before' = before /\ l \in DOMAIN snapshots
    BY <1>1, <1>9
  <2>2. CASE l = label
    BY <1>8, <1>15, <2>1, <2>2 DEF new
  <2>3. CASE l # label
    <3>1. snapshots'[l] = snapshots[l]
      BY <1>12, <2>1, <2>3
    <3>2. QED
      BY <1>9, <2>1, <2>3, <3>1
  <2>4. QED
    BY <2>2, <2>3
<1>19. ASSUME NEW q \in Sides, proc'[q].copies # <<>> PROVE CopyInv(proc[q])'
  <2>1. q = p /\ proc'[q].label = label /\ proc'[q].copies = rest
    BY <1>3, <1>5, <1>6, <1>19
  <2>2. label \in DOMAIN before' /\ before'[label] = Restrict(tiers', present')
    BY <1>1, <1>10
  <2>3. tiers' = tiers /\ present' = present
    BY <1>1
  <2>4. QED
    BY <1>13, <2>1, <2>2, <2>3 DEF CopyInv, Restored, new
<1>20. DOMAIN before' \subseteq DOMAIN snapshots'
  BY <1>1, <1>9, <1>12
<1>21. QED
  BY <1>17, <1>18, <1>19, <1>20

\* A process dies, while it copies perhaps: then its snapshot is one cut short.
LEMMA SnapDies ==
  ASSUME MemoryInv, SnapInv, NEW p \in Sides, Set(p, Idle), CutShort(p), UNCHANGED <<owed, overlap, reused>>,
         \A l \in DOMAIN snapshots : l \in DOMAIN snapshots' /\ (l \notin Open => snapshots'[l] = snapshots[l]),
         Busy(proc[p]) \/ UNCHANGED <<tiers, present, snapshots>>
  PROVE  SnapInv'
<1> DEFINE d == proc[p]
<1> SUFFICES ASSUME ~overlap', ~reused'
             PROVE  /\ owed' \subseteq UNION {Provenance(snapshots'[l]) : l \in DOMAIN snapshots' \ Open'}
                    /\ DOMAIN before' \subseteq DOMAIN snapshots'
                    /\ \A l \in DOMAIN before' \ Open' : before'[l] = [f \in DOMAIN snapshots'[l] |-> snapshots'[l][f]]
                    /\ \A q \in Sides : proc'[q].copies # <<>> => CopyInv(proc[q])'
  BY DEF SnapInv
<1>1. DOMAIN proc = Sides
  BY DEF MemoryInv
<1>2. proc'[p] = Idle /\ Idle.copies = <<>> /\ \A q \in Sides : q # p => proc'[q] = proc[q]
  BY <1>1, SetOf, IdleOf
<1>3. CASE Busy(d)
  <2>1. \A q \in Sides : q # p => proc[q].copies = <<>>
    BY <1>3, NoCopier
  <2>2. \A q \in Sides : proc'[q].copies = <<>>
    BY <1>2, <2>1
  <2>3. Open' = {} /\ Open = IF d.copies = <<>> THEN {} ELSE {d.label}
    <3>1. {q \in Sides : proc'[q].copies # <<>>} = {}
      BY <2>2
    <3>2. {q \in Sides : proc[q].copies # <<>>} = IF d.copies = <<>> THEN {} ELSE {p}
      BY <2>1
    <3>3. QED
      BY <3>1, <3>2 DEF Open
  <2>4. DOMAIN before' = DOMAIN before \ Open /\ \A l \in DOMAIN before' : before'[l] = before[l]
    BY <2>3 DEF CutShort, Restrict
  <2>5. /\ owed \subseteq UNION {Provenance(snapshots[l]) : l \in DOMAIN snapshots \ Open}
        /\ DOMAIN before \subseteq DOMAIN snapshots
        /\ \A l \in DOMAIN before \ Open : before[l] = [f \in DOMAIN snapshots[l] |-> snapshots[l][f]]
    BY DEF SnapInv
  <2>6. \A l \in DOMAIN snapshots \ Open : Provenance(snapshots'[l]) = Provenance(snapshots[l])
    BY DEF Provenance
  <2> HIDE DEF d
  <2>7. ASSUME NEW x \in owed' PROVE \E l \in DOMAIN snapshots' \ Open' : x \in Provenance(snapshots'[l])
    <3>1. PICK l \in DOMAIN snapshots \ Open : x \in Provenance(snapshots[l])
      BY <2>5
    <3>2. QED
      BY <2>3, <2>6, <3>1
  <2>8. QED
    BY <2>2, <2>4, <2>5, <2>7
<1>4. CASE ~Busy(d)
  <2>1. d.copies = <<>>
    BY <1>4, NoCopier
  <2>2. before' = before
    BY <2>1 DEF CutShort
  <2>3. SnapInv'
    BY <1>2, <1>4, <2>1, <2>2, SnapTurn
  <2>4. QED
    BY <2>3 DEF SnapInv
<1>5. QED
  BY <1>3, <1>4

\* The snapshots keep up with every step.
LEMMA SnapAll == MemoryInv /\ SnapInv /\ [MemNext]_memVars => SnapInv'
<1> SUFFICES ASSUME MemoryInv, SnapInv, [MemNext]_memVars PROVE SnapInv'
  OBVIOUS
<1>1. /\ DOMAIN proc = Sides /\ "daemon" \in Sides /\ "operator" \in Sides
      /\ \A q \in Sides : DOMAIN proc[q] = Fields /\ (~Busy(proc[q]) => proc[q].copies = <<>>)
  BY NoCopier DEF MemoryInv, Sides, SideInv
<1>2. CASE UNCHANGED memVars \/ (\E t \in Tasks : TaskStarts(t)) \/ TaskEnds \/ Tick \/ Move
  <2>1. UNCHANGED <<proc, tiers, present, snapshots, before, owed, overlap, reused>>
    BY <1>2 DEF memVars, TaskStarts, TaskEnds, Tick, Move, disk, history
  <2>2. QED
    BY <2>1, SnapKeeps
<1>3. ASSUME NEW delta, NEW failed, _write_memory(delta, failed) PROVE SnapInv'
  <2> DEFINE r == [Idle EXCEPT !.op = IF failed THEN "failure" ELSE "success", !.task = active, !.at = now,
                               !.todo = IF failed THEN <<>> ELSE parse_delta(delta),
                               !.plan = <<_append_row("short", EpisodeRecord(active, now))>>]
  <2>1. Enter("daemon", r) /\ r.copies = <<>>
    BY <1>3 DEF _write_memory, Idle
  <2> HIDE DEF r
  <2>2. proc["daemon"].copies = <<>> /\ UNCHANGED <<tiers, present, snapshots, before, owed, reused>>
    BY <1>1, <1>3 DEF _write_memory, Busy
  <2>3. QED
    BY <1>1, <2>1, <2>2, EnterOf, SnapTurn
<1>4. CASE apply_delta
  <2>1. PICK todo, plan : Set("daemon", [proc["daemon"] EXCEPT !.todo = todo, !.plan = plan])
    BY <1>4 DEF apply_delta
  <2> DEFINE r == [proc["daemon"] EXCEPT !.todo = todo, !.plan = plan]
  <2>2. r.copies = proc["daemon"].copies /\ r.label = proc["daemon"].label
    BY <1>1 DEF Fields
  <2>3. Set("daemon", r) /\ UNCHANGED <<tiers, present, snapshots, before, owed, overlap, reused>>
    BY <1>4, <2>1 DEF apply_delta, disk, history
  <2> HIDE DEF r
  <2>4. QED
    BY <1>1, <2>2, <2>3, SnapTurn
<1>5. ASSUME NEW p \in Sides, NEW full, run_once(p, full), proc[p].op = "idle", present # {},
             UNCHANGED <<tiers, present, owed>>
      PROVE  SnapInv'
  <2> DEFINE r == [Idle EXCEPT !.op = "cleanup", !.budget = Budget(full), !.todo = Passes,
                               !.found = Provenance(tiers), !.at = now,
                               !.label = <<"cleanup", now>>, !.copies = tier_files]
  <2>1. Enter(p, r) /\ r.label = <<"cleanup", now>> /\ r.copies = tier_files
    BY <1>5 DEF run_once, Idle
  <2> HIDE DEF r
  <2>2. take_snapshot(<<"cleanup", now>>) /\ ~Busy(proc[p])
    BY <1>5 DEF run_once, Busy
  <2>3. QED
    BY <1>5, <2>1, <2>2, SnapBegins
<1>6. CASE _build_cleanup_hook
  BY <1>1, <1>5, <1>6 DEF _build_cleanup_hook
<1>7. CASE _cmd_memory_compact
  BY <1>1, <1>5, <1>7 DEF _cmd_memory_compact, Commands
<1>8. CASE clear
  <2> DEFINE files == {f \in UNION {FilesOf(t) : t \in proc["operator"].scope} : tiers[f] # <<>>}
             r == [Idle EXCEPT !.op = "clear", !.label = <<"clear", now>>, !.copies = tier_files,
                               !.plan = Mapped(SetToSeq(files), LAMBDA f : _replace_rows(f, <<>>))]
  <2>1. Enter("operator", r) /\ r.label = <<"clear", now>> /\ r.copies = tier_files
    BY <1>8 DEF clear, Idle
  <2> HIDE DEF r, files
  <2>2. take_snapshot(<<"clear", now>>) /\ ~Busy(proc["operator"]) /\ UNCHANGED <<tiers, present, owed>>
    BY <1>8 DEF clear, Busy
  <2>3. present # {}
    <3>1. PICK f \in UNION {FilesOf(t) : t \in proc["operator"].scope} : tiers[f] # <<>>
      BY <1>8 DEF clear
    <3>2. f \in TierFiles
      <4>1. proc["operator"].scope \subseteq MemoryTier
        BY <1>1, <1>8 DEF clear, MemoryInv, SideInv
      <4>2. \A t \in MemoryTier : FilesOf(t) \subseteq TierFiles
        BY DEF MemoryTier, FilesOf, TierFiles
      <4>3. QED
        BY <4>1, <4>2
    <3>3. QED
      BY <3>1, <3>2 DEF MemoryInv, FilesInv
  <2>4. QED
    BY <1>1, <2>1, <2>2, <2>3, SnapBegins
<1>9. CASE _cmd_memory_restore \/ _cmd_memory_clear
  <2>1. \E r : (Enter("operator", r) \/ (Set("operator", r) /\ overlap' = overlap)) /\ r.copies = <<>>
    <3>1. CASE _cmd_memory_restore
      <4>1. PICK label : Enter("operator", [Idle EXCEPT !.op = "restore", !.label = label, !.plan = restore(label)])
        BY <3>1 DEF _cmd_memory_restore
      <4>2. [Idle EXCEPT !.op = "restore", !.label = label, !.plan = restore(label)].copies = <<>>
        BY DEF Idle
      <4>3. QED
        BY <4>1, <4>2
    <3>2. CASE _cmd_memory_clear
      <4>1. PICK scope : Set("operator", [Idle EXCEPT !.op = "asking", !.scope = scope])
        BY <3>2 DEF _cmd_memory_clear
      <4>2. [Idle EXCEPT !.op = "asking", !.scope = scope].copies = <<>>
        BY DEF Idle
      <4>3. overlap' = overlap
        BY <3>2 DEF _cmd_memory_clear, history
      <4>4. QED
        BY <4>1, <4>2, <4>3
    <3>3. QED
      BY <1>9, <3>1, <3>2
  <2>0. PICK r : (Enter("operator", r) \/ (Set("operator", r) /\ overlap' = overlap)) /\ r.copies = <<>>
    BY <2>1
  <2>2. proc["operator"].copies = <<>> /\ UNCHANGED <<tiers, present, snapshots, before, owed, reused>>
    BY <1>1, <1>9 DEF _cmd_memory_restore, _cmd_memory_clear, Commands, Busy, disk, history
  <2>3. Set("operator", r) /\ (overlap => overlap')
    BY <1>1, <2>0, EnterOf
  <2>4. QED
    BY <1>1, <2>0, <2>2, <2>3, SnapTurn
<1>10. ASSUME NEW p \in Sides, CleanupPass(p) PROVE SnapInv'
  <2>1. \E todo, plan, budget : Set(p, [proc[p] EXCEPT !.todo = todo, !.plan = plan, !.budget = budget])
    BY <1>10, PassSets
  <2>2. PICK todo, plan, budget : Set(p, [proc[p] EXCEPT !.todo = todo, !.plan = plan, !.budget = budget])
    BY <2>1
  <2> DEFINE r == [proc[p] EXCEPT !.todo = todo, !.plan = plan, !.budget = budget]
  <2>3. r.copies = proc[p].copies /\ r.label = proc[p].label
    BY <1>1 DEF Fields
  <2>4. Set(p, r) /\ UNCHANGED <<tiers, present, snapshots, before, owed, overlap, reused>>
    BY <1>10, <2>2 DEF CleanupPass, disk, history
  <2> HIDE DEF r
  <2>5. QED
    BY <2>3, <2>4, SnapTurn
<1>11. ASSUME NEW p \in Sides, Write(p) \/ ReadQuarantine(p) \/ Rollback(p) PROVE SnapInv'
  <2>1. PICK plan : Set(p, [proc[p] EXCEPT !.plan = plan])
    BY <1>11 DEF Write, ReadQuarantine, Rollback
  <2> DEFINE r == [proc[p] EXCEPT !.plan = plan]
  <2>2. r.copies = proc[p].copies /\ r.label = proc[p].label
    BY <1>1 DEF Fields
  <2>3. Set(p, r) /\ UNCHANGED <<snapshots, before, owed, overlap, reused>> /\ \E ops : NextIs(p, ops)
    BY <1>11, <2>1 DEF Write, ReadQuarantine, Rollback, disk, history
  <2>4. ~overlap => \A q \in Sides : proc[q].copies = <<>>
    BY <2>3, WriterAlone
  <2> HIDE DEF r
  <2>5. QED
    BY <2>2, <2>3, <2>4, SnapTurn
<1>12. ASSUME NEW p \in Sides, DieBeforeRecord(p) PROVE SnapInv'
  <2>1. Set(p, Idle) /\ UNCHANGED <<snapshots, before, owed, overlap, reused>> /\ NextIs(p, {"append", "replace"})
    BY <1>12 DEF DieBeforeRecord
  <2>2. proc[p].copies = <<>> /\ Idle.copies = <<>>
    BY <2>1, IdleOf DEF NextIs
  <2>3. ~overlap => \A q \in Sides : proc[q].copies = <<>>
    BY <2>1, WriterAlone
  <2>4. QED
    BY <2>1, <2>2, <2>3, SnapTurn
<1>13. ASSUME NEW p \in Sides, DieInside(p) PROVE SnapInv'
  <2>1. Set(p, Idle) /\ CutShort(p) /\ UNCHANGED <<owed, overlap, reused>>
    BY <1>13 DEF DieInside
  <2>2. CASE proc[p].copies # <<>> /\ Capture(proc[p].label, Head(proc[p].copies), <<>>)
    <3>1. Busy(proc[p]) /\ proc[p].label \in Open
      BY <2>2, CopierOf DEF Open
    <3>2. \A l \in DOMAIN snapshots : l \in DOMAIN snapshots' /\ (l # proc[p].label => snapshots'[l] = snapshots[l])
      BY <2>2, CaptureOf
    <3>3. QED
      BY <2>1, <3>1, <3>2, SnapDies
  <2>3. CASE NextIs(p, {"overwrite"}) /\ snapshots' = snapshots
    <3>1. Busy(proc[p])
      BY <2>3, NextOf
    <3>2. QED
      BY <2>1, <2>3, <3>1, SnapDies
  <2>4. QED
    BY <1>13, <2>2, <2>3 DEF DieInside
<1>14. ASSUME NEW p \in Sides, Finish(p) \/ (p = "operator" /\ Declined) PROVE SnapInv'
  <2>1. Set(p, Idle) /\ UNCHANGED <<tiers, present, snapshots, before, owed, overlap, reused>>
    BY <1>14 DEF Finish, Declined, disk, history
  <2>2. proc[p].copies = <<>> /\ Idle.copies = <<>>
    BY <1>1, <1>14, IdleOf DEF Finish, Finished, Declined, Busy
  <2>3. QED
    BY <2>1, <2>2, SnapTurn
<1>15. ASSUME NEW p \in Sides, Die(p) PROVE SnapInv'
  <2>1. Set(p, Idle) /\ CutShort(p) /\ UNCHANGED <<tiers, present, snapshots, owed, overlap, reused>>
    BY <1>15 DEF Die, disk
  <2>2. QED
    BY <2>1, SnapDies
<1>16. CASE Purge
  <2>1. /\ Enter("operator", Idle) /\ snapshots' = <<>> /\ owed' = {} /\ before' = <<>>
    BY <1>16 DEF Purge
  <2>2. ~overlap' => \A q \in Sides : q # "operator" => ~Busy(proc[q])
    BY <1>1, <2>1 DEF Enter, Busy
  <2>3. proc'["operator"] = Idle /\ \A q \in Sides : q # "operator" => proc'[q] = proc[q]
    BY <1>1, <2>1, SetOf DEF Enter
  <2>4. ~overlap' => \A q \in Sides : proc'[q].copies = <<>>
    BY <1>1, <2>2, <2>3, IdleOf
  <2>5. DOMAIN before' = {} /\ DOMAIN snapshots' = {}
    BY <2>1
  <2>6. QED
    BY <2>1, <2>4, <2>5 DEF SnapInv
<1>17. QED
  BY <1>1, <1>2, <1>3, <1>4, <1>6, <1>7, <1>8, <1>9, <1>10, <1>11, <1>12, <1>13, <1>14, <1>15, <1>16, SnapCopies DEF MemNext

-----------------------------------------------------------------------------
(* The theorems.                                                             *)

\* The invariant holds of a store that is not there yet.
LEMMA MemoryStarts == MemInit => MemoryInv
<1> SUFFICES ASSUME MemInit PROVE MemoryInv
  OBVIOUS
<1>1. /\ store = FALSE /\ tiers = Empty /\ present = {} /\ audited = Empty /\ snapshots = <<>>
      /\ now = 0 /\ era = 1 /\ active = None /\ proc = [p \in Sides |-> Idle]
      /\ owed = {} /\ overlap = FALSE /\ reused = FALSE /\ stopped = FALSE
      /\ left = [finals |-> MaxFinals, cleanups |-> MaxCleanups, commands |-> MaxCommands, stops |-> MaxStops]
  BY DEF MemInit, Sides
<1>2. DOMAIN proc = Sides /\ \A p \in Sides : proc[p] = Idle
  BY <1>1
<1>3. DOMAIN Empty = TierFiles /\ (\A f \in TierFiles : Empty[f] = <<>>) /\ DOMAIN <<>> = {}
  BY DEF Empty
<1>4. WorldInv
  <2>1. MaxTime \in Nat /\ Len(Trees) \in Nat /\ Len(Trees) # 0 /\ {MaxFinals, MaxCleanups, MaxCommands, MaxStops} \subseteq Int
    BY StoreAssumption
  <2>2. era \in 1..Len(Trees)
    <3> DEFINE l == Len(Trees)
    <3>1. l \in Nat /\ l # 0
      BY <2>1
    <3> HIDE DEF l
    <3>2. 1 \in 1..l
      BY <3>1
    <3>3. QED
      BY <1>1, <3>2 DEF l
  <2>3. left \in [{"finals", "cleanups", "commands", "stops"} -> Int]
    BY <1>1, <2>1
  <2>4. now \in 0..MaxTime
    BY <1>1, <2>1
  <2>5. QED
    BY <1>1, <2>2, <2>3, <2>4 DEF WorldInv
<1>5. FilesInv
  <2>1. ASSUME NEW f \in TierFiles PROVE tiers[f] \in Seq(RowsOf(f)) /\ tiers[f] = <<>>
    <3>1. <<>> \in Seq(RowsOf(f))
      OBVIOUS
    <3>2. QED
      BY <1>1, <1>3, <3>1
  <2>2. QED
    BY <1>1, <1>3, <2>1 DEF FilesInv
<1>6. DistinctInv
  <2>1. \A f \in TierFiles : Distinct(f, tiers[f])
    BY <1>1, <1>3 DEF Distinct
  <2>2. QED
    BY <1>1, <1>3, <2>1 DEF DistinctInv
<1>7. \A p \in Sides : SideInv(p, proc[p]) /\ AloneInv(proc[p]) /\ ~Busy(proc[p])
  <2>1. \A p \in Sides : SideInv(p, Idle)
    BY IdleOf
  <2>2. ~Busy(Idle)
    BY IdleOf DEF Busy
  <2>3. \A p \in Sides : AloneInv(Idle)
    BY <2>1, <2>2, RestAlone
  <2>4. QED
    BY <1>2, <2>1, <2>2, <2>3
<1>8. TrailInv
  BY <1>1 DEF TrailInv
<1>9. ~(Busy(proc["daemon"]) /\ Busy(proc["operator"]))
  BY <1>7 DEF Sides
<1>10. QED
  BY <1>2, <1>4, <1>5, <1>6, <1>7, <1>8, <1>9 DEF MemoryInv

\* Every step keeps it.
LEMMA MemoryStep == MemoryInv /\ [MemNext]_memVars => MemoryInv'
<1> SUFFICES ASSUME MemoryInv, [MemNext]_memVars PROVE MemoryInv'
  OBVIOUS
<1>1. DOMAIN proc = Sides /\ WorldInv
  BY DEF MemoryInv
<1>2. CASE UNCHANGED memVars
  <2>1. UNCHANGED <<tiers, present, audited, snapshots, proc, overlap, stopped>>
    BY <1>2 DEF memVars
  <2>2. WorldInv'
    BY <1>1, <1>2 DEF WorldInv, memVars
  <2>3. QED
    BY <2>1, <2>2, WorldStep
<1>3. CASE (\E t \in Tasks : TaskStarts(t)) \/ TaskEnds \/ Tick \/ Move
  BY <1>3, StepWorld
<1>4. ASSUME NEW delta \in Deltas, _write_memory(delta, FALSE) PROVE MemoryInv'
  <2>1. delta \in Seq(RawItem)
    BY StoreAssumption
  <2>2. QED
    BY <1>4, <2>1, StepFinal
<1>5. CASE _write_memory(<<>>, TRUE)
  <2>1. <<>> \in Seq(RawItem)
    OBVIOUS
  <2>2. QED
    BY <1>5, <2>1, StepFinal
<1>6. CASE apply_delta
  BY <1>6, StepDelta
<1>7. CASE _build_cleanup_hook
  BY <1>7, StepHook
<1>8. ASSUME NEW p \in DOMAIN proc,
             \/ CopyFile(p) \/ CleanupPass(p) \/ Write(p) \/ DieBeforeRecord(p) \/ DieInside(p)
             \/ ReadQuarantine(p) \/ Rollback(p) \/ Finish(p) \/ Die(p)
      PROVE  MemoryInv'
  <2>1. p \in Sides
    BY <1>1
  <2>2. CASE CleanupPass(p)
    BY <2>1, <2>2, StepPass
  <2>3. CASE Write(p)
    BY <2>1, <2>3, StepWrite
  <2>4. CASE DieBeforeRecord(p) \/ DieInside(p)
    BY <2>1, <2>4, StepDie, StepInside
  <2>5. CASE ReadQuarantine(p)
    BY <2>1, <2>5, StepRead
  <2>6. CASE Rollback(p)
    BY <2>1, <2>6, StepRollback
  <2>7. CASE Finish(p) \/ Die(p)
    BY <2>1, <2>7, StepIdle
  <2>8. CASE CopyFile(p)
    BY <2>1, <2>8, StepCopy
  <2>9. QED
    BY <1>8, <2>2, <2>3, <2>4, <2>5, <2>6, <2>7, <2>8
<1>9. CASE _cmd_memory_compact
  BY <1>9, StepCompact
<1>10. CASE _cmd_memory_restore
  BY <1>10, StepRestore
<1>11. CASE _cmd_memory_clear
  BY <1>11, StepAsk
<1>12. CASE clear
  BY <1>12, StepClear
<1>13. CASE Purge
  BY <1>13, StepPurge
<1>14. CASE Declined
  <2>1. "operator" \in Sides
    BY DEF Sides
  <2>2. QED
    BY <1>14, <2>1, StepIdle
<1>15. QED
  BY <1>2, <1>3, <1>4, <1>5, <1>6, <1>7, <1>8, <1>9, <1>10, <1>11, <1>12, <1>13, <1>14 DEF MemNext

\* So it always holds.
LEMMA MemoryAlways == MemSpec => []MemoryInv
  BY MemoryStarts, MemoryStep, PTL DEF MemSpec

\* And so does what the snapshots hold.
LEMMA SnapAlways == MemSpec => []SnapInv
<1>1. MemInit => SnapInv
  <2> SUFFICES ASSUME MemInit PROVE SnapInv
    OBVIOUS
  <2>1. owed = {} /\ DOMAIN before = {} /\ \A p \in Sides : proc[p] = Idle
    BY DEF MemInit, Sides
  <2>2. QED
    BY <2>1, IdleOf DEF SnapInv
<1>2. QED
  BY <1>1, SnapAll, MemoryAlways, PTL DEF MemSpec

\* What is in a file is a row of its kind.
LEMMA RowOf ==
  ASSUME FilesInv, NEW f \in TierFiles, NEW r \in ToSet(tiers[f])
  PROVE  r \in RowsOf(f)
<1>1. tiers[f] \in Seq(RowsOf(f))
  BY DEF FilesInv
<1>2. QED
  BY <1>1 DEF ToSet

\* What a packet shows of lessons is reliable.
LEMMA ShownLesson ==
  ASSUME FilesInv, NEW node, NEW r \in _select_long_term(tiers, node)
  PROVE  Reliable(r)
<1> DEFINE stored == UNION {ToSet(tiers[k]) : k \in KindSet}
<1>1. r \in stored \/ r \in _durable_quarantine(tiers["quarantine"])
  <2> HIDE DEF stored
  <2>1. _select_long_term(tiers, node) =
          {x \in {y \in stored : _record_active(y)} \cup _durable_quarantine(tiers["quarantine"]) : _node_ok(x, node)}
    BY DEF _select_long_term, stored
  <2>2. QED
    BY <2>1
<1>2. CASE r \in stored
  <2>1. PICK k \in KindSet : r \in ToSet(tiers[k])
    BY <1>2
  <2>2. k \in TierFiles
    BY DEF TierFiles
  <2>3. r \in EarnedRows(k)
    BY <2>1, <2>2, RowOf, RowsAre
  <2>4. QED
    BY <2>3 DEF EarnedRows, Earned
<1>3. CASE r \in _durable_quarantine(tiers["quarantine"])
  <2>1. r \in ToSet(tiers["quarantine"]) /\ r.kind \in KindSet /\ r.trust \in DURABLE_TRUST_LEVELS
    BY <1>3 DEF _durable_quarantine
  <2>2. r \in HeldRows
    BY <2>1, FilesAre, RowOf, RowsAre
  <2>3. r \notin CardRows
    BY <2>1, FilesAre DEF CardRows
  <2>4. QED
    BY <2>1, <2>2, <2>3 DEF HeldRows
<1>4. QED
  BY <1>1, <1>2, <1>3

\* What the invariant says of the store.
LEMMA StoreOf == MemoryInv => StoreSafe
<1> SUFFICES ASSUME MemoryInv PROVE StoreSafe
  OBVIOUS
<1>1. WorldInv /\ FilesInv /\ TrailInv /\ DOMAIN proc = Sides /\ (~overlap => DistinctInv)
  BY DEF MemoryInv
<1>2. ASSUME NEW k \in KindSet, NEW r \in ToSet(tiers[k]) PROVE r \in EarnedRows(k)
  <2>1. k \in TierFiles
    BY DEF TierFiles
  <2>2. QED
    BY <1>1, <2>1, RowOf, RowsAre
<1>3. ASSUME NEW r \in ToSet(tiers["entity"]) PROVE r \in ObservedCards
  BY <1>1, FilesAre, RowOf, RowsAre
<1>4. MemTypeOK
  <2>1. ASSUME NEW k \in KindSet, NEW r \in ToSet(tiers[k]) PROVE r.kind = k /\ r.seen \subseteq Tasks
    <3>1. r \in LessonRows /\ r.kind = k
      BY <1>2 DEF EarnedRows
    <3>2. r.seen \in SeenSets
      BY <3>1 DEF LessonRows
    <3>3. QED
      BY <3>1, <3>2 DEF SeenSets
  <2>2. QED
    BY <1>1, <2>1 DEF MemTypeOK, WorldInv, FilesInv
<1>5. StoredEarned
  BY <1>2 DEF StoredEarned, EarnedRows, Earned
<1>6. PacketReliable
  <2>1. ASSUME NEW node \in Nodes, NEW touched \in {{}, Paths}, NEW p \in write_packet(tiers, node, touched)
        PROVE  (\A r \in p.lessons : Reliable(r)) /\ \A r \in p.entities : r.trust = "repo-observed"
    <3> DEFINE lessons == _select_long_term(tiers, node)
               entities == _select_entities(tiers)
    <3>1. p \in [lessons : SUBSET lessons, entities : SUBSET entities]
      BY DEF write_packet
    <3> HIDE DEF lessons, entities
    <3>2. p.lessons \subseteq lessons /\ p.entities \subseteq entities
      BY <3>1
    <3>3. \A r \in lessons : Reliable(r)
      BY <1>1, ShownLesson DEF lessons
    <3>4. \A r \in entities : r.trust = "repo-observed"
      BY <1>3 DEF entities, _select_entities, ObservedCards
    <3>5. QED
      BY <3>2, <3>3, <3>4
  <2>2. QED
    BY <2>1 DEF PacketReliable
<1>7. OneRecordPerId
  <2>1. ASSUME ~overlap, NEW f \in TierFiles PROVE Distinct(f, tiers[f])
    BY <1>1, <2>1 DEF DistinctInv
  <2>2. "entity" \in TierFiles /\ KindSet \subseteq TierFiles
    BY DEF TierFiles
  <2>3. QED
    BY <2>1, <2>2 DEF OneRecordPerId, Distinct
<1>8. TrailTrue
  <2>1. Quiet => proc["operator"].op # "restore"
    BY <1>1 DEF Quiet, Sides
  <2>2. QED
    BY <1>1, <2>1 DEF TrailTrue, TrailInv
<1>9. ValidateForetells
  <2>1. ASSUME NEW r \in ToSet(tiers["entity"]) PROVE _cmd_memory_validate(r, tree) = _classify_entity(r, tree).verdict
    <3> DEFINE paths == ToSet(r.paths)
               missing == Missing(paths, tree)
               now_ == [i \in DOMAIN r.paths |-> Moved(r.paths[i], tree)]
               remap == [verdict |-> "remap", row |-> [r EXCEPT !.paths = now_, !.name = now_[1]]]
               held == [verdict |-> "quarantine", row |-> [r EXCEPT !.status = "quarantined"]]
               fresh == [verdict |-> "fresh", row |-> r]
    <3>1. _classify_entity(r, tree) = IF missing = {} THEN fresh ELSE IF Unresolved(paths, tree) THEN held ELSE remap
      BY DEF _classify_entity
    <3>2. Unresolved(paths, tree) <=> ~\A p \in missing : Cardinality(find_by_basename(p, tree)) = 1
      BY DEF Unresolved
    <3>3. _cmd_memory_validate(r, tree) = IF missing = {} THEN "fresh"
            ELSE IF \A p \in missing : Cardinality(find_by_basename(p, tree)) = 1 THEN "remap" ELSE "quarantine"
      BY DEF _cmd_memory_validate
    <3>4. fresh.verdict = "fresh" /\ held.verdict = "quarantine" /\ remap.verdict = "remap"
      OBVIOUS
    <3> HIDE DEF missing, paths, fresh, held, remap
    <3>5. CASE missing = {}
      BY <3>1, <3>3, <3>4, <3>5
    <3>6. CASE missing # {} /\ Unresolved(paths, tree)
      BY <3>1, <3>2, <3>3, <3>4, <3>6
    <3>7. CASE missing # {} /\ ~Unresolved(paths, tree)
      BY <3>1, <3>2, <3>3, <3>4, <3>7
    <3>8. QED
      BY <3>5, <3>6, <3>7
  <2>2. QED
    BY <2>1 DEF ValidateForetells
<1>10. QED
  BY <1>4, <1>5, <1>6, <1>7, <1>8, <1>9 DEF StoreSafe

\* A step of q that lets it keep its work, or that it takes when it has none, ends nobody's.
LEMMA KeepsOn ==
  ASSUME DOMAIN proc = Sides, NEW p \in Sides, Busy(proc[p]), NEW q \in Sides, NEW r, Set(q, r),
         ~Busy(proc[q]) \/ r.op = proc[q].op
  PROVE  proc'[p].op # "idle"
<1>1. proc'[q] = r /\ \A s \in Sides : s # q => proc'[s] = proc[s]
  BY SetOf
<1>2. QED
  BY <1>1 DEF Busy

\* Who stops working without dying is done.
LEMMA EndsOf ==
  ASSUME MemoryInv, MemNext, NEW p \in Sides, Busy(proc[p]), proc'[p].op = "idle", left'.stops = left.stops
  PROVE  Finished(p)
<1>1. DOMAIN proc = Sides /\ WorldInv /\ "daemon" \in Sides /\ "operator" \in Sides
        /\ \A q \in Sides : DOMAIN proc[q] = Fields
  BY DEF MemoryInv, Sides, SideInv
<1>2. \A q \in Sides : \A r : Set(q, r) /\ (~Busy(proc[q]) \/ r.op = proc[q].op) => FALSE
  BY <1>1, KeepsOn
<1>3. CASE (\E t \in Tasks : TaskStarts(t)) \/ TaskEnds \/ Tick \/ Move
  <2>1. proc' = proc
    BY <1>3 DEF TaskStarts, TaskEnds, Tick, Move
  <2>2. QED
    BY <2>1 DEF Busy
<1>4. ASSUME NEW delta, NEW failed, _write_memory(delta, failed) PROVE FALSE
  <2>1. proc["daemon"].op = "idle" /\ \E r : Set("daemon", r)
    BY <1>4 DEF _write_memory, Enter
  <2>2. QED
    BY <1>1, <1>2, <2>1 DEF Busy
<1>5. CASE apply_delta
  <2>1. \E todo, plan : Set("daemon", [proc["daemon"] EXCEPT !.todo = todo, !.plan = plan])
    BY <1>5 DEF apply_delta
  <2>2. \A todo, plan : [proc["daemon"] EXCEPT !.todo = todo, !.plan = plan].op = proc["daemon"].op
    BY <1>1 DEF Fields
  <2>3. QED
    BY <1>1, <1>2, <2>1, <2>2
<1>6. CASE _build_cleanup_hook
  <2>1. proc["daemon"].op = "idle" /\ \E r : Set("daemon", r)
    BY <1>6 DEF _build_cleanup_hook, run_once, Enter
  <2>2. QED
    BY <1>1, <1>2, <2>1 DEF Busy
<1>7. CASE _cmd_memory_compact \/ _cmd_memory_restore \/ _cmd_memory_clear
  <2>1. proc["operator"].op = "idle" /\ \E r : Set("operator", r)
    BY <1>7 DEF _cmd_memory_compact, _cmd_memory_restore, _cmd_memory_clear, Commands, run_once, Enter
  <2>2. QED
    BY <1>1, <1>2, <2>1 DEF Busy
<1>8. CASE clear \/ Purge \/ Declined
  <2>1. proc["operator"].op = "asking" /\ \E r : Set("operator", r)
    BY <1>8 DEF clear, Purge, Declined, Enter
  <2>2. QED
    BY <1>1, <1>2, <2>1 DEF Busy
<1>9. ASSUME NEW q \in Sides, CleanupPass(q) PROVE FALSE
  <2>1. \E todo, plan, budget : Set(q, [proc[q] EXCEPT !.todo = todo, !.plan = plan, !.budget = budget])
    BY <1>9, PassSets
  <2>2. PICK todo, plan, budget : Set(q, [proc[q] EXCEPT !.todo = todo, !.plan = plan, !.budget = budget])
    BY <2>1
  <2> DEFINE r == [proc[q] EXCEPT !.todo = todo, !.plan = plan, !.budget = budget]
  <2>3. r.op = proc[q].op
    BY <1>1 DEF Fields
  <2>4. Set(q, r)
    BY <2>2
  <2> HIDE DEF r
  <2>5. QED
    BY <1>2, <2>3, <2>4
<1>10. ASSUME NEW q \in Sides, CopyFile(q) \/ Write(q) \/ ReadQuarantine(q) \/ Rollback(q) PROVE FALSE
  <2>1. \E rest : Set(q, [proc[q] EXCEPT !.plan = rest]) \/ Set(q, [proc[q] EXCEPT !.copies = rest])
    BY <1>10 DEF CopyFile, Write, ReadQuarantine, Rollback
  <2>2. \A rest : [proc[q] EXCEPT !.plan = rest].op = proc[q].op /\ [proc[q] EXCEPT !.copies = rest].op = proc[q].op
    BY <1>1 DEF Fields
  <2>3. QED
    BY <1>2, <2>1, <2>2
<1>11. ASSUME NEW q \in Sides, DieBeforeRecord(q) \/ DieInside(q) \/ Die(q) PROVE FALSE
  <2>1. Spend("stops")
    BY <1>11 DEF DieBeforeRecord, DieInside, Die
  <2>2. QED
    BY <1>1, <2>1, SpendOf
<1>12. ASSUME NEW q \in Sides, Finish(q) PROVE Finished(p)
  <2>1. Finished(q) /\ Set(q, Idle)
    BY <1>12 DEF Finish
  <2>2. q = p
    <3>1. \A s \in Sides : s # q => proc'[s] = proc[s]
      BY <1>1, <2>1, SetOf
    <3>2. QED
      BY <3>1 DEF Busy
  <2>3. QED
    BY <2>1, <2>2
<1>13. QED
  BY <1>1, <1>3, <1>4, <1>5, <1>6, <1>7, <1>8, <1>9, <1>10, <1>11, <1>12 DEF MemNext

\* A cleanup that ends knows all it found.
LEMMA CleanupKeeps ==
  ASSUME MemoryInv, MemNext
  PROVE  \A p \in DOMAIN proc :
           (proc[p].op = "cleanup" /\ proc'[p].op = "idle" /\ left'.stops = left.stops /\ ~overlap)
             => proc[p].found \subseteq Provenance(tiers)
<1> SUFFICES ASSUME NEW p \in DOMAIN proc, proc[p].op = "cleanup", proc'[p].op = "idle", left'.stops = left.stops,
                    ~overlap, NEW x \in proc[p].found
             PROVE  x \in Provenance(tiers)
  OBVIOUS
<1>1. p \in Sides /\ Busy(proc[p]) /\ FilesInv /\ AloneInv(proc[p])
  BY DEF MemoryInv, Busy
<1>2. proc[p].plan = <<>> /\ DOMAIN <<>> = {}
  BY <1>1, EndsOf DEF Finished
<1>3. \E f \in TierFiles \ {"short"} : x \in Known(tiers[f])
  BY <1>1, <1>2 DEF AloneInv, FoundInv
<1>4. QED
  BY <1>1, <1>3, ProvenanceOf DEF FilesInv

\* A restore that ends has put all back.
LEMMA RestoreEnds ==
  ASSUME MemoryInv, SnapInv, proc["operator"].op = "restore", Finished("operator"), ~overlap
  PROVE  LET label == proc["operator"].label
         IN  /\ present = DOMAIN snapshots[label]
             /\ \A f \in present : tiers[f] = snapshots[label][f]
             /\ ~reused /\ label \in DOMAIN before => Restrict(tiers, present) = before[label]
<1> DEFINE d == proc["operator"]
           files == snapshots[d.label]
<1>1. AloneInv(d) /\ FilesInv /\ "operator" \in Sides
  BY DEF MemoryInv, Sides
<1>2. d.plan = <<>> /\ DOMAIN <<>> = {} /\ d.op = "restore" /\ d.copies = <<>> /\ Busy(d)
  BY DEF Finished, Busy
<1>3. d.label \in DOMAIN snapshots /\ \A f \in TierFiles : Restored(f, files)
  BY <1>1, <1>2 DEF AloneInv, RestoreInv
<1>4. DOMAIN files \subseteq TierFiles /\ present \subseteq TierFiles
  BY <1>1, <1>3 DEF FilesInv
<1>5. Open = {}
  <2>1. \A q \in Sides : proc[q].copies = <<>>
    BY <1>1, <1>2, NoCopier
  <2>2. QED
    BY <2>1 DEF Open
<1>6. ~reused /\ d.label \in DOMAIN before => before[d.label] = [f \in DOMAIN files |-> files[f]]
  BY <1>5 DEF SnapInv
<1> HIDE DEF files, d
<1>7. present = DOMAIN files /\ \A f \in present : tiers[f] = files[f]
  BY <1>3, <1>4 DEF Restored
<1>8. Restrict(tiers, present) = [f \in DOMAIN files |-> files[f]]
  <2>1. Restrict(tiers, present) = [f \in present |-> tiers[f]]
    BY DEF Restrict
  <2>2. QED
    BY <1>7, <2>1
<1>9. QED
  BY <1>6, <1>7, <1>8 DEF files, d

\* Whatever is owed is in a snapshot.
LEMMA OwedOf == SnapInv => Recoverable
  BY DEF SnapInv, Recoverable

\* For every number of tasks, paths and steps: what is stored was earned, what is shown of it is
\* reliable, one record stands for each id, and the trail and `validate` say what is so.
THEOREM StoreTheorem == MemSpec => []StoreSafe
  BY MemoryAlways, StoreOf, PTL

\* What a cleanup or a clear found when it began to change files can be had back, also after a stop,
\* and a cleanup that ends has lost nothing.  A restore that ends leaves what its snapshot captured:
\* the store as it was when the snapshot began, unless the process died while taking it.
THEOREM LossTheorem == MemSpec => NothingLost
<1> DEFINE Keeps == \A p \in DOMAIN proc :
             (proc[p].op = "cleanup" /\ proc'[p].op = "idle" /\ left'.stops = left.stops /\ ~overlap)
               => proc[p].found \subseteq Provenance(tiers)
           Gives == (proc["operator"].op = "restore" /\ Finished("operator") /\ proc'["operator"].op = "idle"
                       /\ left'.stops = left.stops /\ ~overlap)
                      => LET label == proc["operator"].label
                         IN  /\ present = DOMAIN snapshots[label]
                             /\ \A f \in present : tiers[f] = snapshots[label][f]
                             /\ ~reused /\ label \in DOMAIN before => Restrict(tiers, present) = before[label]
<1>1. MemoryInv /\ [MemNext]_memVars => [Keeps]_memVars
  BY CleanupKeeps
<1>2. MemoryInv /\ SnapInv /\ [MemNext]_memVars => [Gives]_memVars
  BY RestoreEnds
<1>3. MemSpec => [][Keeps]_memVars
  <2> HIDE DEF Keeps
  <2>1. QED
    BY <1>1, MemoryAlways, PTL DEF MemSpec
<1>4. MemSpec => [][Gives]_memVars
  <2> HIDE DEF Gives
  <2>1. QED
    BY <1>2, MemoryAlways, SnapAlways, PTL DEF MemSpec
<1>5. MemSpec => []Recoverable
  BY OwedOf, SnapAlways, PTL
<1>6. (MemSpec => NothingLostByCleanup) /\ (MemSpec => RestoredWhole)
  BY <1>3, <1>4 DEF NothingLostByCleanup, RestoredWhole
<1>7. QED
  BY <1>5, <1>6 DEF NothingLost
=============================================================================
