-------------------------- MODULE GitPublishProofs --------------------------
(***************************************************************************)
(* For any bounds, any caps and any interleaving with other people's       *)
(* pushes: types, that no push drops a foreign commit, that a pull request *)
(* shows the whole branch, and that no run works inside a stale merge. The *)
(* first rests on what the two recorded tips (pushed_sha and the lease)    *)
(* may contain, the second on what a completed push operation says of      *)
(* origin.                                                                 *)
(***************************************************************************)
EXTENDS GitPublish, FiniteSetTheorems, TLAPS

\* Where a step of the pipeline can be, given whom it works for.
StageInv ==
  /\ mode = "merge" => pc \in {"idle", "mcommit", "mrecord", "mrefer", "update", "pmerge", "pmrecord"}
  /\ pc \in {"adopt", "merge", "mcommit", "mrecord", "mrefer", "recheck", "push", "start", "send",
             "sent"} /\ mode = "publish" => scope # "commit"
  /\ pc \in {"pr", "create", "precord"} => mode = "publish" /\ scope = "pull_request"
  /\ pc \in {"merge", "mcommit", "mrecord", "mrefer"} => (mode = "merge" <=> ret = "update")
  /\ pc = "update" => mode = "merge"
  /\ pc = "merge" => remote \in Shas

\* A completed push operation, and a push that has just landed, speak of what origin holds.
PushInv ==
  /\ op["push"] = "completed" => pushed \in Shas /\ remote \in Shas /\ pushed \subseteq remote
  /\ pc = "send" => op["push"] = "started"
  /\ pc = "sent" => remote \in Shas /\ local \subseteq remote

\* The foreign commits in a tip this orchestrator may replace are in the branch.
ForeignInv ==
  /\ \A c \in pushed : By(c) = "foreign" => c \in local
  /\ \A c \in lease : By(c) = "foreign" => c \in local

\* An open pull request has a branch.
PrInv == pr = "open" => remote \in Shas

IInv == TypeOK /\ StageInv /\ PushInv /\ ForeignInv /\ PrInv /\ ReviewSeesAll /\ NoMergeInFlight

\* ForeignKept, of one step.
KeepsForeign == pc # "idle" /\ remote # NoSha => Foreign(remote) \subseteq Foreign(remote')

-----------------------------------------------------------------------------
\* Tips are closed under what git does to them, and the missing one is none of them.
LEMMA ShaOps ==
  /\ {} \in Shas /\ NoSha \notin Shas
  /\ \A s, t \in Shas : s \cup t \in Shas
  /\ \A s \in Shas : \A t : s \ t \in Shas
  /\ \A s \in Shas : \A m \in Makers : \A n \in Nat : s \cup {<<m, n>>} \in Shas
  /\ \A s \in Shas : \A t : Cardinality(s \ t) \in Nat
<1>1. {} \in Shas
  BY FS_EmptySet DEF Shas
<1>2. NoSha \notin Shas
  BY DEF NoSha, Shas, Commits, Makers
<1>3. ASSUME NEW s \in Shas, NEW t \in Shas PROVE s \cup t \in Shas
  BY <1>3, FS_Union DEF Shas
<1>4. ASSUME NEW s \in Shas, NEW t PROVE s \ t \in Shas /\ Cardinality(s \ t) \in Nat
  <2>1. IsFiniteSet(s \ t)
    BY <1>4, FS_Difference DEF Shas
  <2>2. QED
    BY <2>1, FS_CardinalityType DEF Shas
<1>5. ASSUME NEW s \in Shas, NEW m \in Makers, NEW n \in Nat PROVE s \cup {<<m, n>>} \in Shas
  <2>1. IsFiniteSet(s \cup {<<m, n>>})
    BY <1>5, FS_AddElement DEF Shas
  <2>2. <<m, n>> \in Commits
    BY <1>5 DEF Commits
  <2>3. QED
    BY <1>5, <2>1, <2>2 DEF Shas
<1>6. QED
  BY <1>1, <1>2, <1>3, <1>4, <1>5

\* The missing tip holds no foreign commit, and neither does a commit made here.
LEMMA NotForeign ==
  /\ \A c \in NoSha : By(c) # "foreign"
  /\ \A m \in Makers : \A n \in Nat : By(<<m, n>>) = m
  BY DEF NoSha, By

\* The first state.
LEMMA InitInv == Init => IInv
<1> SUFFICES ASSUME Init PROVE IInv
  OBVIOUS
<1>1. RepoOK /\ HistoryOK
  BY ShaOps DEF Init, RepoOK, HistoryOK
<1>2. StoreOK
  BY DEF Init, StoreOK, Kinds
<1>3. ProcessOK /\ BoundsOK
  BY ShaOps, PublishAssumption DEF Init, ProcessOK, BoundsOK, PCs
<1>4. QED
  BY <1>1, <1>2, <1>3, NotForeign DEF Init, IInv, TypeOK, StageInv, PushInv, ForeignInv, PrInv,
     ReviewSeesAll, NoMergeInFlight, Kinds

-----------------------------------------------------------------------------
\* An error ends the run where it stands. The push may have landed all the same: then
\* the operation says so to nobody, and no foreign commit was dropped.
LEMMA HaltStep ==
  ASSUME IInv, Halt, pc # "idle",
         \/ remote' = remote
         \/ /\ remote' = local /\ op["push"] = "started"
            /\ remote # NoSha => Foreign(remote) \subseteq Foreign(local)
  PROVE  IInv' /\ KeepsForeign
<1> USE ShaOps DEF IInv, TypeOK, RepoOK, StoreOK, ProcessOK, BoundsOK, HistoryOK, StageInv, PushInv,
      ForeignInv, PrInv, ReviewSeesAll, NoMergeInFlight, KeepsForeign, Foreign, PCs, Kinds, Goto,
      Record, repo, store, process, bounds, history
<1>1. life' \in {"active", "failed", "manual", "done"}
  BY DEF Halt, Ends
<1>2. TypeOK'
  <2>1. RepoOK'
    BY <1>1 DEF Halt
  <2>2. StoreOK'
    BY <1>1 DEF Halt
  <2>3. ProcessOK'
    BY <1>1 DEF Halt
  <2>4. BoundsOK' /\ HistoryOK'
    BY <1>1 DEF Halt
  <2>5. QED
    BY <2>1, <2>2, <2>3, <2>4
<1>3. QED
  BY <1>2 DEF Halt

\* The flow before the publish node.
LEMMA FlowStep == IInv /\ Flow => IInv' /\ KeepsForeign
<1> SUFFICES ASSUME IInv, Flow PROVE IInv' /\ KeepsForeign
  OBVIOUS
<1> USE ShaOps DEF IInv, TypeOK, RepoOK, StoreOK, ProcessOK, BoundsOK, HistoryOK, StageInv, PushInv,
      ForeignInv, PrInv, ReviewSeesAll, NoMergeInFlight, KeepsForeign, Foreign, PCs, Kinds, Goto,
      Record, repo, store, process, bounds, history
<1>1. CASE AgentWrites
  <2>1. TypeOK'
    <3>1. RepoOK'
      BY <1>1 DEF AgentWrites
    <3>2. StoreOK'
      BY <1>1 DEF AgentWrites
    <3>3. ProcessOK'
      BY <1>1 DEF AgentWrites
    <3>4. BoundsOK' /\ HistoryOK'
      BY <1>1 DEF AgentWrites
    <3>5. QED
      BY <3>1, <3>2, <3>3, <3>4
  <2>2. QED
    BY <1>1, <2>1 DEF AgentWrites
<1>2. CASE AgentCommits
  <2> DEFINE new == <<"agent", minted>>
  <2>1. PICK dropped \in SUBSET {c \in local : By(c) \in {"code", "audit", "agent"}
                                             /\ \A d \in local : d[2] <= c[2]} :
          /\ local' = (local \ dropped) \cup {new}
          /\ unasked' = IF fresh \/ dropped \cap unasked # {} THEN unasked \cup {new} ELSE unasked
    BY <1>2 DEF AgentCommits, Mint
  <2>2. /\ local \ dropped \in Shas
        /\ \A s \in Shas : s \cup {new} \in Shas
    BY DEF Makers
  <2>3. \A c \in local : By(c) = "foreign" => c \in local'
    BY <2>1
  <2>4. local' \in Shas /\ unasked' \in Shas
    BY <2>1, <2>2
  <2>5. RepoOK' /\ StoreOK' /\ ProcessOK'
    <3>1. RepoOK'
      BY <1>2, <2>4 DEF AgentCommits
    <3>2. StoreOK'
      BY <1>2, <2>4 DEF AgentCommits
    <3>3. ProcessOK'
      BY <1>2, <2>4 DEF AgentCommits
    <3>4. QED
      BY <3>1, <3>2, <3>3
  <2>6. BoundsOK' /\ HistoryOK'
    <3>1. BoundsOK'
      BY <1>2, <2>4, PublishAssumption DEF AgentCommits
    <3>2. HistoryOK'
      BY <1>2, <2>4, PublishAssumption DEF AgentCommits
    <3>3. QED
      BY <3>1, <3>2
  <2>7. QED
    BY <1>2, <2>3, <2>5, <2>6 DEF AgentCommits
<1>3. CASE WorkPasses
  <2>1. unasked' \in Shas
    BY <1>3 DEF WorkPasses, GateMeasures
  <2>2. TypeOK'
    <3>1. RepoOK'
      BY <1>3, <2>1 DEF WorkPasses, GateMeasures
    <3>2. StoreOK'
      BY <1>3, <2>1 DEF WorkPasses, GateMeasures
    <3>3. ProcessOK'
      BY <1>3, <2>1 DEF WorkPasses, GateMeasures
    <3>4. BoundsOK' /\ HistoryOK'
      BY <1>3, <2>1 DEF WorkPasses, GateMeasures
    <3>5. QED
      BY <3>1, <3>2, <3>3, <3>4
  <2>3. QED
    BY <1>3, <2>2 DEF WorkPasses
<1>4. CASE WorkStops
  BY <1>4 DEF WorkStops
<1>5. CASE WorkFails
  BY <1>5 DEF WorkFails
<1>6. QED
  BY <1>1, <1>2, <1>3, <1>4, <1>5 DEF Flow

-----------------------------------------------------------------------------
\* The commits only add to the branch what was made here.
LEMMA CommittingStep == IInv /\ Committing => IInv' /\ KeepsForeign
<1> SUFFICES ASSUME IInv, Committing PROVE IInv' /\ KeepsForeign
  OBVIOUS
<1> USE ShaOps DEF IInv, TypeOK, RepoOK, StoreOK, ProcessOK, BoundsOK, HistoryOK, StageInv, PushInv,
      ForeignInv, PrInv, ReviewSeesAll, NoMergeInFlight, KeepsForeign, Foreign, PCs, Kinds, Goto,
      Record, repo, store, process, bounds, history
<1>1. CASE FinalizeTask
  BY <1>1 DEF FinalizeTask
<1>2. CASE DangerousDiffGate
  <2>1. CASE Halt /\ UNCHANGED remote
    BY <1>2, <2>1, HaltStep DEF DangerousDiffGate
  <2>2. CASE GateMeasures /\ Goto("code") /\ UNCHANGED <<repo, store, bounds, checked>>
    <3>1. unasked' \in Shas
      BY <2>2 DEF GateMeasures
    <3>2. TypeOK'
      <4>1. RepoOK'
        BY <2>2, <3>1 DEF GateMeasures
      <4>2. StoreOK'
        BY <2>2, <3>1 DEF GateMeasures
      <4>3. ProcessOK'
        BY <2>2, <3>1 DEF GateMeasures
      <4>4. BoundsOK' /\ HistoryOK'
        BY <2>2, <3>1 DEF GateMeasures
      <4>5. QED
        BY <4>1, <4>2, <4>3, <4>4
    <3>3. QED
      BY <1>2, <2>2, <3>2 DEF DangerousDiffGate
  <2>3. QED
    BY <1>2, <2>1, <2>2 DEF DangerousDiffGate
<1>3. CASE AdoptCommittedHead
  <2>1. adopted' \in Nat
    <3>1. Cardinality(local \ gate_reference) \in Nat
      OBVIOUS
    <3>2. QED
      BY <1>3, <3>1 DEF AdoptCommittedHead
  <2>2. TypeOK'
    BY <1>3, <2>1 DEF AdoptCommittedHead
  <2>3. QED
    BY <1>3, <2>2 DEF AdoptCommittedHead
<1>4. CASE CommitStart
  BY <1>4 DEF CommitStart
<1>5. CASE CommitCode
  <2>1. CASE Halt /\ UNCHANGED remote
    BY <1>5, <2>1, HaltStep DEF CommitCode
  <2>2. CASE ~(Halt /\ UNCHANGED remote)
    <3>1. local' \in Shas /\ unasked' \in Shas /\ local \subseteq local'
      BY <1>5, <2>2 DEF CommitCode, Mint, Makers
    <3>2. TypeOK'
      <4>1. RepoOK'
        BY <1>5, <2>2, <3>1 DEF CommitCode, Minting
      <4>2. StoreOK'
        BY <1>5, <2>2, <3>1 DEF CommitCode, Minting
      <4>3. ProcessOK'
        BY <1>5, <2>2, <3>1 DEF CommitCode, Minting
      <4>4. BoundsOK'
        BY <1>5, <2>2, <3>1 DEF CommitCode, Minting
      <4>5. HistoryOK'
        BY <1>5, <2>2, <3>1 DEF CommitCode, Minting
      <4>6. QED
        BY <4>1, <4>2, <4>3, <4>4, <4>5
    <3>3. QED
      BY <1>5, <2>2, <3>1, <3>2 DEF CommitCode, Minting
  <2>3. QED
    BY <2>1, <2>2
<1>6. CASE CommitRecord
  BY <1>6 DEF CommitRecord
<1>7. CASE CommitRefer
  BY <1>7 DEF CommitRefer
<1>8. CASE CommitAudit
  <2>1. CASE Halt /\ UNCHANGED remote
    BY <1>8, <2>1, HaltStep DEF CommitAudit
  <2>2. CASE Goto("arecord") /\ UNCHANGED <<repo, store, bounds, history>>
    BY <1>8, <2>2 DEF CommitAudit
  <2>3. CASE /\ local' = local \cup {Mint("audit")} /\ filed' = "committed"
             /\ Goto("arecord") /\ Minting
             /\ UNCHANGED <<dirty, remote, base, start, merging, pr, store, history>>
    <3>1. local' \in Shas /\ local \subseteq local'
      BY <2>3 DEF Mint, Makers
    <3>2. TypeOK'
      BY <2>3, <3>1 DEF Minting
    <3>3. QED
      BY <1>8, <2>3, <3>1, <3>2 DEF CommitAudit, Minting
  <2>4. QED
    BY <1>8, <2>1, <2>2, <2>3 DEF CommitAudit
<1>9. CASE AuditRecord
  BY <1>9 DEF AuditRecord
<1>10. QED
  BY <1>1, <1>2, <1>3, <1>4, <1>5, <1>6, <1>7, <1>8, <1>9 DEF Committing

-----------------------------------------------------------------------------
\* Adoption only adds to the branch what the remote holds.
LEMMA AdoptingStep == IInv /\ Adopting => IInv' /\ KeepsForeign
<1> SUFFICES ASSUME IInv, Adopting PROVE IInv' /\ KeepsForeign
  OBVIOUS
<1> USE ShaOps DEF IInv, TypeOK, RepoOK, StoreOK, ProcessOK, BoundsOK, HistoryOK, StageInv, PushInv,
      ForeignInv, PrInv, ReviewSeesAll, NoMergeInFlight, KeepsForeign, Foreign, PCs, Kinds, Goto,
      Record, repo, store, process, bounds, history
<1>1. CASE AdoptForeign
  BY <1>1 DEF AdoptForeign, already_published, OursToReplace, Probe
<1>2. CASE AdoptMerge
  <2>1. CASE Halt /\ UNCHANGED remote
    BY <1>2, <2>1, HaltStep DEF AdoptMerge
  <2>2. CASE local \subseteq remote /\ ~(Halt /\ UNCHANGED remote)
    <3>1. local' = remote /\ local' \in Shas
      BY <1>2, <2>2 DEF AdoptMerge
    <3>2. TypeOK'
      <4>1. RepoOK'
        BY <1>2, <2>2, <3>1 DEF AdoptMerge
      <4>2. StoreOK'
        BY <1>2, <2>2, <3>1 DEF AdoptMerge
      <4>3. ProcessOK'
        BY <1>2, <2>2, <3>1 DEF AdoptMerge
      <4>4. BoundsOK' /\ HistoryOK'
        BY <1>2, <2>2, <3>1 DEF AdoptMerge
      <4>5. QED
        BY <4>1, <4>2, <4>3, <4>4
    <3>3. QED
      BY <1>2, <2>2, <3>1, <3>2 DEF AdoptMerge
  <2>3. CASE ~(local \subseteq remote) /\ ~(Halt /\ UNCHANGED remote)
    <3>1. TypeOK'
      <4>1. RepoOK'
        BY <1>2, <2>3 DEF AdoptMerge
      <4>2. StoreOK'
        BY <1>2, <2>3 DEF AdoptMerge
      <4>3. ProcessOK'
        BY <1>2, <2>3 DEF AdoptMerge
      <4>4. BoundsOK' /\ HistoryOK'
        BY <1>2, <2>3 DEF AdoptMerge
      <4>5. QED
        BY <4>1, <4>2, <4>3, <4>4
    <3>2. QED
      BY <1>2, <2>3, <3>1 DEF AdoptMerge
  <2>4. QED
    BY <2>1, <2>2, <2>3
<1>3. CASE MergeCommit
  <2>1. CASE Halt /\ UNCHANGED remote
    BY <1>3, <2>1, HaltStep DEF MergeCommit
  <2>2. CASE ~(Halt /\ UNCHANGED remote)
    <3>1. local' \in Shas /\ unasked' \in Shas /\ local \subseteq local'
      <4>1. local' \in Shas
        <5>1. local \cup fetched \in Shas
          OBVIOUS
        <5>2. local' = (local \cup fetched) \cup {<<"merge", minted>>}
          BY <1>3, <2>2 DEF MergeCommit, Mint
        <5>3. QED
          BY <5>1, <5>2 DEF Makers
      <4>2. unasked' \in Shas
        BY <1>3, <2>2 DEF MergeCommit, Mint, Makers
      <4>3. local \subseteq local'
        BY <1>3, <2>2 DEF MergeCommit, Mint, Makers
      <4>4. QED
        BY <4>1, <4>2, <4>3
    <3>2. TypeOK'
      <4>1. RepoOK'
        BY <1>3, <2>2, <3>1 DEF MergeCommit, Minting
      <4>2. StoreOK'
        BY <1>3, <2>2, <3>1 DEF MergeCommit, Minting
      <4>3. ProcessOK'
        BY <1>3, <2>2, <3>1 DEF MergeCommit, Minting
      <4>4. BoundsOK'
        BY <1>3, <2>2, <3>1 DEF MergeCommit, Minting
      <4>5. HistoryOK'
        BY <1>3, <2>2, <3>1 DEF MergeCommit, Minting
      <4>6. QED
        BY <4>1, <4>2, <4>3, <4>4, <4>5
    <3>3. QED
      BY <1>3, <2>2, <3>1, <3>2 DEF MergeCommit, Minting
  <2>3. QED
    BY <2>1, <2>2
<1>4. CASE MergeRecord
  BY <1>4 DEF MergeRecord
<1>5. CASE MergeRefer
  BY <1>5 DEF MergeRefer
<1>6. CASE Recheck
  <2>1. CASE Halt /\ UNCHANGED remote
    BY <1>6, <2>1, HaltStep DEF Recheck
  <2>2. CASE checked' = TRUE /\ Goto("push") /\ UNCHANGED <<repo, store, bounds, fresh, unasked>>
    <3>1. TypeOK'
      <4>1. RepoOK'
        BY <2>2
      <4>2. StoreOK'
        BY <2>2
      <4>3. ProcessOK'
        BY <2>2
      <4>4. BoundsOK' /\ HistoryOK'
        BY <2>2
      <4>5. QED
        BY <4>1, <4>2, <4>3, <4>4
    <3>2. QED
      BY <1>6, <2>2, <3>1 DEF Recheck
  <2>3. QED
    BY <1>6, <2>1, <2>2 DEF Recheck
<1>7. QED
  BY <1>1, <1>2, <1>3, <1>4, <1>5, <1>6 DEF Adopting

-----------------------------------------------------------------------------
\* The push replaces a tip only by the lease, whose foreign commits the branch has.
LEMMA PushingStep == IInv /\ Pushing => IInv' /\ KeepsForeign
<1> SUFFICES ASSUME IInv, Pushing PROVE IInv' /\ KeepsForeign
  OBVIOUS
<1> USE ShaOps DEF IInv, TypeOK, RepoOK, StoreOK, ProcessOK, BoundsOK, HistoryOK, StageInv, PushInv,
      ForeignInv, PrInv, ReviewSeesAll, NoMergeInFlight, KeepsForeign, Foreign, PCs, Kinds, Goto,
      Record, repo, store, process, bounds, history
<1>1. CASE Push
  <2>1. TypeOK'
    BY <1>1 DEF Push, already_published, OursToReplace, Probe, AfterPush
  <2>2. ForeignInv'
    BY <1>1, NotForeign DEF Push, already_published, OursToReplace, Probe, AfterPush
  <2>3. StageInv' /\ PushInv' /\ PrInv'
    <3>1. StageInv'
      <4>1. mode \in {"publish", "fail"} /\ mode' = mode /\ scope' = scope /\ remote' = remote
        BY <1>1 DEF Push
      <4>2. pc' \in {"finish", "pr", "start", "merge"}
        BY <1>1 DEF Push, AfterPush
      <4>3. pc' = "pr" => mode = "publish" /\ scope = "pull_request"
        BY <1>1, PublishAssumption DEF Push, AfterPush
      <4>4. pc' = "merge" => ret' = "start" /\ remote \in Shas
        BY <1>1 DEF Push, AfterPush, Probe
      <4>5. QED
        BY <1>1, <4>1, <4>2, <4>3, <4>4 DEF Push
    <3>2. PushInv'
      BY <1>1 DEF Push, already_published, OursToReplace, Probe, AfterPush
    <3>3. PrInv'
      BY <1>1 DEF Push, already_published, OursToReplace, Probe, AfterPush
    <3>4. QED
      BY <3>1, <3>2, <3>3
  <2>4. ReviewSeesAll' /\ NoMergeInFlight' /\ KeepsForeign
    BY <1>1 DEF Push, already_published, OursToReplace, Probe, AfterPush
  <2>5. QED
    BY <2>1, <2>2, <2>3, <2>4
<1>2. CASE PushStart
  BY <1>2 DEF PushStart
<1>3. CASE Send
  <2>1. Accepted /\ remote # NoSha => Foreign(remote) \subseteq Foreign(local)
    BY DEF Accepted
  <2>2. CASE Halt
    BY <1>3, <2>1, <2>2, HaltStep DEF Send
  <2>3. CASE ~Halt
    BY <1>3, <2>1, <2>3 DEF Send
  <2>4. QED
    BY <2>2, <2>3
<1>4. CASE PushRecord
  <2>1. TypeOK'
    <3>1. RepoOK'
      BY <1>4 DEF PushRecord, AfterPush
    <3>2. StoreOK'
      BY <1>4 DEF PushRecord, AfterPush
    <3>3. ProcessOK'
      BY <1>4 DEF PushRecord, AfterPush
    <3>4. BoundsOK' /\ HistoryOK'
      BY <1>4 DEF PushRecord, AfterPush
    <3>5. QED
      BY <3>1, <3>2, <3>3, <3>4
  <2>2. pc' = "pr" => mode = "publish" /\ scope = "pull_request"
    BY <1>4, PublishAssumption DEF PushRecord, AfterPush
  <2>3. StageInv' /\ PrInv' /\ NoMergeInFlight' /\ KeepsForeign
    BY <1>4, <2>2 DEF PushRecord, AfterPush
  <2>4. PushInv' /\ ForeignInv' /\ ReviewSeesAll'
    BY <1>4 DEF PushRecord, AfterPush
  <2>5. QED
    BY <2>1, <2>3, <2>4
<1>5. CASE Update
  <2>1. CASE Halt /\ UNCHANGED remote
    BY <1>5, <2>1, HaltStep DEF Update
  <2>2. CASE ~(Halt /\ UNCHANGED remote)
    BY <1>5, <2>2 DEF Update
  <2>3. QED
    BY <2>1, <2>2
<1>6. QED
  BY <1>1, <1>2, <1>3, <1>4, <1>5 DEF Pushing

-----------------------------------------------------------------------------
\* The pull request changes neither branch nor push operation.
LEMMA ReviewingStep == IInv /\ Reviewing => IInv' /\ KeepsForeign
<1> SUFFICES ASSUME IInv, Reviewing PROVE IInv' /\ KeepsForeign
  OBVIOUS
<1> USE ShaOps DEF IInv, TypeOK, RepoOK, StoreOK, ProcessOK, BoundsOK, HistoryOK, StageInv, PushInv,
      ForeignInv, PrInv, ReviewSeesAll, NoMergeInFlight, KeepsForeign, Foreign, PCs, Kinds, Goto,
      Record, repo, store, process, bounds, history
<1>1. CASE CreatePr
  BY <1>1 DEF CreatePr
<1>2. CASE GhCreate
  <2>1. CASE Halt /\ UNCHANGED remote
    BY <1>2, <2>1, HaltStep DEF GhCreate
  <2>2. CASE ~(Halt /\ UNCHANGED remote)
    BY <1>2, <2>2 DEF GhCreate
  <2>3. QED
    BY <2>1, <2>2
<1>3. CASE PrRecord
  BY <1>3 DEF PrRecord
<1>4. CASE Finish
  BY <1>4 DEF Finish, Ends, DoneIfClean
<1>5. CASE MergePr
  <2>1. base' \in Shas
    BY <1>5 DEF MergePr
  <2>2. TypeOK'
    <3>1. RepoOK'
      BY <1>5, <2>1 DEF MergePr, Ends
    <3>2. StoreOK'
      BY <1>5, <2>1 DEF MergePr, Ends
    <3>3. ProcessOK'
      BY <1>5, <2>1 DEF MergePr, Ends
    <3>4. BoundsOK' /\ HistoryOK'
      BY <1>5, <2>1 DEF MergePr, Ends
    <3>5. QED
      BY <3>1, <3>2, <3>3, <3>4
  <2>3. QED
    BY <1>5, <2>2 DEF MergePr, Ends
<1>6. CASE MergePrRecord
  BY <1>6 DEF MergePrRecord, DoneIfClean, Lifted
<1>7. QED
  BY <1>1, <1>2, <1>3, <1>4, <1>5, <1>6 DEF Reviewing

-----------------------------------------------------------------------------
\* A crash loses the process and a resume aborts the merge it finds.
LEMMA RestartStep == IInv /\ (Crash \/ Resume) => IInv' /\ KeepsForeign
<1> SUFFICES ASSUME IInv, (Crash \/ Resume) PROVE IInv' /\ KeepsForeign
  OBVIOUS
<1> USE ShaOps DEF IInv, TypeOK, RepoOK, StoreOK, ProcessOK, BoundsOK, HistoryOK, StageInv, PushInv,
      ForeignInv, PrInv, ReviewSeesAll, NoMergeInFlight, KeepsForeign, Foreign, PCs, Kinds, Goto,
      Record, repo, store, process, bounds, history
<1>1. CASE Crash
  <2>1. TypeOK'
    BY <1>1, PublishAssumption DEF Crash, Fresh
  <2>2. QED
    BY <1>1, <2>1, NotForeign DEF Crash, Fresh
<1>2. CASE Resume
  <2>1. TypeOK'
    <3>1. RepoOK'
      BY <1>2 DEF Resume, Fresh, Reattached, Enter
    <3>2. StoreOK'
      BY <1>2 DEF Resume, Fresh, Reattached, Enter
    <3>3. ProcessOK'
      BY <1>2 DEF Resume, Fresh, Reattached, Enter
    <3>4. BoundsOK' /\ HistoryOK'
      BY <1>2 DEF Resume, Fresh, Reattached, Enter
    <3>5. QED
      BY <3>1, <3>2, <3>3, <3>4
  <2>2. QED
    BY <1>2, <2>1, NotForeign DEF Resume, Fresh, Reattached, Enter
<1>3. QED
  BY <1>1, <1>2

\* The operator; a fresh rerun forgets the tips with the branch.
LEMMA CommandsStep == IInv /\ Commands => IInv' /\ KeepsForeign
<1> SUFFICES ASSUME IInv, Commands PROVE IInv' /\ KeepsForeign
  OBVIOUS
<1> USE ShaOps DEF IInv, TypeOK, RepoOK, StoreOK, ProcessOK, BoundsOK, HistoryOK, StageInv, PushInv,
      ForeignInv, PrInv, ReviewSeesAll, NoMergeInFlight, KeepsForeign, Foreign, PCs, Kinds, Goto,
      Record, repo, store, process, bounds, history
<1>1. ASSUME Commanded PROVE BoundsOK'
  BY <1>1, PublishAssumption DEF Commanded
<1>2. ASSUME NEW stage \in {"work", "publish"}, Continue(stage) PROVE IInv' /\ KeepsForeign
  <2>1. TypeOK'
    <3>1. RepoOK'
      BY <1>1, <1>2 DEF Continue, Fresh, Reattached, Enter, Commanded
    <3>2. StoreOK'
      BY <1>1, <1>2 DEF Continue, Fresh, Reattached, Enter, Commanded
    <3>3. ProcessOK'
      BY <1>1, <1>2 DEF Continue, Fresh, Reattached, Enter, Commanded
    <3>4. BoundsOK' /\ HistoryOK'
      BY <1>1, <1>2 DEF Continue, Fresh, Reattached, Enter, Commanded
    <3>5. QED
      BY <3>1, <3>2, <3>3, <3>4
  <2>2. QED
    BY <1>2, <2>1, NotForeign DEF Continue, Fresh, Reattached, Enter, Commanded
<1>3. ASSUME NEW sameName \in BOOLEAN, Rerun(sameName) PROVE IInv' /\ KeepsForeign
  <2>1. RepoOK' /\ StoreOK'
    BY <1>3 DEF Rerun
  <2>2. ProcessOK' /\ BoundsOK' /\ HistoryOK'
    BY <1>1, <1>3 DEF Rerun, Fresh
  <2>3. ForeignInv'
    BY <1>3, NotForeign DEF Rerun, Fresh
  <2>4. StageInv' /\ PushInv' /\ PrInv' /\ ReviewSeesAll' /\ NoMergeInFlight' /\ KeepsForeign
    BY <1>3 DEF Rerun, Fresh, Commanded
  <2>5. QED
    BY <2>1, <2>2, <2>3, <2>4
<1>4. CASE MergeTask
  <2>1. local' \in Shas /\ local \subseteq local'
    BY <1>4 DEF MergeTask
  <2>2. RepoOK' /\ StoreOK'
    BY <1>4, <2>1 DEF MergeTask
  <2>3. ProcessOK' /\ BoundsOK' /\ HistoryOK'
    BY <1>1, <1>4 DEF MergeTask
  <2>4. ForeignInv'
    BY <1>4, <2>1, NotForeign DEF MergeTask
  <2>5. StageInv' /\ PushInv' /\ PrInv' /\ ReviewSeesAll' /\ NoMergeInFlight' /\ KeepsForeign
    BY <1>4 DEF MergeTask, Commanded
  <2>6. QED
    BY <2>2, <2>3, <2>4, <2>5
<1>5. CASE RecordExternalMerge
  BY <1>5 DEF RecordExternalMerge, Lifted
<1>6. QED
  BY <1>2, <1>3, <1>4, <1>5 DEF Commands

\* Other people only add to the remote.
LEMMA OutsideStep == IInv /\ Outside => IInv' /\ KeepsForeign
<1> SUFFICES ASSUME IInv, Outside PROVE IInv' /\ KeepsForeign
  OBVIOUS
<1> USE ShaOps DEF IInv, TypeOK, RepoOK, StoreOK, ProcessOK, BoundsOK, HistoryOK, StageInv, PushInv,
      ForeignInv, PrInv, ReviewSeesAll, NoMergeInFlight, KeepsForeign, Foreign, PCs, Kinds, Goto,
      Record, repo, store, process, bounds, history
<1>1. ASSUME Acting PROVE events' \in 0..MaxEvents
  BY <1>1, PublishAssumption DEF Acting
<1>2. CASE ForeignPush
  <2>1. remote' \in Shas /\ (remote \in Shas => remote \subseteq remote')
    BY <1>2 DEF ForeignPush, Mint, Makers
  <2>2. TypeOK'
    BY <1>1, <1>2, <2>1 DEF ForeignPush
  <2>3. QED
    BY <1>2, <2>1, <2>2 DEF ForeignPush
<1>3. CASE BaseMoves
  <2>1. base' \in Shas
    BY <1>3 DEF BaseMoves, Mint, Makers
  <2>2. TypeOK'
    BY <1>1, <1>3, <2>1 DEF BaseMoves
  <2>3. QED
    BY <1>3, <2>2 DEF BaseMoves
<1>4. CASE PersonOnPr
  <2>1. base' \in Shas
    BY <1>4 DEF PersonOnPr
  <2>2. TypeOK'
    BY <1>1, <1>4, <2>1 DEF PersonOnPr
  <2>3. QED
    BY <1>4, <2>2 DEF PersonOnPr
<1>5. QED
  BY <1>2, <1>3, <1>4 DEF Outside

-----------------------------------------------------------------------------
\* Every step.
LEMMA NextStep == IInv /\ [Next]_vars => IInv' /\ (KeepsForeign \/ UNCHANGED vars)
<1> SUFFICES ASSUME IInv, [Next]_vars PROVE IInv' /\ (KeepsForeign \/ UNCHANGED vars)
  OBVIOUS
<1>1. CASE Next
  BY <1>1, FlowStep, CommittingStep, AdoptingStep, PushingStep, ReviewingStep, RestartStep,
     CommandsStep, OutsideStep DEF Next
<1>2. CASE UNCHANGED vars
  BY <1>2 DEF vars, repo, store, process, bounds, history, IInv, TypeOK, RepoOK, StoreOK, ProcessOK,
     BoundsOK, HistoryOK, StageInv, PushInv, ForeignInv, PrInv, ReviewSeesAll, NoMergeInFlight
<1>3. QED
  BY <1>1, <1>2

\* Every reachable state is well typed and keeps the invariants the other theorems need.
THEOREM Invariance == Spec => []IInv
<1>1. IInv /\ [Next]_vars => IInv'
  BY NextStep
<1>2. QED
  BY InitInv, <1>1, PTL DEF Spec

\* The rows, the clone and the process stay within their types: _finish_engine_run, _fail
\* and merge_task leave the task in one of its statuses.
THEOREM TypeCorrect == Spec => []TypeOK
<1>1. IInv => TypeOK
  BY DEF IInv
<1>2. QED
  BY <1>1, Invariance, PTL

\* No push of a run or of merge-task drops a commit another person pushed to the branch
\* (push, push_branch_update).
THEOREM ForeignCommitsKept == Spec => ForeignKept
<1>1. IInv /\ [Next]_vars
        => [pc # "idle" /\ remote # NoSha => Foreign(remote) \subseteq Foreign(remote')]_vars
  BY NextStep DEF KeepsForeign
<1>2. QED
  BY <1>1, Invariance, PTL DEF Spec, ForeignKept

\* The pull request is opened and the task done only when origin holds the whole branch
\* (_already_published, push, create_pr).
THEOREM WholeBranchReviewed == Spec => []ReviewSeesAll
<1>1. IInv => ReviewSeesAll
  BY DEF IInv
<1>2. QED
  BY <1>1, Invariance, PTL

\* No run works inside a merge an earlier process left in flight (prepare_branch).
THEOREM NoStaleMerge == Spec => []NoMergeInFlight
<1>1. IInv => NoMergeInFlight
  BY DEF IInv
<1>2. QED
  BY <1>1, Invariance, PTL
=============================================================================
