# wastech-orchestrator: a verification development

`wastech-orchestrator` (`worc`) takes task files out of a `pending/` folder, one at a
time, and drives each through a flow graph whose nodes are coding agents, reviewers,
checks, human gates and a publish step. It commits, pushes and opens a pull request,
and it promises to survive a crash at any point: every step is checkpointed in
`state.db`, and a restart resumes the task that was in flight. This directory holds
TLA+ models of that program, the TLC runs that check them on small instances and
TLAPS proofs for every instance.

## 1. Inventory

The program is one Python process (a `watch` daemon, or one `run`/`rerun` command)
over durable state that outlives it: the SQLite file, the task files, the
completed-tasks ledger, the git clone and the artifact folders. There are few threads
inside; what makes it hard is that the process may die between any two durable
writes, that operators act on the durable state while it is down, and that providers,
people and git fail.

| Part | State | Operations | Interacts with | Hard behaviour | What makes it correct |
|---|---|---|---|---|---|
| Flow graph and validator (`core/flow/schema.py`, `snapshot.py`, `validator.py`) | a frozen graph | load, `_check_graph`, `validate_disabled_nodes` | read by the engine | what a runtime guarantee needs must already be refused at load | an accepted graph never traps the engine |
| Flow engine (`core/flow/engine.py`, `loop_control.py`, `run_state.py`, `recorder.py`) | current node, loop counters, stall streaks; checkpoint and verdicts in `state.db` | execute a node, take an edge, charge a budget, park, cancel, resume | called by the orchestrator, calls node runners and the recorder | a crash between a verdict and its checkpoint; grants by the operator; loops that share nodes | budgets are never overspent, the backstop counts every round, an advisory node never parks, the run ends |
| Task lifecycle (`core/orchestrator.py`, `core/state_machine.py`) | the `tasks` row, the pipeline's own copy of its status | register, drive, end, rerun, continue, finalize | gate, engine, git, ledger, files | a dozen durable writes per task, each a possible last one | one active task, legal transitions, every end recorded once, done only over a clean tree |
| Restart recovery (`core/recovery.py`, `Orchestrator.resume`) | none of its own | stop ambiguous tasks, resume the active one, retry a cleanup | reads the row, re-enters the lifecycle | half-finished writes of the previous process | whatever was begun is ended, and nothing that ended is done again |
| Watch loop and queue (`cli.py`) | the tick | resume, scan, claim, run, stop | orchestrator, `pending/` | leftovers of settled tasks, blocked cleanups, dependencies | the queue drains, settled tasks are left alone |
| Ledger (`ledger.py`) | `completed.jsonl`, append-only | append, `has_task_id` | four writers in the orchestrator, one reader in the gate | no transaction with `state.db` | one record per end |
| Executor markers (`process_control.py`) | `orchestrator.pid`, `orchestrator.run`, stop and children files | claim, probe, reclaim, stop, force-stop | every command | check-then-claim between processes, stale markers | one executor per clone |
| Git manager (`git_manager.py`) | branches, commits, remote; `publish_operations` | prepare, commit, push, open PR, cleanup | publish node, `_fail`, recovery | a git command done and its record missing | nothing is committed, pushed or opened twice, no work is lost |
| Provider routing (`routing/router.py`, `core/infra_disposition.py`) | the chain of providers, sessions | run a stage, retry, fall back, park | agent and evaluator nodes | retries, fallback, rate-limit windows and stops racing | an outage parks, a real failure fails, a stop never starts another agent |
| Provider adapters, subprocesses (`providers/`, `security/`) | a child process; the command line it is given | build, canary, spawn, stream, time out, kill, judge | router | a tree of child processes outliving its parent; a host that changes between check and launch | one answer per call, no known survivor behind any answer but the one that says so; an agent reaches what its node was given |
| Human gates (`core/hitl.py`, `notify/`) | one interaction file per question | ask, wait, answer, consume | hitl nodes, supervisor | late, repeated and missing answers | an answer is used once, for the question it answers |
| Decomposition (`core/decomposition.py`, `_run_phases`) | subtask rows, active subtask | plan, run a region per unit, commit it | engine, git | a crash between commit, row and counter | each unit is committed once, in order |
| Exchange and seal (`providers/exchange.py`, `core/flow/exchange_seal.py`) | files handed between agents | publish, seal, verify, evict | agent nodes | an agent edits what another has sealed | what is read is what was sealed |
| Checks and tools (`core/flow/nodes/checks.py`, `tool.py`, `check_runner.py`) | check logs, `check_runs`, the failure streak | select, run, record, publish evidence, route | engine, the fixer, auto-merge | rows of earlier attempts, programs that rewrite the tree | a pass is over a tree no check changed, a fixer reads its own failure |
| Supervisor and close-out (`core/supervisor.py`, `core/summary_report.py`, `core/follow_ups.py`) | summary, follow-ups, observations | observe, finalize, report | evaluations, publish node | several terminals of one task, a failed turn, a crash between its files | what is published is true and complete |
| Project memory (`memory/`) | tier files, quarantine, snapshots, audit trail | ingest, promote, clean up, restore, clear, show | supervisor's delta, agent packets, a second process | no transaction over the files, no lock between processes | nothing untrusted is stored or shown, nothing is lost |
| Environment of a child, redaction (`security/env.py`, `env_file.py`, `providers/redaction.py`) | `os.environ`, the names of the env-file | load, validate, build, scrub | adapters, checks, git manager, console | a process that hands its environment on, two spellings of one name | a child has what the policy grants, a record shows no secret |
| Rest of the configuration, installation, logging | none | - | - | - | pure or derived |

`PROJECT.json` lists every part with its status, and under `hazards` the places where
this code is hard to test.

## 2. Plan

Written in this order, the most important behaviour first:

1. `FlowGraph`, `FlowEngine`, `FlowEngineProofs`;
2. `TaskLifecycle`, `TaskLifecycleProofs`;
3. `GitPublish`, `GitPublishProofs`;
4. `ExecutorClaim`, `ExecutorClaimProofs`;
5. `ProviderOutcome`, `ProviderCall` (abstract), `ProviderRun` (implements it),
   `AgentStage` (built on it), `ProviderRunProofs`, `AgentStageProofs`;
6. `HumanGate`, `HumanGateProofs`;
7. `RunInputs`, `RunInputsProofs`;
8. `ToolPolicy`, `LaunchPolicy`, and `GateNodes`, `ChildEnv`, run together as
   `MCNodeRuns`;
9. `MemoryRows`, `MemoryStore` (proofs in `HumanGateProofs`);
10. `RunRecord`, `Subtasks`, `CloseOut`, each extending the one before.

Left: dependencies between tasks; the branch modes `existing` and `current`; an abstract
single-slot queue as the refinement target of `TaskLifecycle`; a claim that does exclude,
as the target for a repaired marker protocol.

Every run, its module and its number of distinct states:

| Run | Module | States | Asks |
|---|---|---|---|
| `flow_engine` | `MCFlowEngine` | 102,008 | do budgets and guards hold, does the traversal end |
| `task_lifecycle` | `MCTaskLifecycle` | 4,433,956 | one slot, legal transitions, no double record |
| `task_liveness` | `MCTaskLifecycle` | 556,242 | do tasks settle and does the queue drain |
| `git_publish` | `MCGitPublish` | 2,741,548 | is foreign work kept and the review whole |
| `executor` | `MCExecutorClaim` | 382,374 | who drives the clone, what a stop leaves |
| `provider_run` | `MCProviderRun` | 1,107,890 | does the adapter implement the call |
| `agent_stage` | `MCAgentStage` | 449,092 | is policy kept over hops and retries, do parks end |
| `human_gate` | `MCHumanGate` | 1,610,405 | whose answer is acted on |
| `run_inputs` | `MCRunInputs` | 3,720,196 | what an agent works from, over crashes |
| `node_runs` | `MCNodeRuns` | 1,667,203 | what a launched agent reaches, what a gate lets pass, what a child's environment holds |
| `memory` | `MCMemoryStore` | 1,506,718 | what is stored, shown and lost |
| `close_out` | `MCCloseOut` | 1,801,090 | whose work is in which commit, is the published body true |

### How the properties are grouped

The modules of sections 7 to 12 state each property by itself and combine the ones that
speak of one subject into a property of the run: `CallSafe`, `StageSafe`, `StageSteps`,
`AsksSafe`, `InputsSafe`, `LaunchSafe`, `GateSafe`, `EnvSafe`, `StoreSafe`, `NothingLost`,
`SplitSafe`, `CloseSafe`, and `ClaimSafe` of `ExecutorClaim`, each with the module's type invariant in one of them; `EndsAsDeclared` of
`FlowEngine` is the engine's termination with `UndeclaredOnlyByHuman`. Under `hazards`,
`PROJECT.json` names the parts that speak of each hazard. Every part but those of `EnvSafe` has a mutant
definition in its module that breaks it; the mutant listed for a run breaks the one named
first here:

| Property | Parts and the mutants that break them |
|---|---|
| `ClaimSafe` | `SerialExclusion`: `CheckRunner_Skipped`; `TypeOK`: `WritePayload_ByName` |
| `EnvSafe` | `Withheld`: `load_env_file_NewlySet` |
| `CallSafe` | `SettledByResult`: `Parse_ExitFirst`; `TypeOK`: `classify_NoCrash` |
| `StageSafe` | `PolicyNotRelaxed`: `fallback_allowed_Any`; `SessionNotReplayed`: `RetryAgain_KeepsSession`; `TypeOK`: `Advance_NoBudget` |
| `StageSteps` | `NoAgentAmongSurvivors`: `classify_exhaustion_StopFirst`; `ResumableKept`: `classify_exhaustion_Last` |
| `AsksSafe` | `AnswersOwnPrompt`: `IsReply_Any`; `GuardedDiff`: `guardrail_request_matches_Kind`; `TypeOK`: `RouteNode_NoBudget` |
| `InputsSafe` | `SealTrue`: `copy_verified_Skipped`; `LaunchAlone`: `clear_foreign_exchange_entries_Staging`; `NoticedNeedsOperator`: `refused_UnsafeOnly`; `OneInputPerRun`: `_freeze_task_and_repo_instructions_Live`; `TypeOK`: `publish_to_exchange_Replaces` |
| `LaunchSafe` | `Demonstrated`: `_pre_launch_check_Tolerant`; `Confined`: `SandboxedShell_Writers`; `Bracketed`: `any_provider_grants_shell_Primary`; `GapAnnounced`: `Restart_Silent`; `PinnedBinary`: `launch_Again`; `ReadyHolds`: `ProbeAccepted_Advisory`; `LaunchTypeOK`: `Refusal_Task` |
| `GateSafe` | `FixerReadsThisFailure`: `_publish_first_failure_log_Last`; `EvidenceCurrent`: `_publish_command_report_Not`; `SkippedNotMerged`: `Record_NoSkipped`; `GreenIsClean`: `RunCheck_Recaptures`; `StallsExactly`: `NextStreak_Kept`; `GateTypeOK`: `Charge_OneMore` |
| `StoreSafe` | `StoredEarned`: `assign_trust_RepoFirst`; `PacketReliable`: `_durable_quarantine_All`; `OneRecordPerId`: `_collapse_by_memory_id_Not`; `TrailTrue`: `record_Additions`; `ValidateForetells`: `_cmd_memory_validate_Any`; `MemTypeOK`: `Written_Cached` |
| `NothingLost` | `NothingLostByCleanup`: `Quarantined_Dropped`; `Recoverable`: `tier_files_Touched`; `RestoredWhole`: `restore_Over` |
| `SplitSafe` | `PredecessorsLanded`, `WorkInOwnCommit`, `CommittedStands`: `FanOut_Forgets`; `CommittedAccepted`: `Stuck_Passes`; `IndexAgrees`: `update_subtask_index_Skips`; `BudgetOwn`: `NextBudget_Kept`; `OperatorSplitStands`: `Planning_Reads`; `PublishedWhole`: `reset_task_for_rerun_KeepsRows`; `CloseTypeOK`: `Rework_Unbudgeted` |
| `CloseSafe` | `PublishedTrue`: `_engine_finalize_NeverDegraded`; `DeviationsSeen`: `_observes_step_Accepts`; `FinalFindingsInPacket`: `findings_entry_AllCut`; `ItemsOpen`: `evaluator_finding_follow_ups_Every`; `FollowUpsFiled`: `_append_follow_ups_file_Once`; `SummaryKept`: `_write_summary_json_Clobbers` |
| `EndsAsDeclared` | `Terminates`: `charge_rework_LoopsOnly`; `UndeclaredOnlyByHuman`: `Matching_ExactOnly` |

## 3. The flow engine

`FlowGraph` holds the graph as constants (`Nodes`, `Kind`, `Edges`, `budgets`,
`Disabled`) and the validator's rules as definitions; `check_graph` is an assumption,
so that a theorem speaks about flows the validator accepts and TLC evaluates it on each
run's flow. Reachability is a recursive function on the number of steps.

`FlowEngine` separates what a crash tells apart: `current_node`, `counters`,
`stall_fp`, `stall_streak` and `outcome` are in the process, `ckpt`, `diff` and the
verdicts are durable. One iteration of `FlowEngine.run()` is two steps, because the
crash that matters falls between them: `ExecuteNode` (`SkipNode`, `RunAgent`,
`RunDeterministic`, `RunEvaluator`) may record a verdict; `TakeEdge` (`TakeForward`,
`TakeRework`, `Park`, `Finish`, `Mismatch`) writes the checkpoint. `Cancel` is the
graceful stop, `Interrupt` a crash or a raising provider, `Resume` the hydration of a
restart, `Continue` the `rerun --continue` with its refusals. A diff or a list of
findings is a member of a small set: the guards only compare them. `loop_counters` is
one dictionary with four families of keys, as in the code, so that names can collide.
`reworks` and `idle` are history and no guard reads them.

The run `flow_engine` has a flow with each thing the packaged flows have: a node its fact
skips, a tool with an inline budget, a blocking review and an advisory critic that share a
loop, a fixer, an approval whose denial has no edge, and a publish node outside the region;
with two diffs, two lists of gating findings, one interrupt and one `--continue`. Budgets,
backstop, stall guard and the advisory promise hold, and under fairness the traversal ends.

Bounds: caps of one to four let each limit be the one that is met first, two diffs and two
findings distinguish "the same" from "changed" (three equal verdicts and two unchanged
rounds both occur), one interrupt at every point plus one grant covers a crash before
and after a grant. Fairness (`FairSpec`): the process steps while it is up, the
node runners return since providers run under timeouts, and the daemon resumes a
stopped task.

## 4. The task lifecycle

`TaskLifecycle` models tasks under one executor. Durable state: `row` (status, whether
a branch and a checkpoint node are set, the cleanup verdict, the block, whether the
normalized artifact can be read, whether a subtask commit is torn), `pend` and `filed`
(where a file with the task's id is, and whether its bytes are the registered ones) and
`ledger` (records per kind). `pc` names the write the executor is about to make; each
durable write is one step, so `Crash` can fall between any two. The phases:

- `Resume`: `ResumeManual`/`ManualStatus`/`ManualRecord` stop ambiguous tasks,
  `ResumeCorrupt`, `ResumeCeiling`, `ResumeFromTop`, `ResumeFromNode` are the branches of
  `_resume_task`, `ResumeCleanup`/`CleanupRecord` retry a cleanup;
- `Admit`: `Claim` (first file in scan order that is not settled), `GateReject`,
  `Register`, `Validate`;
- `RunTask`: `Drive`, `PrepareBranch`, `Ready`, `Seed`, then what the engine may come
  back with (`EngineDone`, `EngineStops`, `EngineExhausted`, `EnginePark`);
- `GoTerminal`: `_fail` and the writes of `_go_terminal` in their order; `FailRaises` is the
  refusal `_fail` does not catch, which from `run_task`'s own handler (`pc = "handler"`)
  takes the process down;
- operator commands while the executor is down: `Rerun`, `Continue`, `Finalize`, and
  `Submit`, a person who puts a file into `pending/`.

`Transition` asserts the move against the pipeline's own copy `src`, as the code does,
and goes to `invalid` when the assertion would raise. `ends` and `finished` are history.
File moves may fail (`OSError` is swallowed in the code), which is the stutter in
`Relocate`.

Runs, with two tasks (one holds the slot, one waits), one crash or stop, one park, one
operator command: `task_lifecycle` adds a stray file and checks the safety properties,
`task_liveness` leaves it out and checks, under fairness, that an active task ends and
that a waiting file is taken up even behind a cleanup that stays blocked.

Commands are bounded because an operator who runs `rerun` for ever keeps a task alive for
ever. Fairness: `Start` (the daemon is started again), `Step` (a
begun step ends) and `WindowOpens` (a provider's window reopens, or the park ceiling is
reached). Fairness is weak and on the whole executor, not on one outcome: a cleanup may
stay unsafe for ever. `ActiveSettles` excepts one thing the code does lose: a task whose
process died between the insertion of its row and its validation.

## 5. Publication

`GitPublish` follows one task from the last stage before its publish node to the end of
its pull request. A sha is the set of commits reachable from it, so `merge-base
--is-ancestor` is set inclusion and `rev-list --count` a cardinality; `NoSha` is a missing
ref or a remote that does not answer. A commit is its maker and a number. Durable state:
the clone (`local`, `dirty`, `merging`, `filed`), origin (`remote`, `base`), the pull
request, and the task's rows (`op`: the status of each publish operation, `pushed`:
`pushed_sha`, `ref`: `gate_reference_sha`, `life`, `at`). `pc` names the next write;
`Crash` can fall between any two. The groups of actions:

- `Flow`: the stages before publication as one, with an agent that writes, commits or
  amends, and the ways out (`WorkPasses`, `WorkStops`, `WorkFails`);
- `Committing`: `_finalize_task_artifacts`, the gate, `commit_code` with
  `_adopt_committed_head` and `_commit`, `commit_audit`;
- `Adopting`: `adopt_foreign_commits`, `_adopt_remote_commits`, `commit_merge_resolution`,
  `_recheck_adopted`;
- `Pushing`: the four cases of `push`, its lease, its record, and `push_branch_update`;
- `Reviewing`: `create_pr`, `_finish_engine_run`, `_auto_merge`, `merge_pr`;
- `Resume`, `Continue`, `Rerun`, `MergeTask`, `RecordExternalMerge`, and `Outside`: people who
  push to the branch or to its base and who close or merge the pull request.

`mode` tells on whose behalf the shared steps run: the publish node, `_fail` (no gate, no
adoption, no pull request) or `merge_task`. An error (`Halt`) may occur at every call to git
or `gh`, and a call may have taken effect although it failed. `checked`, `fresh` and
`unasked` are history: which content checks have passed over, and which content no
dangerous-diff gate has measured.

The run `git_publish` has all caps, one command and two events (crashes, acts of agents or
people). No push drops a foreign commit; the review shows the whole branch; no run works
inside a stale merge.

Bounds: two events are what it takes to move the remote after a foreign commit was seen, to
amend what was pushed and then race it, or to crash and be overtaken; one command separates
two attempts. A published task stops, so deadlock
checking is off. Left out: the branch modes `existing` and `current` (which never abort a
merge), push rows written before `pushed_sha` existed, and the refusal to
push to the base branch. Subtask commits are in `Subtasks`.

## 6. The executors of one home

`ExecutorClaim` models the processes that share a private home: `watch` daemons, `run` and
`rerun` commands and `stop` commands, each one invocation. They meet in four files:
`holder` and `full` are the two markers (who created the file, and whether its line has
been written), `stopFile` is the sentinel and `children` the handle of the daemon's agent.
`pc[p]` is the next system call of process `p`, and a step is one call, so that a check and
the claim it justifies, a create and its write, a probe and its kill are apart. `agents`
are the processes that really run, `event` is what SIGTERM sets, `platform` is chosen by
`Init`: `posix` probes and signals, `nt` takes the presence of a marker for liveness, takes
a daemon's agents down with it, and only has the sentinel.

- `Start` to `ReplaceAtomically`: `_executor_owner` (or the two checks of `cmd_watch`), the
  build, and `write_pid_file` with `exclusive`. `WritePayload` writes to the file it
  opened, which may have lost its name by then.
- `ClearStop` to `UnlinkStop`: `cmd_watch` from its claim through `watch_loop` and the
  agent of a node (`run_process` with its recorder) to the `finally`. SIGTERM is handled
  in the states of `Handled` and fatal elsewhere, since the handler is restored before
  the cleanup. An interrupt while an agent runs is `AgentEnds`, `OnReap`, `Interrupt`.
- `Ask` to `ReapChildren`: `stop_process`, soft and full, on both platforms. The rung is
  free: `_resolve_stop_level` may refuse or be overruled by the operator.
- `Crash` takes any process down anywhere.

`raced` is history and no guard reads it: it records that a command was starting while
another was, or while a stop was at work.

The run `executor` has a daemon, two run commands, a stop, one agent and one fault on both
platforms. Unless starts raced, one process drives the clone; a daemon that leaves by
itself leaves no agent; under fairness a signalled daemon leaves, and on posix a crash
locks nobody out.

Bounds: two runs are two claimants of one marker, a run and the daemon one of each; one
stop is enough for a stale target. A second daemon does not fit this run's
size with the liveness properties; `ClaimSafe` and `GracefulExit` are proved for any
number. Fairness:
each live process keeps being scheduled, and an agent ends because `run_process`
gives it a timeout; nothing is assumed of starts, stops, interrupts and crashes. Commands
end, so deadlock checking is off. Left out: a recycled PID (guarded by the start time on
Linux only) and the single-pass `watch`, which neither holds a marker nor looks at one.

## 7. A provider call and the stage around it

`ProviderCall` is what the router relies on when it calls an adapter: one call at a time,
one answer out of those the provider may give, and no process its barrier knows of left
alive behind any answer but `containment_unverified`. `ProviderOutcome` holds the answers.

`ProviderRun` is the call itself: `BaseCliProvider.run` over `run_process` and the
containments. The agent is a tree that moves by itself (`AgentWrites`, `AgentForks`,
`HelperDetaches`, `HelperEnds`, `RootEnds`, `RootKilled`), beside it run the tracker
(`Track`) and the settle watch (`WatchPolls`, `WatchDecides`), and the call goes
`BuildArgv`, `PreLaunchCheck`, `Spawn`, `Communicate` or `Timeout`, `TerminateAndProve`,
`Parse`. `ImplementsCall` maps it to `ProviderCall` (`INSTANCE ... WITH`): `phase` is the
call's progress, `survivors` what of the group and of the tracked processes is alive when
the call is over.

`AgentStage` extends the abstract call: `run_stage` with its retries, its fresh session
after a lost one, its hop (`fallback_allowed`) and its audit rows; then `Dispatch`, which
makes of an exhausted stage a park, a manual stop or a failure, and `Resume`, which ends
the park. Time is relative to the park: `age` since `blocked_since`, `wait` until
`blocked_until`.

- `provider_run`: one helper, two events, one fault (an unkillable helper, or on Windows a
  job that was not assigned), both adapters, platforms and isolation modes. One helper in
  each of five conditions is enough for every kind of survivor; two events give a result
  followed by more work. `CallEnds` excepts a pipe held by a process nobody can reach
  (`OutOfReach`), which the code waits for without a limit. Fairness: the call's own steps
  and its time limit; agents may live for ever.
- `agent_stage`: two attempts, two retries, a ceiling of two ticks, three windows (below, at
  and beyond the ceiling), the fallback looser than the primary and the reverse.
  Fairness: the daemon's steps, and the clock; a provider may take for ever. The call's own
  answers are those of `ProviderCall`, so the stage's properties rest on `ImplementsCall`.

## 8. The human in the loop

`HumanGate` has every ask of a task: the agent's question, the turn limit, the approval of
a dangerous diff, the hitl node and publication. A file of `rec` is an interaction file,
`sent` and `updates` are the chat, `confirmed` the offset Telegram has been told of. An ask
is `StartAsk` (drain, then send), `WriteWaiting`, `Fetch` until an answer or `GiveUp`,
`WriteAnswer`; a crash may fall between any two, and the node is entered again from its
file. What an agent asks for (`AgentAsks`) has the kind, risk and paths of its typed output; an
approval among them is one that a later gate of the same set takes as given
(`already_approved_in_task`). So a prompt of `sent` is its request and whether it is the
agent's own, whose text need not say what the request names, and `GuardedDiff` asks for the
core's own prompt only where the flow lets no agent ask. `evaluate_diff_gate` and its helpers are the rules of `dangerous_diff.py`. `Reply`
lets a person press any prompt sent so far, at any time, `Expire` lets its deadline pass.

The run `human_gate` allows two prompts, two answers, one fault, two cycles, three
configurations and two requests of the agent: a question, and the approval that a later diff
will match. Two prompts are what it takes to answer the wrong one, two answers to
answer twice. Fairness: the waiting loop, the runner and the clock. Left out: HTTP retries
inside one call to Telegram, and notifications nobody waits for.

## 9. What a run works from

`RunInputs` follows two tasks through one executor: the exchange directory of the task at
work (`dir`), its seals and quarantine, the frozen control bundle and instruction bundle
(`bundle`) with their digests in the row (`stored`), and the operator's live files
(`live`). One step is one durable write: `ClearForeign`, `restore_for_continue`,
`freeze_control_bundle`, `StoreControlDigest`, `freeze_task_packet`, `Launch`, `AgentEnds`,
`assert_exchange_unchanged`, `_go_terminal`, `StageSeal`, `_remove_active_dir` and so on.
A seal copies the entries of the manifest taken before it (`sealed_copy`) and compares the copy
with it. `Forge` is an agent that writes where it should not, also after an attempt whose end could
not be proven (`orphan`).

The run `run_inputs`: one edit, one forgery, two faults, one command, two launches. Two
faults are what it takes to interrupt a seal and then its recovery. A file has five
contents (none, published, forged, forged and found so, unreadable), since the code compares
hashes and kinds and nothing else. `NoticedNeedsOperator` and `RemovedIsSealed` are
stated for what was noticed and for what the orchestrator published, since the code loses
more than that, see section 15.

## 10. What a node runs

`ToolPolicy` has the rules of both adapters as operators on a configuration, a request and
a host: which mode, tools, sandbox and profile a command line asks for, which request is
refused, and what the started process then reaches. `LaunchPolicy` is the sequence in which
these questions are put while the host changes: `Preflight`, `Start` with
`check_isolation` and the announcement, `BeginNode` with the bracket, `BuildClaude` and
`BuildCodex`, the canary (`_pre_launch_check`), `Launch` of the pinned binary, `Fail` with
the hop, `Compare`, and `Restart`.

`GateNodes` has the nodes no agent decides, with their fix loop: checks (command profile,
citations, dependency scan) and tools. `logs` are the files of the task's directory, `rows`
what matters of `check_runs`, `evidence` what the next node is handed. Programs may fail,
be absent, time out and rewrite the tree in two ways, of which one escapes the comparison.
Crash, `--continue` and a fresh rerun keep what the code keeps.

`ChildEnv` has the environment of the processes worc starts. A process loads its env-file
(`Boot`, after the launch checks; `load_env_file` fills gaps and remembers the names), may
hand its environment to another worc process, as a console does to the daemon (`Inherit`),
and starts agents and checks (`StartAgent`, `build_child_env` and the adapters'
`_augment_child_env`) and git or gh (`StartGit`, `build_git_env`). An agent prints what it
was given or read in a denied file (`Reveal`), may remove that file, and `RecordStreams`
scrubs what is written down: values known as literals, and assignments whose name has one of
the words of the assignment pattern (`_ASSIGNMENT`) and is sensitive by segment. Of a denied
file only the head is read (`Deep` is what lies behind it). `EnvInit` takes the configurations that `_validate_security`
accepts. A name is its segments and whether it has its documented spelling, since the code
asks for segments, prefixes, and equality with and without folding. `EnvSafe` says which
values of the env-file and which secret-named variables reach a child (`Withheld`), what a
record may still show (`SecretsScrubbed`), that an assignment stands under one spelling
(`AssignedStands`; the switch of `background_tasks` is the adapter's), that git's own names stay out (`GitClosed`), that a child can start
(`Launchable`) and that no assigned path leads onto worc's own files (`AssignedApart`).

The run `node_runs` has all three, in `MCNodeRuns`; a behaviour is of one of them, which share
no state. Bounds: one launch with one change of the host and one restart on 17 hosts and
14 configurations, chosen so that each answer of the canary and each refusal occurs; two
sets of checks of which one may be absent, two fix rounds, one crash and one rerun; for the
environment both platforms, two shells (one of which exports a key that the assignment pattern does not know), three env-files and 46 security sections, of which
the loader refuses some, and one line printed per attempt. There is
nothing for fairness to say here; the properties are about states and steps.

## 11. Project memory

`MemoryRows` has the rules: `assign_trust`, `should_promote`, merging, the classification by
the cleanup, the remap of a moved file, and what a packet shows: the set of packets a node may
get, since rows that tie in the ranking are ordered by the hash of their id. `MemoryStore` (`MemInit`,
`MemNext`, `MemSpec`) has the writes: the finalizer's ingestion, the idle cleanup, and an operator's compact, restore,
clear and purge in another process, each file write one step. A snapshot is a directory first (`take_snapshot`) and then one file
after the other (`CopyFile`), so that a process that dies leaves one cut short, which a restore
is offered like any other. `Move` changes the tree; a
process may stop between two writes, between a write and its audit row (`DieBeforeRecord`), or
within a copy that has emptied its file and not yet filled it (`DieInside`).

The run `memory`: two tasks, three deltas, five paths in two trees, one cleanup, one command,
one stop, one tick. The deltas have a lesson that needs to recur, resting on a task's artifact
and the task itself, one believed at once, one that cites the repository and the outside, a remedied failure and cards; the trees move a file onto another's
place and split one in two. Tasks are symmetric. Two processes at once are explored until
both end (`overlap`), and, so that the instance stays checkable, only while the one stop is left
(`Enter`); properties about loss speak of passes that were alone, since the code
has no lock.

## 12. Subtasks and the close-out

`RunRecord` has what is derived from recorded verdicts: the verdict, the steps the
supervisor is shown, the follow-ups, the findings in its packet, and the acceptance of a
split. `Subtasks` has the split itself: `Planning` or the operator's own, `PersistTask`,
`insert_subtasks`, then the fan-out with implementation, review and rework per unit, and
the four writes of its commit, and `_rebuild_decomposition` after a crash. `CloseOut`
adds the supervisor (`observe`, `_engine_post_node`, `finalize`), `summary.json` and `summary.md`, the
deterministic report, the follow-ups file, publication, and a rerun, fresh or continued.

The run `close_out`: plans of two and three units and one that is refused, reviews that pass,
note or send back, one fix round, one crash, one rerun; the supervisor reports no debt of
its own, so what the body and the file must list comes from the reviews. One crash falls between any two
writes; two units are enough for one unit's work to land in another's commit, three for a
predecessor that is not the one before.

Where the code keeps its promise only up to a window, the property names the window:
`WorkInOwnCommit` (a unit that ran again after a crash hid its commit), `BudgetOwn` (a crash
between two units), `OperatorSplitStands` and `PublishedWhole` (a resume inside planning),
`PublishedTrue` (the report an earlier terminal left behind), `SummaryKept` (a crash before
`summary.md`). Section 15 says what documents promise instead.

## 13. What is proved

For every value of the constants, in `FlowEngineProofs`:

- `TypeCorrect`: `TypeOK`, with the bound of the streak as part of it. It is not
  inductive alone: that the streak stays under the limit while a loop goes on
  (`StreakBelowLimit`) is carried along.
- `BudgetsHold` and `BackstopHolds`, for flows in which no loop has the reserved name
  (`ReservedNameFree`). The assumption is needed: section 15 has the
  counterexample without it. The argument is that the counter a round charges is the
  counter its refusal looked at, that the checkpoint is a copy of the counters of a
  taken edge, and that a grant and a converged loop touch no preserved key.
- `AdvisoryPromise`: an advisory evaluator that has just asked for rework left
  counters no limit refuses; nothing charges them before the edge is taken.
- `StallGuardHolds`: the history of idle rounds is tied to the streak and to the diff it
  was measured at.
- `OutcomesDeclared`: `UndeclaredOnlyByHuman`, for flows that have an edge for each outcome a
  node may have without a human (`EdgesComplete`). The validator checks that for the nodes a
  task disables only, so it is a hypothesis about the flow; the flow of the run meets it.

In `TaskLifecycleProofs`, from one inductive invariant
`IInv = TypeOK /\ SlotInv /\ StageInv /\ NodeInv /\ CleanInv /\ RecordInv`:

- `LifecycleTypes`, `SingleSlot`, `TransitionsLegal`, `RecordsOnce`, `DoneIsClean`.
- `SettledTheorem`: `SettledStays`, an action property. Beside `IInv` it needs that the rows
  the recovery still has to stop are active (`TodoInv`). Only a rerun passes the duplicate-id
  gate over a settled row, and the gate quarantines a settled task's file only when its bytes
  are not the registered ones.
- `SlotInv`: while a task is being worked on, no other row is active. `StageInv`: at each
  `pc` the row's status and the pipeline's copy are the ones that stage needs.
  `NodeInv`: a checkpoint exists only for a row that has been running. `CleanInv`: the
  epilogue reaches done only with the cleanup recorded as complete. `RecordInv`: how many
  records a task may have relative to its ends, by stage, which is what makes the
  `has_task_id` test enough. TLC checks `IInv` on the small instance as well.

In `GitPublishProofs`, from
`IInv = TypeOK /\ StageInv /\ PushInv /\ ForeignInv /\ PrInv /\ ReviewSeesAll /\ NoMergeInFlight`:

- `ForeignCommitsKept`: a push replaces a tip only when origin still holds the lease, and
  the foreign commits of the lease are in the branch (`ForeignInv`). That is inductive
  because the branch only ever loses an own tip (an amend), and a fresh rerun forgets
  `pushed_sha` together with the branch; every other push is a fast-forward.
- `WholeBranchReviewed`: a completed push operation means that origin holds the recorded tip
  (`PushInv`), and `_already_published` compares that tip with the branch instead of
  trusting the status.
- `NoStaleMerge`: every way into a run passes `prepare_branch` (`StageInv` says which stages
  belong to which mode, `merge_task` being the one that leaves a merge behind).
- `TypeCorrect`. Finiteness of the commit sets is part of the type, since the adopted count
  is a cardinality. TLC checks this `IInv` too.

In `ExecutorClaimProofs`, from `IInv = TypeOK /\ Launched /\ (raced \/ Serial)`:

- `Types`. `Launched` is needed for the number in a recorded handle.
- `Exclusion`: `SerialExclusion` for any number of commands, stops and crashes, and with
  the types `Claim`. `Serial` says what holds until starts race: a process that holds the
  clone is named by a written marker (`MarkerNames`), so that a check that finds nobody has
  ruled its kind out, and this stays so because only a starting process can become a holder
  (`ChecksHold`); a marker is removed by its holder or by a stop, which drops only the
  marker of a daemon it has read (`StopAims`) and found or made dead (`StopSure`).
- `Graceful`: `GracefulExit`, from `Cared` beside `IInv`. An agent whose barrier did not
  fail is its daemon's last and the daemon is beside it (`Attended`). The handle of the
  last agent is in the file from the record of the launch until the cleanup has read it,
  then in what was read, and then the agent is gone (`HandleKept`); no other daemon
  overwrites it, since one process holds the clone (`Serial`), and no stop drops it while
  a daemon is left to need it (`StopSpares`).

In `ProviderRunProofs`, from `IInv = TypeOK /\ Lives /\ Barrier /\ Watched /\ SettledByResult`:

- `CallTheorem`: `CallSafe`. What the settle watch has read is a result of the file, and
  stays one (`Watched`), whatever the agent writes between its last look and the kill.
- `CallRefined`: `ImplementsCall`, the refinement step by step. The first state maps to one
  of `ProviderCall` (`InitCalls`); `StartRun` is `Ask` (`StartAsks`), every way to end the
  call is `Answer` (`FinishAnswers`), taking the answer is `Take` (`TakenTakes`), a helper
  that ends by itself is `Vanish` or nothing (`HelperVanishes`), and all the rest is a
  stutter (`WorkingStutters`). It needs `Barrier`: behind a barrier that was crossed, a
  process it knows of is alive only if the answer is `containment_unverified`.

and, about `ChildEnv`, from `EnvInv = Loaded /\ Held /\ Launched /\ Handed /\ Echoed /\ EnvSafe`:

- `EnvironmentSafe`: `EnvSafe`, for any configuration the loader accepts and on either
  platform. A variable of the process came from the shell, or from the env-file and then the
  file defines it (`Held`): so what is withheld by name is withheld by origin, also after
  another process has handed its environment on. A process that starts children has passed
  the launch checks and remembers the names of its file (`Launched`). What a child was not
  assigned is the variable of the process as it is now, and so is what it prints
  (`Handed`, `Echoed`): that is why a harvest made when the child has ended finds it.
  `Assembled`, `Augmented` and `AgentsForwarded` say what the operators that build an
  environment return; `NeededForwarded` that the two gates over the allowlist suffice.

And, about `GateNodes`, from `GateInv`, the type invariant and the three state properties with:

- `Numbered`: the logs of the latest run of the checks are those of its results, one each;
- `Recording`: of those results the first k are recorded, and the row names a failure among
  them if there is one, so a crash between two rows leaves a record that is behind, never one
  of another run;
- `FixRecorded`: while the fixer works the row names the very failure it was sent with, which
  is what a new process restores for it (`Restored`);
- `PartialKnown`: a run that skipped something is on record as one;
- `Seen`: what a program of this process changed since the last agent is among the changes the
  run that goes on has seen;
- `Streak`: the streak kept in memory is the longest tail of the same blind failure in the
  history of answers (`StreakCounts` carries it over one more answer).

- `GatesSafe`: `GateSafe`, its two action properties from `PassIsClean` and `StallStep`.
  `GateAssumption` asks of the configuration what validation asks: a set of checks has at
  least one command. An empty set would pass with no log.

And, about `LaunchPolicy`, from `LaunchInv`, the type invariant and the state properties of
`LaunchSafe` with:

- `Vectored`: the vector about to be launched is the one these rules build for the request,
  the configuration and, for Claude, the host as they are now, and Codex's canary has
  answered for this host. Here the model helps: the host does not change between these and
  the launch that follows at once (`HostChange`), since no check could cover that instant;
- `ShellWatched`: the guard or the bracket is missing only where no provider of the route
  has a shell (`Shellless`): asked before the vector is known, on a host that changes, the
  answer depends only on the system, which does not change (`NoShell`);
- `Announced`: what the configuration in force gives up was said whatever the host was then,
  so also after a restart with an edited one;
- `Proved`: what preflight found of Codex is so while its word counts, and then the vector
  is built and the canary passes (`ReadyAnswers`, `CanaryKnown`, `SmokeKnown`);
- `Attempted`: what runs is what the route names and the configuration allows.

- `LaunchesSafe`: `LaunchSafe`, `Bracketed` from `BracketedStep`. `ClaudeKept` and `CodexKept`
  say what a started process reaches given its vector and its sandbox; `FirstProbe` what the
  first probe that answers wrongly decides.

And, in `ExecutorClaimProofs`, about `Subtasks` and `CloseOut`, from `CloseInvariant`, the
conjunction of `CloseTypeOK` and these:

- `PhaseInv`, `MemInv`: what the checkpoint says of the place of the process, and that its
  memory (plan, unit, commits it handed on) agrees with the tables wherever it reads both;
- `EarlyInv`, `FirstInv`: before the run leaves planning nothing has been committed; without a
  crash the decision is written once and an operator's is the one that runs;
- `RowsInv`: the rows are the first orders of the plan, all or none of them once planning is
  behind, and the index names the sha of every committed row;
- `UnitInv`: what the fan-out has behind it is what the rows say is committed, and its unit is
  the next of its plan;
- `BranchInv`: the branch, the uncommitted changes and the recorded commit operations agree:
  a recorded commit holds the work of the units recorded for it, the tree and a tip no
  operation knows that of the next unit, and anything else is work done again after a crash;
- `EvalInv`, `BudgetInv`: the last verdict is of the unit at hand, and every counted fix
  round was asked for by one (`RoundsPaid`), in a loop that begins afresh (`FreshBudget`);
- `SeenInv`: the deviations the supervisor was not shown are no more than the crashes;
- `TurnInv`, `BodyInv`: what the two summary files, the follow-ups in memory and on disk and
  the body hold at each step of the close-out, and whose they are.

- `SplitTheorem` and `CloseTheorem`: `SplitSafe` and `CloseSafe`, the action properties among
  their parts from one more pass over the steps. `CloseTypes` is the type invariant alone.
  `FinalFindingsInPacket` is about a packet filled row by row up to two budgets: `Recursion`
  and `UpTo` say what a function by recursion on the rows is, `Walk` what the walk keeps, and
  `PacketKept` that each final verdict keeps its first finding within the budgets.

In `AgentStageProofs`, from `IInv = StageSafe /\ Budgets /\ Calls /\ Hops /\ Sessions /\ Left`:

- `StageTheorem`: `StageSafe`. `Hops` says that the provider about to be called may follow
  the last attempt, `Sessions` that a session still on offer is the primary's and that no
  attempt has lost it; a park's wake instant is folded to the ceiling before it is stored.
- `StepsTheorem`: `StageSteps`. Survivors are known only behind an answer that says so, or
  behind a stage that ended for it (`Left`), and there no attempt starts; `Calls` ties the
  stage's place to the phase of the abstract call.

In `HumanGateProofs`, from
`IInv = TypeOK /\ Places /\ Ended /\ MayAsk /\ Matched /\ Waits /\ Shown /\ RepliesToSent /\ Cleared`:

- `AsksTheorem`: `AsksSafe`. The prompt in flight is for the request its file will hold
  (`Waits`), a file with a prompt holds what the prompt was asked for, and its answer was given to
  that prompt (`Shown`); a gate asks about the tree as it is (`Matched`), and what has left
  the node was approved by a reply to a prompt for exactly its risk and paths (`Cleared`), which
  is an agent's own only where the flow lets agents ask (`MayAsk`, `RepliesToSent`). The
  chat only grows (`Grown`), so an approval once given stays on record.
- `DenialTheorem`: `DenialStands`, an action property: an answered file is no longer
  resettable, so neither a restart, a continue nor a mark replaces the answer.

And, in the same module, about the project memory, from `MemoryInv`, and from `SnapInv` beside it:

- `FilesInv`: a tier file and its copy in a snapshot hold rows of that tier only, which for a
  lesson file are rows that earned their place (`EarnedRows`) and for the quarantine rows
  whose trust agrees with their evidence (`HeldRows`). This is stronger than `StoredEarned`:
  what a process will still write (`SideInv`) must be such rows too, since it computed them
  from files that another process may have replaced since, or that a restore brings back.
- `SideInv` also says what a plan looks like: one append, and first; a restore ends with its
  rollback and writes nothing else's rows.
- `DistinctInv` and, of each process that nobody works beside, `AloneInv`: what is in a file
  and what a plan will put there has each id, or card name, once. With two processes at work
  (`overlap`) neither holds, as the code has no lock.
- `RestoreInv`: a file is as the snapshot has it, or the plan still has the write for it.
- `FoundInv`: what a pass found is in a file it will not replace, or in rows it will
  write. A plan has two writes at most, the tier first and the quarantine second.
- `TrailInv`: between two steps the trail is the files, except inside a restore, whose
  rollback writes the trail anew.
- `SnapInv`: what a pass or a clear found is in a snapshot that nobody is still taking, which
  is why a stop between or inside two writes loses nothing; a file of the snapshot being taken
  is still to be copied or is in it as it stands (`CopyInv`), so one that was finished is the
  store as it was when it began.

- `StoreTheorem`: `StoreSafe`. `PacketReliable` follows from the rows alone, so it holds for
  every order among tied rows; `OneRecordPerId` from `DistinctInv`, `TrailTrue` from
  `TrailInv`. The lemmas on `MemoryRows` say what each rule returns: a merge
  (`MergedEarned`), a promotion (`PromotedEarned`), a remap (`ClassifiedLesson`) and a collapse
  (`AbsorbedEarned`) keep what earned a row its place, and a pass's plan keeps ids apart and
  keeps what was known (`EntitiesCleans`, `LessonsCleans`,
  `DuplicatesCleans`).
- `LossTheorem`: `NothingLost`, its action properties from one more pass over the steps
  (`CleanupKeeps`, `RestoreEnds`).

In `RunInputsProofs`, from `IInv = Typed /\ Alone /\ Kept /\ Noted /\ Frozen /\ Sealed`:

- `InputsTheorem`: `InputsSafe`. From the moment foreign entries are cleared the task's own
  directory is the only one (`Alone`); an orphan writes into a directory that is there, so
  not beside it. Recorded tampering stays flagged until a continue forgives it, and no pass
  comes past the guard with the flag up (`Noted`). What ran is what the row's fingerprint
  and packet digest say, and these change only while nothing has run on them (`Frozen`);
  that needs `Kept`: a pass that starts afresh has no launch behind it, because a launched
  row keeps its checkpoint. Every seal is a tree with its own manifest, as part of `Typed`; the copy has
  every published file the directory still held when it was made (`SealedCopy`).
- `RemovedTheorem`: `RemovedIsSealed`, an action property: while the directory goes, what
  is left of it that the orchestrator wrote is in the newest seal (`Sealed`).

In each of these four `TypeCorrect` is the type invariant alone. TLC checks every
`IInv`, `Cared`, `EnvInv`, `GateInv`, `MemoryInv` and
`LaunchInv` as invariants of the same instances, and
`CloseInvariant` of instances like its own with other budgets and numbers
of crashes.

The only assumptions are the typing of the constants (`LifecycleAssumption`,
`EngineAssumption`, `PublishAssumption`, `NamesAssumption`, `BoundsAssumption`,
`ProviderAssumption`, `EnvAssumption`, `GateAssumption`, `RunRecordAssumption`,
`SubtasksAssumption`, `CloseOutAssumption`, `MemoryAssumption`, `StoreAssumption`,
`LaunchAssumption`, `OutcomeAssumption`, `StageAssumption`, `HumanAssumption`), that the
commands are distinct processes (`ProcsAssumption`), and the checks of the validator in `FlowGraph`
(`FlowValidated`). `ReservedNameFree` and `EdgesComplete` are hypotheses of the theorems that
name them.

Only model-checked: liveness (`Terminates`, `ActiveSettles`, `QueueDrains`, `StopHonoured`,
`NoLockout`, `CallEnds`, `ParksEnd`, `AskEnds`), which is out of the prover's
reach. Every other property of a run is stated by a theorem. The bounds on crashes,
commands, prompts and time (`MaxStops` and its kin) are constants there, of any size.

## 14. Not modelled

Except in `ExecutorClaim` and `MemoryStore` one executor is assumed: what two processes do
to one database and one clone is not modelled. Dependencies between tasks,
`confirm_next_task`, `--once` and the branch modes `existing` and `current` are not
modelled; nor are the schema migrations. The configuration but for its security section,
prompts, packet layout, the token shapes of the redaction, `denied_read_path_collision`, the wizard, logging, progress and cost figures are functions on text whose order and
interleaving nothing depends on, and stay out. `WindowOpens` and `ResumeCeiling` of
`TaskLifecycle` stand for time without a clock; `AgentStage` has the clock.

Modules meet at an outcome: `FlowEngine` takes from a node what `GateNodes`, `HumanGate` and
`AgentStage` say it may return, `TaskLifecycle` from the engine what `FlowEngine` says.
Only `AgentStage` over `ProviderCall`, and `CloseOut` over `Subtasks`, are composed in one
state space; the others' product is too large to check.

Each property has a mutant: a definition with the suffix of its defect
(`rework_refusal_OneMore`), placed before the definition it would replace, which makes
the run fail.

## 15. Where documentation and code differ

### Properties that TLC refutes

No run is kept for these; the definitions are in the modules, and TLC finds a
counterexample to each when it is put in a configuration as the only property.

- `Terminates` over a flow whose denied approval leads back to the draft: "bounded loops
  guarantee runtime termination" (`validator.py:321-322`); only rework and fail edges are
  charged.
- `BackstopCountsEveryRound` over a flow with a loop called `global_fix_iterations`: "this
  reserved name cannot collide" (`run_state.py:34-36`).
- `FinishedNotRedriven`: a restart continues from the checkpoint (`orchestrator.py:2543-2544`,
  `README.md:28`); the checkpoint is cleared (5176) before the status is written (5186).
- `EveryEndRecorded`: "one JSON record per terminal transition" (`ledger.py:3-4`); a crash
  after the status and before the record loses the record.
- `AcceptedNotRefused`: a crash between the insert of a row as new and its validation; the
  restart refuses the task as a duplicate of itself (`README.md:28`).
- `FailureReachesEnd`: "a publish error here is logged, not raised" (`orchestrator.py:4895`);
  `ManualActionRequired` leaves `_fail`, and in `run_task`'s handler nothing catches it.
- `OneExecutor`: "exactly one wins" (`process_control.py:246`, `cli.py:2083`); a marker created
  and not yet written (253) is read as stale and replaced.
- `WorkInReview`: a continued run's work is published (`orchestrator.py:1603-1606`); a completed
  commit operation (`git_manager.py:2896`) returns the old sha. A crash inside `_fail` is enough.
- `CheckedWhenSent`: what is pushed has passed the checks (`git_manager.py:3206-3214`); the fourth
  case of the push may send a combination none has seen.
- `GateSawAll`: the gate measures against its reference (`git_manager.py:2455-2457`); a failed
  attempt is committed before any gate (`orchestrator.py:4919`).
- `AdoptedNotOurs`: "commits the orchestrator did not make" (`git_manager.py:2834`); an own
  audit commit, or a commit whose record a crash lost, is counted.
- `MergedWithBase`: "pull base into the task branch" (`orchestrator.py:2144`); a completed merge
  operation is not repeated, and the pull request is merged without the base.
- `ReferenceOnBranch`: "clear all per-attempt state" (`state_store.py:964`); a fresh rerun
  keeps the gate reference of the attempt before it.
- `NothingOrphaned`: "Nothing is orphaned" after the full rung (`process_control.py:536`); the
  handle is read before the daemon is killed, and an agent launched in between survives.
- `PendingStopHonoured`: a soft stop that timed out stays pending "so the daemon still exits
  at its next node boundary" (`process_control.py:530-531`); on nt a request written
  between the claim and `ClearStop` is cleared with the stale sentinel.
- `SurvivorReachable`: "an unproven subtree keeps the handle so a later stop/recovery can
  still reap the survivor" (`providers/process.py:699-700`); the next agent overwrites it.

### Windows the modelled properties except

Met while the properties were made to hold; each is a behaviour of its module.

Engine: `engine.py:23-24` says "increment then compare"; the limit is compared before the
charge. The key of a total budget is a pair in `FlowEngine` (`total_key`), while the code puts a
prefix before the loop's name (`run_state.py:64-66`): a loop that was itself named
`total_fix:x` would share the counter of the loop `x`.

Providers:
- `_is_cancelled` is asked only at a hop's first error (`router.py:441`): a stop during the
  retries may start an agent again, against the comment at 436-440; and a retry's reset
  instant is not folded into the earliest one.
- `blocked_since` survives normal running, while `schema.py:177-186` speaks of the total
  parked time.
- On Windows an agent whose job was not assigned is not killed by its time limit; on POSIX
  an untracked orphan that holds stderr makes `communicate` (`process.py:685`) wait for ever.
- `isolation_reasons` asks about the configuration's profile, not the node's; a resumed run
  announces its posture and does not repeat `check_isolation`; the canary does not probe the
  tree of a read-only Codex node.

People:
- A turn gate denied while the process waits ends as "done" (`agent.py:1128-1138`) against the
  comment at 373; after a restart the same denial is manual.
- "Any prior in-task approval of the identical change — a planning pre-approval" counts for a
  later diff (`diff_gate.py:72-86`, `agent.py:669-671`, `publish.py:293`). The risk and the paths
  of an agent's own request are the agent's choice (`hitl.py:165-195`), and its prompt shows only
  kind, question and context (`human_gate.py:69-77`, `telegram.py:646-660`). So a person may have
  approved a set the prompt never named. `GuardedDiff` promises a core prompt, which names the
  set, only where agents may not ask; the stronger form is refuted by TLC.
- A hitl node visited again replays its consumed answer; the drain before a prompt confirms,
  and so drops, an answer already given to an earlier prompt of the node.

Environment:
- The names of the env-file are those of the file a process itself loaded: a console started
  with `--env-file X` starts a daemon that loads `.worc/.env` (`cli_shell.py:240-244`), so what X
  held is an ordinary variable there. `Withheld` speaks of one env-file for all processes.
- `_GIT_ENV_SCRUB` and `_GIT_HARDENING_ENV` compare exact spellings (`git_manager.py:381-383`):
  on Windows an assigned `ssh_askpass` or `lc_all` stays beside the pinned or removed name.
  `GitClosed` excepts such an assigned name.
- The switch of `background_tasks` is the adapter's "so the setting decides" (`claude.py:1818`); an
  assignment of it in `extra_environment` passes validation and is replaced or dropped, and on
  Windows one in another spelling stays beside it. `AssignedStands` excepts that name.
- One name policy is said to serve "the assignment matcher above, by structured mappings, and by
  env-var harvesting, so all three agree" (`redaction.py:92-95`, and 208-209: an assignment
  "loses its value, gated on the whole-segment name policy"). The matcher is asked only about
  names with one of the words of `_SENSITIVE_WORD` (80-83), which lacks `pwd`, `passphrase` and a
  plain `key`: `PWD=`, `DB_PWD=` or `SIGNING_KEY=` stays as an assignment unless its value is a
  harvested literal, that is, when the value is short, granted or a working directory.
  `SecretsScrubbed` says exactly that, and no more.
- Literals are matched on word boundaries only, an assigned value up to the first blank, and of a
  denied file only the first 64 KiB are read (`redaction.py:284-320`; `Deep`): what is behind them
  may be written.
- A check's output goes to its log as it is; a denied file that is removed before the attempt
  ends is no longer harvested (`redaction.py:284-325`), and what the agent read there is written.

Exchange and bundles:
- `exchange_active_unsafe` is said to "block every later provider launch until an operator
  resolves it" (`orchestrator.py:5232`); the next task's start deletes the tree and launches.
- A contaminated tree is "never sealed and never restore-eligible" (`exchange_seal.py:24-27`);
  a crash between the terminal status and the quarantine lets a continue adopt it.
- What is removed is said to be "known-clean (already manifest-verified)"
  (`exchange_seal.py:247`); a file that came after the manifest is in no seal and is removed too.
- A crash while the active directory is removed leaves part of it, which a continue uses; one
  before the seal, followed by another task, makes a continue restore an older seal.
- `build_exchange_manifest` (`exchange_seal.py:490`) may raise past its caller at
  `orchestrator.py:3371`, against the comment at 3311-3321 (`Escape`).
- A crash between the instruction manifest and its digest in the row makes later continues
  refuse; only a fresh rerun helps.

Gates:
- `_mutated_working_tree` promises that "any edit a check made to tracked or untracked files
  trips it" (`checks.py:324-333`); new content of an already untracked file shows neither in
  `git status` nor in `git diff HEAD`. A rewrite cut off by a crash is in the next
  comparison's base, and passes; `GreenIsClean` speaks of what one process ran.
- The evidence restored after a restart is the newest failed row's, also when a later run
  passed and when the check was absent, against `state_store.py:1587-1593`; rows of an
  earlier attempt survive a fresh rerun and still withhold the merge.
- A tool's streak of equal failures is lost on a restart; a check that timed out counts as a
  failure and is charged, a tool that timed out is manual.

Subtasks and close-out:
- "A subtask with a verified commit is never re-run": a crash between the completed operation and
  the row runs it again, and its work is swept into the next unit's commit.
- A shorter plan leaves the rows of the longer one, which a later rebuild runs; the same
  slug keeps the old text.
- An operator's split is not known to a resumed run (`orchestrator.py:914-920`): planning may
  overwrite it, against the comments at 3280-3284 and 4504-4506; and with planning disabled a
  crash between the acceptance and the rows publishes nothing implemented.
- The report an earlier terminal left is published again when the later finalize turn
  fails, and not marked as degraded; after a crash between the two files the deterministic writer
  replaces a synthesis, which it "must NOT clobber" (`supervisor.py:1450-1455`).
- `follow-ups.md` has "one section per finished task"; a repeated finalize adds another. Findings
  of an earlier attempt's units appear again after a fresh rerun.

Memory:
- A restore without a label takes the last one in alphabetical order, so a clear is preferred to
  any later cleanup (`cli.py:3138`); labels have a resolution of a second, so that two clears
  in one share a directory (`reused`).
- A restore is said to return the store "to the *exact* pre-snapshot state" (`service.py:460-466`).
  A snapshot whose process died while copying it (`audit.py:176-190`) looks like a whole one, is taken by
  a restore without a label when its name is the last (`cli.py:3045`), and that restore
  unlinks the tiers it lacks (`service.py:468-477`): their rows are then in no file.
  `RestoredWhole` excepts such a snapshot, and `Recoverable` speaks of what a pass
  found, which begins once its snapshot is whole.
- A copy that died inside a file may end in half a line, on which `read_jsonl` stops; the model
  leaves such a file empty.
- A cleanup replaces a tier before it writes the quarantine: in between a row is in the snapshot
  only, against `cleanup.py:13-14`.
- `compact`, `restore` and `clear` look once for an active task: writes of the daemon may be lost,
  against `cleanup.py:4-5`.
- A lesson first proposed before the window never recurs within one (`service.py:303-304`).
- A lesson quarantined because its file is gone is still shown (`packet.py:176-189`).
