# Noryx CLI: TLA+ models

Noryx CLI (`src/nexus`) is a coding agent: it turns a request into a plan or a
conversation with a hosted model, lets the model call tools that read and change a
workspace, asks the user where a change needs a review, and keeps on disk what it did so
that a killed run can be explained, rolled back or resumed. What is hard in it is not any
single function; it is what happens when several processes share a session, when a process
dies between two writes, when a provider fails in the middle of a failover, when a review
interrupts a tool exchange, when a stale test result vouches for changed files, or when
several workers' results meet in one workspace. These modules model those parts, TLC checks
them on small instances, and TLAPS proves the properties that matter most for every value of
the constants.

Paths are relative to `src/nexus` unless they start with `src/`, or are files at the root of
the repository (`README.md`, `CHANGELOG.md`, `CAPABILITIES.md`) or under `scripts/`.

Contents: 1 Inventory - 2 How the components interact - 3 The modules and the code - 4 The
runs - 5 Bounds - 6 Fairness - 7 Proofs - 8 Where code and documents disagree - 9 What is not
modelled - 10 Plan.

## 1. Inventory

For each component that is modelled: the state it keeps, what is hard about it, and what makes
it correct. The complete list, with the components that are not modelled and the reason, is
`components` in `PROJECT.json`; the hazards, each at its line, are under `hazards`.

**Files and records**

- *JSONL logs* (`storage.py`, `run_state.py:_append_jsonl`). The lines of the event, model call
  and tool call files. Hard: several processes, a kill inside `os.write`, a short write, a suffix
  that does not decode. Correct when records are numbered by position, an acknowledged record is
  never destroyed, and nobody waits for ever.
- *Run ledger* (`run_state.py`). `session.json`, a directory per turn with `state.json`, the
  report and a PID lock. Hard: a lock that only some writers take, a kill between any two files,
  a failing write. Correct when a turn number is given once, the session lists turns in order,
  and it calls no turn closed whose files are not.
- *File mutation* (`mutation.py`, the edit tools). A file, its inode, two layers of locks, a
  temporary file. Hard: the locked inode is the one `os.replace` takes away; other programs
  write. Correct when no unseen version is overwritten and every write returns.
- *Staged changes* (`multifile/`). A plan over several files, its stages, the artifacts of each.
  Hard: failures in the middle of a patch, a kill between a file and the artifact. Correct when a
  failed patch leaves nothing and a resume skips only what was completed.
- *Undo history* (`history.py`, `workspace_journal.py`). Snapshots, records, captures around
  commands. Hard: failures between snapshot, change and record, other programs' writes. Correct
  when the history explains how the workspace came about.
- *Isolated workspace* (`workspace.py`, `runtime/workspace_manager.py`). A worktree or a copy and its way back.
  Hard: the user edits and commits meanwhile; an apply, or its rollback, fails half-way. Correct
  when neither the agent's nor the user's work is lost.
- *Engineering memory* (`intelligence/engineering/memory.py`, `long_horizon.py`,
  `integrity.py`, `failure_learning.py`). Signed records of a session. Hard: two processes, one
  key made at first use, failed writes. Correct when a saved record stays and phases move along
  the allowed transitions.

**A turn**

- *Hosted turn* (`runtime/kernel.py:run_interactive`, `agent/core.py`, `turn_coordinator.py`,
  `memory.py`). The kernel's messages and the agent's history. Hard: a generator the caller may
  abandon at each yield, a review inside a batch of calls, compaction at any length. Correct when
  requests follow the tool protocol and a run ends after a bounded number of them.
- *Tool gates* (`tool_executor.py`, `approvals.py`, `policy.py`, `safety.py`,
  `capabilities.py`, `intelligence/engineering/scope.py`). Queues of confirmations and held
  edits, the scope. Hard: the order of the gates, an answer that arrives for something that has
  changed. Correct when one answer allows one operation, once, and no call leaves the scope.
- *Turn verification* (`pipeline.py`, `run_finalizer.py`, `evidence.py`, `report.py`, `repair.py`) and
  *test evidence* (`verification_evidence.py`, `verification.py`,
  `intelligence/engineering/semantic.py`). The evidence log, revisions of the workspace,
  provenance of tests. Hard: evidence older than the files it is about. Correct when VERIFIED
  means tested as it is now, and what is recorded of a test happened.
- *Completion contract* (`multifile/orchestrator.py`, `multifile/ledger.py`,
  `intelligence/engineering/brain.py`). Obligations of a task. Correct when a complete task was
  changed and tested as asked, and nothing else was.
- *Planning* (`planner.py`, `planning/`). A list of steps and a canonical plan that is revised
  after failures. Hard: two faces of one plan, saving and resuming. Correct when order, mutation
  and verification survive every revision.
- *Plan execution* (`pipeline.py`, `agent/core.py`). One turn per step under one budget. Hard:
  cancel, kill, resume. Correct when retries and model turns are bounded and the loop ends.
- *Task DAG* (`runtime/kernel.py:run_dag`, `two_node_backend.py`). Step states, repairs,
  checkpoints, proposals in memory. Hard: any graph and order of outcomes, two budgets, a crash
  between checkpoint and plan. Correct when dependencies come first, budgets hold, the verdict is honest.
- *Local model and ceiling* (`nova_backend.py`, `nova_runtime.py`, `two_node_backend.py`).
  Candidates and their tests. Correct when what is applied was tested and not rejected.
- *Recovery* (`recovery/`, `repair.py`). Attempts per failure, a ladder of strategies. Correct
  when repair turns stay within their limits.

**Teams of workers**

- *Collaboration* (`collaboration/lead_orchestrator.py` and what it drives). Assignments, scope
  reservations with an expiry, workers, results. Hard: timeouts that abandon a thread, cancellation at any await.
  Correct when scopes of live workers are disjoint and only verified work is integrated.
- *Integration* (`collaboration/integration.py`). Lead workspace, copy, snapshot. Hard: four
  walks of one tree, each ignoring other paths; foreign writes; one failing write. Correct when
  the workspace holds exactly the accepted changes, or what it held.

**The machine around it**

- *Model budget* (`budget.py`) and *failover* (`api.py`, `runtime/provider_manager.py`). Usage,
  resting keys. Hard: a call is authorised before its size is known; retry layers multiply.
  Correct when spending stays within the limits and every call ends.
- *Sandbox, processes, hooks* (`sandbox.py`, `process_gateway.py`, `hooks/`), *background jobs*
  (`tools/background.py`), *tool servers* (`mcp/client.py`, `plugins/worker.py`). Process groups,
  reader threads, pipes, pids. Hard: descendants that stay, reused pids, late answers. Correct when a command leaves nothing
  behind, a job that outlives its limit is ended, an answer belongs to its call.
- *Extension platform* (`platform/`). Registry, grants, hosts. Hard: read-modify-write without a
  lock, kills inside a write. Correct when a permission ends with its use or its extension.
- *Command line* (`cli/cli_impl.py`, `ui.py`, `run_catalog.py`), *web application*
  (`webapp/server.py`), *teams* (`enterprise/governance.py`, `autonomy/projects.py`). Sessions, tables of agents, shared JSON
  files. Hard: several clients, eviction of a working agent, overlapping commands.
- *Campaign* (`competitive_*.py`) and *release* (`release/`, `scripts/`). Reports and manifests
  that change while they are made. Correct when a claim or a release rests on fresh results.

## 2. How the components interact

    cli / web --> agent/core --> Planning --> PlanExecution --> HostedTurn --> Failover --> ModelBudget
                     |                            |                |
                     |                            +--> TaskDag     +--> ToolGate --> tools --> FileMutation
                     |                            +--> NovaTurn    |                  |--> UndoHistory
                     |                                             |                  |--> SandboxedCommand
                     |                                             |                  |--> BackgroundJobs
                     |                                             |                  +--> ToolServer, ExtensionPlatform
                     +--> Collaboration --> LeadIntegration        +--> StagedChange
                     +--> end of a turn: VerifiedTurn (TestEvidence, CompletionContract) --> IsolatedWorkspace
                     +--> every step: RunLedger --> JsonlLog; EngineeringMemory

Four kinds of interaction matter:

- *Files shared by processes.* `RunLedger`, `JsonlLog`, `EngineeringMemory`, `Governance`,
  `ExtensionPlatform` and the undo history are read, changed and written back by several
  processes; their modules have a step per file operation.
- *Calls and generators in one thread.* The agent calls the kernel, which calls the client and the
  tools and yields events; the caller may stop at any of them. One agent makes one call at a
  time (its run lock), so a step is what happens between two points where something else can.
- *Threads and processes.* Workers, tool servers, reader threads, watchers and web clients run
  side by side; a step is what one does without waiting.
- *Evidence.* Verification, completion, the campaign and the release judge by records made
  earlier. Their modules keep the revision or the stamp at which a record was made, so that
  "still true" is a question about two states.

## 3. The modules and the code

One module per component, parameterised by CONSTANTS. `map` in `PROJECT.json` gives every
definition its lines; a helper whose lines are named by the row of the definition that uses it has
no row of its own. Eight modules, named `...Proofs`, hold the theorems; section 7 says which is about what. A definition whose
comment starts with `Faulty variant:` is no part of the model: it is a plausible bug, used to show
that a property can fail (`mutants` in `PROJECT.json`).

| module | code | a state is | a step is |
|---|---|---|---|
| `AppendOnlyLog` | the promise of `append_event` | the sequence a reader gets | one record appended |
| `JsonlLog` | `run_state.py:_append_jsonl`, `storage.py` | the lines of the file with their tears, each process's place in the append | one system call; a kill |
| `RunLedger` | `run_state.py`, `run_finalizer.py` | the documents on disk, each process's copy of one | one file operation, perhaps failing; a kill |
| `TaskDag` | `kernel.py:run_dag`, `two_node_backend.py:run` | the plan in memory, `plan.json`, the checkpoints | one decision or write of the kernel; a crash and resume |
| `HostedTurn` | `kernel.py:run_interactive`, the agent's event loop, `compact_messages` | both message lists, the reviews waiting | one event of the generator with what the agent does on it |
| `ModelBudget` | `budget.py` | what is accounted and what was spent | authorise a call, account a response |
| `Failover` | `api.py:chat`, `provider_manager.py` | routes left, resting keys, errors | one attempt with its outcome |
| `FileMutation` | `mutation.py`, the edit tools | inodes, the path, both locks, each writer's place | one system call of a writer; a foreign write; a kill |
| `LeadIntegration` | `collaboration/integration.py` | lead, copy, snapshot: files to versions; what other programs wrote | one file copied, compared, replaced, undone |
| `Collaboration` | `lead_orchestrator.py` and what it drives | assignments, reservations, workers | one await of the orchestrator or of a worker; a timeout, cancel, expiry |
| `StagedChange` | `multifile/staged_execution.py`, `patch.py`, `recovery.py`, ... | the plan, the tree, the artifacts on disk | one file written, one stage judged, one artifact saved; a kill |
| `UndoHistory` | `history.py`, `workspace_journal.py` | files, snapshots, records, the saved list | a snapshot, a change, a record, a restore; a failure of each |
| `IsolatedWorkspace` | `workspace.py`, `workspace_manager.py` | source, HEAD, workspace, backup | one file or Git operation of an apply; an edit or commit of the user |
| `ToolGate` | `tool_executor.py`, `approvals.py` | queues, the scope and what it has left, the mode | one call through all its gates; an answer; a mode change |
| `RecoveryLoop` | `recovery/`, `repair.py` | attempts and evidence of each failure | one `handle_failure`; one iteration of the repair loop |
| `VerifiedTurn` | `pipeline.py`, `run_finalizer.py` | the evidence log, the revision, held edits | one stage of the pipeline; an approval; an application |
| `TestCommands`, `TestEvidence` | `verification_evidence.py`, `verification.py`, `semantic.py`, `brain.py` | file contents by revision, records, provenance | an edit, a test run with its output, the verdict |
| `CompletionContract` | `multifile/orchestrator.py`, `ledger.py`, `brain.py` | obligations and their credit | a read, a change, a test; the judgement |
| `Planning` | `planner.py`, `planning/` | both faces of the plan, the saved copy | a plan made, a step started or failed, a revision, a resume |
| `PlanExecution` | `pipeline.py`, `agent/core.py` | step states, the budget, the flags of a cancel | a turn of a step and what is decided about it; a kill, a resume |
| `NovaTurn` | `nova_backend.py`, `nova_runtime.py`, `two_node_backend.py` | tasks, the candidate, what was tested | a reply and what becomes of it |
| `ToolServer` | `mcp/client.py`, `plugins/worker.py` | both pipes, callers waiting | a line written or read, a timeout, a restart; the process answers or dies |
| `BackgroundJobs` | `tools/background.py` | the jobs table, pids, groups | start, watch, stop; a process ends, a pid is reused |
| `SandboxedCommand` | `sandbox.py`, `process_gateway.py`, `hooks/` | the command, its descendants, readers, the registry | a check, a wait, a signal, a reader's step |
| `ExtensionPlatform` | `platform/` | registry, grants file, running hosts | one command's read, change and write; a checked call |
| `CliSession` | `cli/cli_impl.py`, `ui.py`, `run_catalog.py` | the session's agent, the history in memory and on disk | a command or a turn; `noryx rollback` by another process |
| `Governance` | `enterprise/governance.py`, `autonomy/projects.py` | shared files and audit records | read, replace, audit of one command; a kill |
| `EngineeringMemory` | `intelligence/engineering/` | key, sealed files, each process's copies | one locked read or write; a failing one; a kill |
| `WebSessions` | `webapp/server.py` | table of agents, leases, requests | a handler's part between two awaits; the end of a turn |
| `Campaign` | `competitive_*.py` | manifest, repositories, report | preflight, a duel's steps, signing, the gate; an edit |
| `ReleaseGate` | `release/`, `scripts/`, `sbom.py`, ... | the source tree, reports with their stamps | one command that leaves a report; an edit, a repeat, a loss |

What the abstraction keeps and drops:

- Files are versions or contents compared for equality, never bytes; a hash is the version it was
  made from. Texts (prompts, diffs, requests) are the findings the code takes from them, as members of small sets.
- A line of a JSONL file is its records and whether it parses, decodes and is terminated; a kill
  inside `os.write` picks one of five tears.
- In `TaskDag` a step's work is one outcome, and the dependency graph is any graph that passes the code's own cycle check.
- In `HostedTurn` a message is its role and the calls it makes or answers; `compact_messages` is translated with its moving cut.
- In `ModelBudget` money is an integer, and the estimate `(n + 3) // 4` is kept.
- In `LeadIntegration` a file is known by the kind of its path, because the four walks differ in nothing else.
- Git is external: `IsolatedWorkspace` says what a merge and `git apply` do with whole files.
- A test command is its form and its targets; its output is what it lets see (`TestCommands`).

`JsonlLog` is shown, by TLC and by proof, to implement `AppendOnlyLog`: the log is mapped to what a reader
gets back, and the promise holds until a write is torn in a way readers cannot tell from a record.

**Sums.** Five modules put components together for TLC: `MCWork`, `MCTurn`, `MCFiles`, `MCHost`
and `MCProgress`. A sum has the variables of all its parts and one more, `which`, chosen
in the initial state: each behaviour follows one part, and the others stay at one initial state. The
parts share no variable, so this is what a run of each part would show. A sum EXTENDS some
of its parts, whose CONSTANTS the `.cfg` gives values, and takes the others by INSTANCE with their
values; the assumptions of the latter (`ConstantsOK`) are assumed in the sum. What is proved of a part is stated
of a part that its sum EXTENDS, so a run checks the very definition that the theorem names.

## 4. The runs

| run | parts | what it shows |
|---|---|---|
| `MCWork` | `TaskDag`, `PlanExecution`, `RecoveryLoop`, `Collaboration`, `NovaTurn`, `LeadIntegration`, `CompletionContract`, `Campaign` | steps run after what they depend on and repairs and attempts stay within their limits (`StepsSound`); retries, turns and recoveries are bounded (`PlanBounded`, `RepairsWithinLimits`); the verdict of a plan is what its steps say (`VerdictHonest`); what is applied was tested and not rejected (`CandidatesSound`); live workers are apart, only verified work is integrated, cancelled work stays out (`TeamSound`); a complete task was changed and tested as asked (`CompletionEarned`); a claim is earned by the sealed campaign, and a ready campaign can be evaluated (`CampaignSound`); an integration leaves exactly what it reports, a clean rollback is clean, foreign writes stay (`IntegrationExact`) |
| `MCTurn` | `HostedTurn`, `ToolGate`, `Planning`, `VerifiedTurn`, `TestEvidence`, `ReleaseGate` | requests follow the tool protocol, and so does the history until a call pauses for a review (`ProtocolKept`); requests are bounded (`RequestsBounded`); plans and their revisions keep order, verification and bounds (`PlansSound`); one answer allows one operation, no call leaves the scope (`GatesHold`); VERIFIED was tested as it is now and reviewed where that is asked (`VerifiedIsEarned`); records of tests say what happened (`EvidenceHonest`); nothing stale qualifies a release (`ReleaseSound`) |
| `MCFiles` | `FileMutation`, `IsolatedWorkspace`, `StagedChange`, `UndoHistory`, `RunLedger`, `EngineeringMemory` | a session's files agree (`SessionSound`); the threads of a process write one at a time and replace nothing of each other unseen (`OneThreadWrites`, `NoLostUpdate`); a resume skips only what was completed, a completed change passed its gates, a failed patch is taken back (`StagesHonest`); a failed apply leaves the files as they were (`FailedApplyLeavesSource`); the history explains the workspace (`HistoryExplains`); the agent's work outlives its session (`WorkKept`); a saved record stays, phases move as allowed (`MemoryKept`) |
| `MCHost` | `ModelBudget`, `JsonlLog`, `WebSessions`, `Failover`, `ToolServer`, `ExtensionPlatform`, `CliSession`, `Governance`, `SandboxedCommand`, `BackgroundJobs` | spending within every limit (`SpentWithinLimits`); no acknowledged record is destroyed and the log implements `AppendOnlyLog` (`EvidencePreserved`, `ImplementsAppendOnlyLog`); no agent runs two turns, no session or lock is stuck, no agent is lost (`WebSessionsSound`); an answer belongs to its call (`AnswerIsOwn`), a permission ends with its use or its extension (`PermissionsHonest`); exit code 0 means done, a session leaves no process, `noryx rollback` undoes its own run (`SessionEndsClean`); team records tell what happened (`TeamRecordsTrue`); a command that has returned leaves nothing behind (`CommandsContained`) |
| `MCProgress` | small instances of `RunLedger`, `JsonlLog`, `FileMutation`, `TaskDag`, `PlanExecution`, `Collaboration`, `HostedTurn`, `Failover`, `BackgroundJobs`, `SandboxedCommand` | appends, finalisations and writes return (`WritesReturn`); plans and teams end, except a plan whose agent's own team has timed out (`WorkEnds`); turns, model calls and commands return, overlong jobs are ended (`ServicesEnd`) |

`SumTypeOK` of each sum is the type invariant of the part at work.

Seven runs, each over the whole of a sum or over one part of it, check a sentence of a document or a comment that the code does not
keep; section 8 lists them. No definition is changed for them. Every property of a passing run has a mutant of
the code that violates it (a lock not taken, a hash not compared, a counter not increased, a
file written in another order), so the properties are about the code and not about the
shape of the model.

The modules state some more, which belongs to no run:

- TLC finds these to hold on the instances of the runs: `StagedChange` `DependencyOrder`, `JsonlLog` `LossBounded`, `ModelBudget` `AccountedIsReported`, `Failover`
  `AttemptsBounded`. `JsonlLog` `AppendReturns` is a part of `WritesReturn`.
- The code does not keep these, and the module says after each why: `StagedChange`
  `RollbackIsAtomic`, `UndoHistory` `OnlyOwnChangesUndone`, `IsolatedWorkspace` `VerifiedIsApplied`
  and `ConcurrentWorkKept`, `ToolGate` `DenyStays` and `PlanIsReadOnly`, `ExtensionPlatform`
  `RunGrantEnds`, `PlanExecution` `CompletedWasWorkedOn`, `BackgroundJobs` `StrangerSpared`,
  `ToolServer` `TruthfulResult`, `LeadIntegration` `RollbackRestoresAll` (it holds where no dot file
  lies in a visible directory, as in the instance of `MCWork`).

## 5. Bounds

Counters the code leaves open are bounded in the guards of the actions that increase them; the
modules name these constants as bounds. `CHECK_DEADLOCK FALSE` stands where a run ends for
good (everybody done or killed, or a bound reached).

| part | bound | why it is enough |
|---|---|---|
| `TaskDag` | 3 steps, 2 and 1 retries, 2 repairs, 1 crash | all chains, forks and joins have three steps; the two repair budgets differ with two |
| `PlanExecution` | 3 steps in a fork, 4 turns, 1 kill, 1 cancel | a step that fails for good beside one that goes on; the budget runs out in the middle |
| `RecoveryLoop` | 2 failures, 2 evidences, 5 attempts, 3 stagnant, 4 iterations, 2 repair turns | one failure climbs the whole ladder while another interrupts it |
| `Collaboration` | 2 workers, 6 teams, 2 calls, 1 tool, 1 retry | one that depends and one it depends on, or two at once; a retry after a timeout |
| `NovaTurn` | 2 files, 11 kinds of replies, 3 task lists, 2 nodes | every branch of the two readers; a task after a failed one; two of a file that do not depend on each other |
| `LeadIntegration` | 4 files (one of each kind of path), 3 workers, 1 foreign write, failure, crash and edit | a conflict beside an accepted change; a foreign write before or after the check |
| `CompletionContract` | 6 tasks, 3 moves | read, change, test, and each of them missing |
| `Campaign` | 3 manifests, 1 duel, 1 edit | one edit between any two steps of a duel and its evaluation |
| `HostedTurn` | 2 model turns, 2 empty retries, 3 messages, 2 calls per response, compaction above 5 | a cut falls on each message of an exchange; the code's 100 is a larger offset |
| `ToolGate` | 5 operations, 3 calls, 3 answers, 3 modes | an operation is asked, answered and repeated while another waits |
| `Planning` | 4 requests (2 a run), 2 revisions, 1 resume | a revision of a revised plan; a revision after a resume |
| `VerifiedTurn` | 1 file, 2 turns, 2 model steps, 1 repair | evidence and held edits of one turn meet the next |
| `TestEvidence` | 2 tests, 2 moves, 1 declared run | one test changes while the other vouches |
| `ReleaseGate` | 3 trees, 2 shards, 4 hosts, 1 redo | one stale, lost or repeated report among fresh ones; the first runs are taken in the script's order |
| `FileMutation` | 3 writers in 2 processes, 3 writes, 1 foreign write, failure, crash | two layers of locks need a rival in each; the violation needs holder, waiter, newcomer |
| `IsolatedWorkspace` | 2 files, 3 backends, 2 turns, 2 user edits, 2 faults | an apply fails and its rollback too; edits fall on both sides of a check |
| `StagedChange` | 7 plans, 2 executions, 1 foreign write, fault, kill | flat, staged, cyclic, duplicate and defective plans, each resumed once |
| `UndoHistory` | 2 files, 3 edits, undo of 2, 1 mishap | a mishap in the middle of three changes |
| `RunLedger` | 2 processes, 2 turns, 1 failing write, 1 rewrite each | an unlocked read, a begin of the other process and the write back |
| `EngineeringMemory` | 2 processes, 4 items, 4 moves, 1 fault | a stale copy of each process; a failed write that has raised the sequence |
| `ModelBudget` | limits of 3 calls, 12, 7 and 26 units, two sizes, three messages | each limit reached exactly, passed by one, before and after the others |
| `JsonlLog` | 2 processes, 4 records, 2 crashes, all tears | a tear, the append joined to it, its recovery, a further append |
| `WebSessions` | 2 sessions, 1 socket, a table of 1, 2 requests, 2 agents made | the eviction of an agent at work, and its session's next request |
| `Failover` | 4 keys, 9 attempts, 2 calls | a walk uses at most three keys; a second call meets resting ones |
| `ToolServer` | 2 callers, 2 processes, 4 requests, 1 notification | a late answer meets the next call, before and after a restart |
| `ExtensionPlatform` | 2 extensions, 2 grants, commands and calls | grant, remove, install again under the name; not at once: two commands at once are left to `Governance`, which has the same pattern |
| `CliSession` | 10 invocations, 1 run, 2 touches | each entry; an outside rollback before, in and after a run |
| `Governance` | 2 processes, 12 commands, 3 of them, 1 kill | two that overlap and one after them |
| `SandboxedCommand` | 7 commands, 3 backends, 3 hook lists, 2 operations | a kind of descendant each: gone, heeding, ignoring, in another group |
| `BackgroundJobs` | 2 pids, 2 jobs, 1 stranger | a pid is reused by a job or by a stranger |

The instances of `MCProgress` are smaller (mostly two actors and one fault of a kind), because every
reachable cycle is examined; `MCProgress.tla` has them.

## 6. Fairness

Only `MCProgress` and the run `SandboxedCommand_returns` state fairness. `SumFair` assumes of the part at work:

- weak fairness of `MainStep`: the thread that runs the kernel, the plan loop, the orchestrator, the failover or a
  stop goes on. The code justifies it: each provider attempt and tool call has a timeout, so its
  step is taken in the end;
- weak fairness of each actor's own steps: a process between two file operations, a worker inside
  `asyncio.wait_for`, a watcher or a reader thread is scheduled;
- strong fairness of taking a lock: `flock` wakes a waiter, so one that finds the lock free
  again and again gets it. It is not assumed of the locks of `FileMutation`, where writes are
  bounded and a waiter is passed over only so often.

Never fair: kills, foreign writes, failing writes, the user's messages, reviews, cancels and
mode changes, expiry. So properties are about work in progress, not about work that waits
for the user. The kernel releases a dead process's locks; the crash actions do so.
`WorkEnds` excepts a plan whose agent's own team ran out of time: the standing `cancel_event` then ends every turn at
once and the plan loop has no branch for that. `ServicesEnd` covers commands whose descendants heed
SIGTERM; the others are the finding of `SandboxedCommand_returns`.

## 7. Proofs

TLAPS proves the following for every value of the constants that satisfies the named
assumptions of the modules (`LedgerAssumption`, `StepsAssumption`, `LimitsAssumption`, `PlanAssumption`,
`RecoveryAssumption`, `TurnAssumption`, `GateAssumption`, `VerifyAssumption`, `EvidenceAssumption`, `ReleaseAssumption`,
`BudgetAssumption`, `MutationAssumption`, `StagedAssumption`, `HistoryAssumption`, `MemoryAssumption`, `LogAssumption`,
`WebAssumption`, `WorkspaceAssumption`, `ServerAssumption`, `PlatformAssumption`, `SandboxAssumption`, `CliAssumption`,
`GovernanceAssumption`, `TeamAssumption`, `LeadAssumption`, `ContractAssumption`, `CampaignAssumption`: bounds are naturals, special
values are not process names, and what the code's own types say). TLC evaluates them in every run whose sum extends the module. Each
proof has one form: the initial states satisfy an inductive invariant, each action keeps
it (one step per action), the invariant implies the property; the temporal step is PTL. Below is, of each, why the
property is not inductive as it stands, and what is added.

### The work: `PlanProofs`, `TeamProofs`, `CompletionProofs`

**`TaskDag`: `TypeHolds`, `StepsSoundHolds`, `VerdictHonestHolds`.** Any finite set of
steps, any graph, any number of crashes. `OrderInv`: whatever is in progress or completed, in memory and in
`plan.json` (a resume starts from it), has its dependencies done; the ready list is pending steps whose
dependencies are done. `BoundInv`: attempts are at most the cap for this many runs plus the repairs used. For the
verdict: nothing that can run is blocked (`NoneBlockedInv`), whatever waits when the loop ends waits for a failure
(`WaitingInv`), and the failures recorded are those of the steps (`RecordedInv`).

**`PlanExecution` and `RecoveryLoop`: `PlanBoundedHolds`, `RepairsWithinLimitsHolds`.** Any
dependencies, retries, kills and resumes. A step that waits has a try left (`TriesLeft`), in memory and in the recorded
plan, because a resume gives every step one more; without the local model a turn is counted before the next is
granted (`TurnsCounted`). In the recovery, a repair is asked for only at a failure that the controller has just counted, and with the
same evidence only while that is not stagnant (`GoesOnWithin`): so repairs stay below both limits across repair loops
and tool failures in between (`RecoveryInv`).

**`Collaboration`: `TeamSoundHolds`, `TeamTypeHolds`.** Any workers, teams and budgets. `TeamInv`: each
worker reports every mutation it has made while it works, only one that timed out leaves a thread behind, and a result
of success was verified as it stands (`Booked`); workers are at rest when the run does not await them (`AtRest`), launched in order
(`InOrder`), with reservations that exclude each other (`Apart`); a cancelled run goes no further than its workers (`Stopped`).

**`LeadIntegration`: `IntegrationExactHolds`.** Any files of the five kinds of paths, any results, edits, foreign
writes, failures and kills. The invariant has two halves. With foreign writes (`KeptInv`): the baseline is the hash of the first
lead workspace; after the drift check no file that another program wrote last holds a version from before it (`EarlyWrites`);
an action on a file that was written since would not be undone (`TheirsStays`). Without them (`Undisturbed`): at each
point of the walk, copy and lead are given file by file (`CopyExact`, `LeadExact`), and the recorded actions are
exactly the differences, each file once (`ActionsExact`), so undoing them in reverse restores what the baseline saw.
Two accepted results never change the same file (`OneWriter`), which is the conflict rule of `_integrate_locked`.

**`CompletionContract`: `CompletionEarnedHolds`.** Any repository, task and sequence of moves. `CreditEarned`:
an obligation is met only by what happened: a change by a file touched, a test by a run that passed, unless a run of a
part was taken for the whole.

**`Campaign`: `CampaignSoundHolds`.** Any manifests, thresholds, duels and changes by hand. `DuelSound` gives the rows of a
duel under way: one for each task, trial and agent behind it and no other (`Fill`), so a report that is written has them all
(`PublishedSound`). What the lab has signed is the substance of a report that was written, even when the file was edited or
written again since (`Vouched`). The claim is then arithmetic: what the gate compares are shares of equally
many rows, so more verified tasks of one agent is a larger share, whatever the thresholds. For the other half, that a ready
campaign can be evaluated, tasks, sources and trials of the preflight are counted against the limits of the gate.

### A turn: `TurnProofs`

**`HostedTurn`: `RequestsBoundedHolds`, `ProtocolKeptHolds`.** Any limits and compaction thresholds. `Counted`:
requests made are the iteration plus the empty responses forgiven. `ProtocolInv`: if the conversation was in
order when the turn began, what the kernel holds is in order whenever it asks, and while a batch of calls is at
work, exactly the calls not yet answered are missing their results (`Sending`); until a call pauses, the agent's
history holds no tool exchange at all and no review is queued (`Unpaused`). The
work is in compaction: cutting a list at any message that does not answer a call, and putting a summary before
it, keeps the protocol (`ShiftedFollows`, `CutExists`, `CompactedFollows`).

**`ToolGate`: `GatesHoldHolds`.** Any operations, budgets and modes, calls and answers in any order. An operation waits for one
confirmation at a time (`OneEach`); what a review has agreed to is owed to the confirmation that may still follow
it, and counted as used already (`ReviewsKept`, `Owed`): without that a reviewed edit that must be confirmed too could run twice.
For the scope: what is admitted beside the contract is finite, so the count of its expansions bounds it.

**`VerifiedTurn`: `VerifiedIsEarnedHolds`.** Any edits, outcomes, reviews, approvals, applications and resumes. `TrailSound`: the
log holds only outcomes, none of a revision to come, and the suite that the verifier knows is the last one the log has. `StageKnown`:
until a turn is judged nothing is reported; a repair has a reason that is still in the log when it is judged,
and a refusal stays one; so a turn with edits is judged at the revision that was reviewed or with a failure in its log.

**`TestEvidence`: `EvidenceHonestHolds`.** Any files, edits, foreign changes and declared runs. A full run that passed speaks for its
revision (`SuitesTrue`, unless a run of a part was taken for the whole), no record is of a later one (`RecordsPast`), and after the
verifier's own suite only integrity is recorded (`SuiteLast`). The argument is why superseding older records cannot
hide a failing test: the last suite supersedes every other test, or is not superseded itself.

**`ReleaseGate`: `ReleaseSoundHolds`.** Any trees, shards, hosts, edits, repeats and losses. `ShardsFollow`: a shard's report is
of its last process; `CollectedOfTree`: the evidence names a tree; with `MatrixComplete` and `ClaimsContained` that is
inductive. That a host whose probes came out well contains its commands is a lemma (`QualifiedContains`).

### Files: `FilesProofs`, `RecordProofs`, `JsonlLogProofs`

**`FileMutation`: `OneThreadWritesHolds`, `NoLostUpdateHolds`.** Any writers, processes, kills and
foreign writes. `Owned`: a writer inside holds the thread lock of its process. `UpdateInv`: whose every version
is (`Authored`), and what a writer between its two hashes and `os.replace` still knows (`Compared`, `Seen`); so no
thread of a process replaces what another one wrote unseen.

**`IsolatedWorkspace`: `WorkKeptHolds`, `FailedApplyHolds`, `UserWorkSurvivesHolds`.** Any files, turns, edits and faults. `WsInv`
says of each file, at each point of an apply, which of source, workspace, backup and recovery patch has the agent's
and the user's texts. The attempt to prove an earlier form of `FailedApplyLeavesSource` failed, and TLC then showed why
with three faults: after a rollback that failed, a later failed apply restores the backup of the *first* apply
(`workspace.py:606`), so a file can come back with an older text of the user's. The property now says so.

**`UndoHistory`: `HistoryExplainsHolds`.** Any files, edits, commands, undos, faults and foreign writes. At each point of a
call, how far the records of each file have come (`Tracked`): they lead to what the file is, or to what it was before
the call and has still to be recorded. A record names a snapshot that is there, holds what the file was, and whose number no later call takes
(`SnapshotsKept`); what is saved runs ahead of the memory only for files nothing is claimed of (`SavedFollows`).

**`StagedChange`: `StagesHonestHolds`.** Any plans, faults, kills and executions one after another. An artifact marked
completed is of a stage that was (`ArtifactsTrue`), though a later execution overwrites it; behind the stage at work every
stage has passed its gate (`GatesSound`); a patch goes through its files once, so undoing it restores each (`PatchSound`).

**`RunLedger`: `SessionSoundHolds`, `DirectoriesConsecutive`.** Any number of processes, turns, kills
and failing writes. `SessionSound` is far from inductive.
- For fresh turns: a process between reading the session and making the directory holds the lock
  (`HolderInv`), directories are `1..n`, and no document, on disk or in a process's memory, is longer
  than that (`NumberInv`), since `begin` takes the maximum of both. This is what makes the unlocked
  rewrites of `session.json` harmless for numbering.
- For the order: every document, also each old copy a process may still write back, lists existing
  directories in order, and none lists a turn that is being started (`OrderInv`). `DocsStep` says where a document can come from.
- For closing: two live processes with the same turn are in `shared` (`TurnInv`); while no write has failed, no process is
  degraded, no document says of a turn what its files do not, and a process about to
  write a closed status has closed the state file (`FilesFirst`). The hard case is a new `RUNNING` in
  `state.json`: no document lists the turn (`OrderInv`), and no other process is about to close it (`TurnInv`).

**`EngineeringMemory`: `MemoryKeptHolds`.** Any processes, saves and transitions, with faults and kills. One process makes the key
(`KeyMadeOnce`). A copy is no newer than its file, and one of the same sequence holds everything that the file does
(`CopiesFollow`, `StatesFollow`), unless its own write failed: such a copy is ahead and the property excepts it.

**`JsonlLog`: `EvidencePreservedHolds`, `PrefixNumberedHolds`, `ImplementsHolds`.** Any processes, records, kills and tears. `LogInv`:
the lock has the holder it should (`Holding`), what a process found out about the file is still so when it uses it
(`Current`), a file is replaced only after everything in it was copied (`Copied`), and before the first tear every line
that parses has its newline (`Terminated`). That a longest valid prefix exists is carried in the invariant
(`Parsed`) rather than derived, because it would need induction over the length of a file. `ImplementsHolds` maps every step to an append
of `AppendOnlyLog` or a stutter, until a write is torn.

### Around it: `HostProofs`

**`ModelBudget`: `SpentWithinLimitsHolds`.** If a token is at least four bytes long, the provider never
spends more than the limits, although an authorisation reserves nothing. `Covered`: what is accounted is
at least what was spent, and a call in flight was authorised under ceilings its worst response fits. The
hypothesis `TokenBytes >= 4` is what the code's own estimate assumes, and it is necessary: for shorter tokens the estimate of a stream
without usage is too low. It is satisfied by the checked instance (`TokenBytes = 4`).

**`WebSessions`: `WebSessionsSoundHolds`.** Any clients, table size and requests. `WebInv`: every turn that runs
holds the run lock of its agent (`Claimed`), also when its agent was evicted long ago; a busy mark has a turn that will clear it, a
held lock a request that will release it (`BusyEnds`); every agent made is in the table or closed (`Kept`); and a full table
has exactly one victim, the least number in it (`OneVictim`), so the bound is a cardinality argument.

**`SandboxedCommand`: `CommandsContainedHolds`.** Any commands, hooks, backends and threads. A blocking hook that `fire` has passed
has blocked (`HooksHeard`, with what is left of an operation in `OperationShape`); a process that the
gateway joins has no leader, and its profile is the command's own (`ProcessFollowed`); the registered service is the one
that was made (`ServiceKept`).

**`Governance`: `TeamRecordsTrueHolds`.** Any processes, members and command lines, killed anywhere. Not only the files but what
waits in a temporary file, and what a process has read, is sound (`FilesSound`, `StagedSound`, `CallersSound`), since any of them
may replace the file later. While no commands have overlapped, a process works on what is in the files (`OneByOne`), so nothing is lost.

**`ToolServer`: `AnswerIsOwnHolds`.** Any callers and processes, timeouts, deaths and restarts. A call is made by the one who
holds the lock of that process, once it has started (`Placed`, `Starts`); as long as a server sends nothing unasked, all there is in
the two pipes of a process is the one request that somebody waits for (`PipesOwn`), because a timeout ends the process.

**`ExtensionPlatform`: `PermissionsHonestHolds`.** Any extensions, commands, hosts and kills. Grants have numbers of their own, in
the file and in a host alike, and a number not given yet was not used.

**`CliSession`: `SessionEndsCleanHolds`.** Any arguments, reports and bounds. `HistoriesFit`: of each conversation whose runs were not
rolled back twice, the ranges that its runs recorded are apart, and each still holds its run's changes, in the file and in
the live agent's copy. For the exit code: what a single prompt holds for the user, its report says (`HeldReported`).

### Only model-checked

- Liveness: `WritesReturn`, `WorkEnds`, `ServicesEnd`. The prover has no rules for fairness and ENABLED.
- `CandidatesSound` of `NovaTurn`: that a repetition leaves what was tested is a statement about the result of folding a list of
  calls over a tree, and needs induction over the list.
- `PlansSound` of `Planning`: what it says of a revised plan is about chains of dependencies, of any length.
- The type invariants of the sums. Each proof carries the types it needs in its own invariant.

No module uses a RECURSIVE operator.

## 8. Where code and documents disagree

Findings of `PROJECT.json`, each with the sentence quoted and the run that shows it:

| run | property | what happens |
|---|---|---|
| `TaskDag_applied` | `CompletedWorkApplied` | patches of completed steps live in memory until the DAG is over; a resumed plan ends completed without those from before the crash |
| `FileMutation_instances` | `InstancesSerialised` | the advisory lock is on an inode that `os.replace` takes away, so two instances work on the file at once |
| `TestEvidence_narrow` | `NarrowCoversNothing` | a test run narrowed by an option the parser does not know counts as the full suite and covers a failing test |
| `CompletionContract_kept` | `DoneIsComplete` | the obligation to leave a file alone is never satisfied, so a task that is done stays incomplete |
| `VerifiedTurn_applied` | `AppliedIsVerified` | edits of a failed turn reach the source through a later turn's application |
| `PlanExecution_cancel` | `CancelStops` | a cancel between two turns of a plan is cleared by the next turn |
| `SandboxedCommand_returns` | `CommandReturns` | a descendant that keeps the output open and ignores SIGTERM holds the caller past every time limit |

Observed while modelling, and part of the models' behaviour, without a run of their own:

- `JsonlLog`: a write cut before its newline makes the next append join its line, and the recovery
  after that takes both out of the file; a write cut inside a character makes the whole file unreadable; a short
  `os.write` counts as success.
- `RunLedger`: a resume makes a turn current without its PID lock; opening a session, or marking it rolled
  back, rewrites `session.json` without its lock and can drop the turn another process has just added; the unlocked
  case is why `ClosedOnDisk` excepts shared turns. `resume_summary` calls FAILED resumable,
  `resume_interrupted` refuses it.
- `TaskDag`: a step whose checkpoint says verified runs again when the crash came before `plan.json`.
- `HostedTurn`: after a review in the middle of a batch the conversation has a call without its result in place, so the next
  request breaks the protocol (which is why `HistoryFollowsProtocol` ends at a pause); "consecutive" empty responses need
  not be consecutive; compaction inside the loop summarises the system prompt away; the wall-clock deadline is never set (`kernel.py:73`).
- `ModelBudget`: the estimate for streams without usage is too low for tokens of less than four bytes; cumulative usage in
  chunks is added up.
- `Failover`: the cap on physical attempts is compared once, so more are sent, and with the defaults Groq is never tried; an SDK
  error at the custom endpoint ends the call.
- `FileMutation`: a new file is visible empty before its content; a caller that expects no file is refused because of
  the one its own `O_CREAT` made.
- `LeadIntegration`: a commit deletes files of hidden directories other than the ignored ones; a rollback deletes a dot file inside a visible
  directory (`integration.py:465`, `:518`); a write after the drift check is lost; a killed commit is half
  done; a change without a diff is integrated as a comment.
- `Collaboration`: with a DISABLED policy the workers run all the same; an exception leaves the isolated workspaces; the saved
  run knows no finished worker.
- `IsolatedWorkspace`: after a rollback that failed, a later failed apply restores the first apply's backup
  (`workspace.py:606`); a malformed `policies.yml` raises after the worktree was made (`core.py:341`).
- `VerifiedTurn`, `TestEvidence`: a review that refused is a failure for the rest of the turn (`semantic.py:286`), so a turn
  repaired after one can never be VERIFIED; `-k` and `-m` are no part of a run's identity; deleting a failing test leaves the suite
  "pre-existing"; recording a change overwrites the expected hashes, so a test the model wrote counts as pre-existing
  (`brain.py:767`); inherited checks count as passed in the report and are recorded failed.
- `CompletionContract`: more than eight roots become `.` and every change that is not required is refused; obligations stay
  satisfied after an undo; only the model's own `run_command` credits a test; a path that ends a sentence is not recognised.
- `Planning`: `create_plan` reads `total_files` where `summary()` gives `files_count`, so "Understand Repository" is never
  inserted; a saved plan omits its canonical part, so a resumed plan is never revised structurally; revised plans are not
  criticised again.
- `NovaTurn`: the kernel tests the tasks of a plan in waves, as they become ready (`kernel.py:727`), but their candidates are repeated
  in the order of the list (`two_node_backend.py:205`), so two tasks that share a file and do not depend on each other may be
  repeated in an order that nobody tested; `TwoNodeResult.proposals` returns a rejected candidate's proposals when there is no summary
  (`two_node_backend.py:207`); scaffolded content is tested raw but written canonicalised; CREATE overwrites an existing file it did not name.
- `SandboxedCommand`: `network_enforced` is true for commands that were not wrapped (`sandbox.py:652`); a profile is leaked when
  `Popen` raises; the registry is keyed by pid; a hook's `failure_policy` is never read.
- `BackgroundJobs`: a group is signalled also after its leader was reaped, so the signal can reach one whose pid was reused.
- `ToolServer`: an error of the server, and the end of its connection, are returned as a success (`mcp/client.py:405`).
- `StagedChange`: the file whose write failed is not among those that the rollback of a patch restores.
- `UndoHistory`: two files of the same name in one `multi_edit` share a snapshot (`history.py:112`), so an undo gives one of
  them the other's content and reports success; a `multi_edit` that does not compile takes back as many records as it has edits, though edits of one file make
  one record; records of earlier calls go with them.
- `PlanExecution`: when the providers are out of quota the next ready step is marked completed, not the current one.
- `ToolGate`: what repository policy denies runs when a policy extension asks and the user confirms; `/plan` does not change
  the mode that the gates read.
- `ExtensionPlatform`: nothing ends a grant for a run.
- `CliSession`: a second `noryx rollback` of one run takes changes of another, and the recorded ranges of later runs no longer fit
  (`recovery/rollback.py:84`); `/undo` and `/diff` use a fresh `FileHistory`, so the live agent's copy brings undone entries back; a rollback of a run that
  changed a file twice reports a failed verification after undoing correctly; a single prompt interrupted by Ctrl-C never
  closes its agent; `/clear` and a turn overwrite the saved conversation; runs killed without a report cannot be rolled back.
- `Governance`: overlapping commands lose records; the second of two replaces fails because its temporary file is gone; a decided
  request can be decided again; a crash leaves a change unaudited.
- `EngineeringMemory`: sealing raises the sequence before the write, so after a failed write the process is ahead of the file
  (`memory.py:94`, `:264`); an empty key file stays for ever after a kill (`integrity.py:103`); a session that is BLOCKED never leaves that phase.
- `WebSessions`: eviction, a new chat and shutdown close an agent while its turn runs; the oldest agent goes, not the least recently
  used; an agent whose successor's constructor fails is lost to its session; a disconnect is noticed only after the turn ends;
  the run lock of the agent, not the server's, is what prevents two turns.
- `Campaign`: the preflight misses limits that the gate checks later; the oracle bundle is hashed only after the runs;
  `dry_run` and other flags are not signed; signing reads and then writes, and may overwrite a newer report.
- `ReleaseGate`: `scripts/qualify_release.py` looks for `nexusai_cli-*.whl`, which the build does not make; a batch that times out leaves an
  earlier shard report that `aggregate` takes; JUnit, wheel and deploy reports need not come from the hashed tree; reports written
  inside the repository change its hash.
- Unused in the product: `FallbackRouter`, `EscalationController`, `SecureExtensionRuntime` with `QuarantineManager`,
  `recovery/resume.py`, the mixins of `runtime/provider_manager.py` and `runtime/tool_manager.py`. Where one is modelled
  (`ExtensionPlatform`), it is for what it promises.

## 9. What is not modelled

Within the modelled components: prompts, texts, diffs, ranking, time stamps, telemetry, currency
conversion, output. Python threads are sequentially consistent (the interpreter lock), so steps interleave at
calls and awaits. `os.replace` is atomic and `fsync` durable; a kill is the end of a process, not a power failure.
Classifications of free text (commands, requests, failures) are inputs: the models say what follows from a
classification, not that it is right.

Whole components: `components` in `PROJECT.json` lists each with its reason. They are heuristics and tables without state that
several steps share (repository indexing and ranking, deliberation, model scoring, trust decisions, skills), single calls of input and
output (most tools, discovery of plugins), code that the product does not construct, and offline evaluation programs.

The sums do not compose components that call each other: each is checked against an environment that may do
whatever the other can do at the interface, which is more than it does.

## 10. Plan

Done: the core on disk (`JsonlLog`, `RunLedger`), the two executors (`TaskDag`, `HostedTurn`), budget and failover, the ways to
the user's files (`FileMutation`, `LeadIntegration`, `StagedChange`, `UndoHistory`, `IsolatedWorkspace`), gates, verification, planning, teams, processes,
the command line, the web server, campaign and release; and a theorem for every safety property of a run but two.

Next, in this order:

1. `PlansSound` of `Planning`: an invariant that says of a canonical plan that its identifiers are fresh and its
   dependencies earlier in the list, so that a revision, which inserts two steps, is a map of indices.
2. `NothingUnreviewed` and `AsksBounded` of `NovaTurn`, which need no induction over data.
3. The liveness arguments by hand: a measure for each loop of `MCProgress`, as an action property that TLC checks and
   TLAPS proves.
