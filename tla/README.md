# CodeFRAME, modelled and proved

CodeFRAME (`src/codeframe`) drives AI coding agents over a project: it keeps a list of
tasks in a SQLite file (`.codeframe/state.db`), starts agents on them one at a time or in
batches, asks humans when an agent is blocked, verifies the result and opens pull
requests. What is hard in it is concurrency over that file. CLI commands, API handlers
(each on a worker thread), agent subprocesses, the pool of a batch, and a reconciliation
thread all read and write the same rows. Nearly every helper in `core/` opens its own
connection, so an operation that reads, decides and writes is several transactions, with
other processes in between.

This directory holds TLA+ modules of that behaviour, the TLC configurations that check
them on small instances, and TLAPS proofs of what holds for every size.

    tlc -config TaskRunsAny.cfg MCTaskRuns.tla       # a run; PROJECT.json lists them all
    tlapm TaskRunsProofs.tla                         # a proof module

## Inventory

Part | State it keeps | Operations | What is hard
---|---|---|---
State machine (`core/state_machine.py`) | none | `can_transition`, `transition_path` | the table decides what every other part may do
Tasks (`core/tasks.py`) | `tasks` rows | create, `update_status`, delete | check-then-write across processes; GitHub close on DONE exactly once
Task tree (`core/task_tree.py`) | parent links | `propagate_status`, hierarchy | the parent is computed from a read of its children, and walked by several writes
Runs (`core/runtime.py`) | `runs` rows | start, complete, fail, block, resume, stop, `execute_agent` | two rows (run, task) written separately; crashes in between; stale copies
Blockers (`core/blockers.py`) | `blockers` rows | create, answer, resolve | an answer races with the run that is being blocked
Batch conductor (`core/conductor.py`) | `batch_runs` row, an executor's copy, subprocesses | create, execute (serial, pooled), cancel, stop, resume, retry | whole-row writes of stale copies, a pool, retries, cancels at any moment
Reconciliation (`core/reconciliation.py`) | the executor's copy | check, apply | a thread that acts on what it saw before network calls
Global fixes (`GlobalFixCoordinator`) | attempts and fixed errors, one lock | request, report, wait | election of one fixer, wake-ups, shrinking deadlines
Dependencies (`core/dependency_graph.py`) | none | cycle check, levels, groups | graph algorithms over user input
PROOF9 (`core/proof/`) | requirements, obligations, evidence, runs | capture, run, waive, expire, reopen | whole-row writes from a long run against concurrent waivers
Merge gate (`ui/routers/pr_v2.py`) | none | merge | reads the ledger, then merges
Events, streaming (`core/streaming.py`, `streaming_v2.py`, `tasks_v2.py`) | subscribers and their queues, one lock | publish, complete, subscribe, unsubscribe | a worker's thread publishes into an event loop; full queues; who is told of an end
Agents (`core/react_agent.py`, `core/agent.py`, `core/adapters/`) | conversation, budgets, trackers | run | iterations, corrections, quick fixes, stalls and retries each go round; every exit has its outcome
Spending (`core/cost_tracker.py`) | calls of this agent, a table | record, look, persist | a cap over retries and executions
Stall detection (`core/stall_detector.py`, `core/stall_monitor.py`) | last activity | arm, tick, fire | a timer against the activity it watches
Worktrees (`core/worktrees.py`, `core/sandbox/`) | branches and directories, the main tree, a file lock | create, commit, merge back, abort, clean up | any git command fails; processes die; humans use the same tree
Fix tracking (`core/fix_tracker.py`) | attempts per error and file | record, escalate | escalation thresholds
Checkpoints (`core/checkpoints.py`) | snapshots | create, restore | a restore while others write
PRDs (`core/prd.py`, `core/prd_discovery.py`) | version chains, sessions | version, diff, answer | one chain, many writers
Credentials (`core/credentials.py`) | keyring or file | store, fall back | a file replaced in one step
Tickets (`auth/stream_tickets.py`) | tickets in memory | mint, redeem, expire | one connection for one ticket
Chat sessions (`session_chat_ws.py`, `streaming_chat.py`, `ui/shared.py`) | session row, the manager's connection, queue and interrupt | dial, register, chat, preempt, record costs, leave | two sockets, three tasks per socket, cancellations with costs in hand

Parts interact through the database (shared rows, no cross-process lock), through process exit
codes (a batch executor and its workers), through in-process shared objects (the executor's
copy of its batch, shared with its pool and with the reconciliation thread; the publisher,
shared by worker threads and the event loop; the chat manager, shared by the sockets), through
the one main working tree of git, and through callbacks (`on_event`, `on_stall`, the GitHub
close of `update_status`).

What makes the main parts correct:

* tasks: only edges of the state machine are ever committed; one arrival at DONE, one close;
* runs: a task's active run keeps out every starter that had not looked before it was there;
  run and task tell one story once everybody is quiet; a RUNNING run has somebody at work on
  it; it ends;
* blockers: a blocked task has a question to answer; an answer stops only what waited for it;
* batches: no save that looks after a cancel undoes it; a recorded completion stands; the final
  status claims no more than the results; a stopped executor launches nothing; dependencies
  have their turn first; a batch ends;
* global fixes: one fixer at a time, none after a success, every waiter is let go;
* PROOF9: a waiver is not undone by a run that did not know of it; the gate sees what the
  ledger says;
* engines: a completion was verified on the final tree; a failed run asks nothing; a blocked
  one asks one thing; the cap on spending holds; every execution ends;
* worktrees: no work is lost; a COMPLETED run is merged where it came from, or where a human
  has meanwhile put the main tree; no run that leaves a merge half done ends as if it had
  merged; no worktree is shared; the lock is let go;
* streams and chats: a client that watches misses nothing but what a full queue or an unlucky
  look at the list of clients costs it, and is let go at the end; one socket has a session, no
  cost leaves the relay without an attempt to write it, and the session is freed.

## Modules

Module | Models | Extends
---|---|---
`TaskStatus` | the transition table, `transition_path`, `_rolled_up_status` | library modules
`TaskLifecycle` | the abstract promise of `update_status` | `TaskStatus`
`TaskRuns` | tasks, runs, blockers and the processes that write them | `TaskStatus`
`TaskRunsProofs` | theorems of `TaskRuns` | `TaskRuns`, TLAPS
`ActiveRunProofs` | theorems of `TaskRuns` about active runs | `TaskRunsProofs`
`BatchConductor` | one batch: row, executors, workers, reconciliation, operators | `TaskStatus`
`BatchConductorProofs` | theorems of `BatchConductor` | `BatchConductor`, library theorems, TLAPS
`DependencyGraph` | graph, cycles, levels, groups, execution plan | library modules
`BatchPlan` | a batch whose groups were planned from dependencies | `BatchConductor`, `DependencyGraph`
`GlobalFix` | the coordinator shared by the agents of one process | none
`GlobalFixProofs` | theorems of `GlobalFix` | `GlobalFix`, TLAPS
`ProofLedger` | PROOF9's requirements, its runs, and the merge gate | library modules
`ProofLedgerProofs` | theorems of `ProofLedger` | `ProofLedger`, TLAPS
`EngineState` | what all engines share: one execution, its questions, its tracker, its spending | library modules
`ReactAgent`, `PlanAgent`, `DelegatedAgent` | the three kinds of engine with their adapters | `EngineState`
`EngineContract` | the abstract engine `execute_agent` relies on | none
`EngineRun` | one task executed several times by any of them | the three engines
`EngineRunProofs` | theorems of `EngineRun` | `EngineRun`, TLAPS
`WorktreeRun` | runs under worktree isolation, the main tree, humans | `Integers`
`WorktreeRunProofs` | theorems of `WorktreeRun` | `WorktreeRun`, TLAPS
`StreamTickets` | the one-time tickets of streams and sockets | `Naturals`
`TaskStream` | worker, publisher, event loop and streams of one task | `StreamTickets`, library modules
`SessionChat` | one chat session and its sockets | `StreamTickets`, library modules
`Server` | tickets with either of the two | `TaskStream`, `SessionChat`
`ServerProofs` | theorems of `Server` | `Server`, library theorems, TLAPS
`MC...` | small constants for TLC | the module they name (`MCBatchConductor`: `BatchPlan`)

### TaskRuns

State: `status` is `tasks.status`; `runs` and `blockers` are the tables, indexed in
insertion order and bounded by `MaxRuns` and `MaxBlockers`; `unclosed` counts arrivals at
DONE whose GitHub close is not dispatched yet; `pc[p]` and `my[p]` are where process `p`
is and what it remembers. **Every database statement is an action of its own**, because
every helper opens its own connection; what a process read earlier is in its frame and may
be stale. `Ops[p]` says what process `p` may be asked for, so that a run can put exactly
two operations against each other.

`ReadForUpdate`, `CompareAndSet` and `DispatchClose` are `update_status`, entered by every
caller (`AfterUpdate` and `AfterRejection` say where each goes on, when the transition is
committed and when `InvalidTransitionError` is raised). `CheckActive` and `InsertRun` are
`start_task_run`; `AgentEnds` picks the verdict of the engine, and `FindOpenDuplicate`,
`InsertBlocker`, `ReadRun`, `WriteRun`, `ReadTask` are what `execute_agent` and the complete,
block and fail helpers make of it, with the rejections they handle. A blocked engine may come
without a question (a stall), with one that only `execute_agent` persists, or with one it has
persisted itself and `execute_agent` persists again; `my[p].blocker` remembers that one, which
the second insert finds while it is OPEN. Any other OPEN blocker of the task may or may not ask
the same, so it may or may not be found. `StopRun`, `ResumeRun`, `AnswerBlocker`,
`ResolveBlocker`, `SetStatus`, `ResetBlockedRun`, `RetryTask` are the operators' commands;
`Crash` ends a process wherever it is.

The agent itself is an arbitrary verdict: the engine may complete, fail or block at any
moment (`EngineRun` says why it does). The tasks are those without a parent, for which
`update_status` returns before `propagate_status`; `TaskStatus` has `transition_path` and
`_rolled_up_status`, and `MCTaskRuns` has TLC evaluate that a parent can be walked to every
roll-up. Left out: deletion, the `--stub` path, columns no decision reads.

`TaskLifecycle` is what `update_status` promises: a status moves along one legal edge at a
time, and every arrival at DONE is followed by at most one close. `LifecycleSpec`
(`INSTANCE TaskLifecycle`) is checked as a PROPERTY and proved.

### BatchConductor

State: `row` is the stored batch (status and results), `batch[e]` the copy executor `e`
works on and writes back whole, `ctl[e]` its program counter, mode (first pass, resume,
retry), remaining plan and tallies; `child[e][t]` the worker it has for a task; `task`,
`run` and `blocker` the rows of each task at the grain the conductor sees; `saving[e]` the calls of
`_save_batch` that executor `e` and its pool are in the middle of; `findings` what
a reconciliation sweep has seen and not applied; `cancels` the row a cancel command has
read and not written back; `announced` the last batch event.

One executor loop stands for `_execute_serial`, `_execute_parallel`, `_run_serial_resume`
and `_run_retries`, which differ in what `mode` and the plan say: whether a task completed
outside is skipped, whether a failure stops, whether the verdict comes from counters or
from the results, whether a supervisor is asked. A plan is a sequence of groups; a group of
several tasks runs in the pool (`MaxWorkers`), where recording (`Collect`) and counting
(`Count`) are separate steps. `_save_batch` is three steps: `SaveBatch` dumps the results
before the lock, `LookAtStored` is the SELECT, with the refusal to overwrite a CANCELLED row, and
`ReplaceRow` the INSERT OR REPLACE. The lock is one of the process, so of one executor one save
at a time is past its look (`InLock`), and another process may write the row between the two.
`ReconcileCheck` and `ReconcileApply` are the two halves of a sweep.
A cancel reads and writes in two steps, and so does a resume.

A worker is the part of `TaskRuns` its executor can observe: its run may be refused, it may
complete (task first, run second), fail, block, or be killed at any point.

`DependencyGraph` computes the groups of a first pass: `BuildGraph` drops what is outside
the batch, `DetectCycle` finds tasks each of which depends on one of them, `Levels` is the longest
path to a task without dependencies, and `ExecutionPlan` falls back to one task after another
when `topological_sort` raises, as `execute_batch` does. `TopologicalSortFails` says when it does:
on a cycle, or when a task lists a dependency twice (see Divergences). `BatchPlan` puts the two
together: `DependsOn` is an input, and the `.cfg` files take `Groups` from its plan. What the
conductor needs of a plan is `GroupsAssumption` (every task once, no group empty) and
`PlanAssumption`: every task is in a later group than all it depends on (`InOrder`), unless
`topological_sort` raises. TLC evaluates both for each run's plan, `PlansInOrder` for the plans
of all 512 graphs of three tasks, and `CyclesAreFound`, which compares `DetectCycle` with the
transitive closure of each; `PlanInOrder` is the theorem for every batch.

Left out: dry runs, saves for config reloads, `fail_batch`, the fallback of the `auto`
strategy, the time a spawned worker is not yet registered (a forced stop may spare it).

### GlobalFix

State: the coordinator's attempts and fixed signatures, the agents' program counters and
remaining waits. `RequestFix`, `ReportFixResult` and `WaitForFix` are one lock section
each; `DeadlinePasses` and `LookAgain` are the condition variable's timeout and wake-up.
`sig` conflates errors the way `_hash_error` does. The calling code is the correction branch
of `core/agent.py`; no caller constructs the coordinator at this commit, so the module
models the protocol that branch and the coordinator would follow.

### ProofLedger

State: `req` is the `proof_requirements` table (a row is its status, the glitch it was
captured from and its waiver); `evidence` the newest outcome per requirement and gate and
the artifact of the newest pass; `capture[g]` where the capture of a glitch is; `run[p]`
where a proof run is, with the rows it has listed (`todo`, `row`: whole-row copies, which
it writes back whole); `merge` the check of the merge gate. `spared` is a history variable
of one check: the requirements the check may miss.

`AllocateId`, `CaptureFails` and `SaveCapture` are `capture_requirement`, which reads the
next id on one connection and inserts on another, after writing the test stubs.
`FindLapsed` and `ReopenLapsed` are the select and the update of `check_expired_waivers`;
`ListOpen`, `ListSatisfied`, `TakeRequirement`, `SkipOutOfScope`, `RunGate`, `NothingRan`,
`MarkSatisfied`, `SaveUnproven` and `EndProof` are `run_proof`; `FindRegressed` and
`ReopenRequirement` the read and the write of `reopen_requirement`. `WaiveRequirement` is a
human, `WaiverLapses` a date that passes, `LoseArtifact` an artifact that no longer has the
recorded checksum, among others because a run that lists a requirement as OPEN and then as
SATISFIED evaluates it twice and overwrites its own file. `GateListsOpen`,
`GateListsSatisfied`, `GateVerifies` and `GateAnswers` are `list_blocking_requirements` and
the decision of the merge handler.

Gates are arbitrary outcomes, FAILED and UNVERIFIABLE are one of them, and which
requirements a changed file puts in scope is arbitrary. Left out: the records of runs, the
snapshots of a pull request and the audit rows of an override (nothing reads them to
decide), `allocate_requirement` (nothing calls it), the contents of the stubs.

### EngineRun

An execution of a task by `runtime.execute_agent`: `pc` is where it is, `result` and
`question` what the adapter returns, `asked` the blockers it has open, `declared` whether the
agent said it was done, `tree` what the gates said of the tree as it is now, `failures` the
counts of `FixAttemptTracker`. `Begin` and `Conclude` are the two ends of `execute_agent`; a
task is executed `MaxExecutions` times, with whichever engine.

* `ReactAgent`: `Iterate`, `Respond`, `Stuck` and `RunTools` are `_react_loop`;
  `EnterRound`, `Pass`, `GiveUp`, `QuickFix`, `FailRound`, `FixTurn`, `FixTools` are
  `_run_final_verification`; `Finally` and `Retry` are the end of `run` and the adapter's stall
  retries. The watchdog is a second thread: `Lull` is a silence, `Measure` and `Report` are its
  look under the lock and its callback after it.
* `PlanAgent`: `ExecuteStep`, `CorrectLint`, `CorrectStep` and what leaves them, `RunGates`,
  `Repair` and `RepairFails`; `Supervise` and `Recover` are the adapter's second and third agent.
* `DelegatedAgent`: `Delegate` is one run of the child and the zero-file guard, which Codex and
  cloud sandboxes do not have (`strict`) and which needs git to tell (`guarded`); `changed` is
  what git shows then, files that were dirty before included. `WrapPass`,
  `WrapQuickFix`, `WrapEscalate`, `WrapCorrect` and `Exhaust` are the verification wrapper.

Money is counted in calls: `charged` is the table, `prior` what a fresh agent read of it,
`records` what it recorded, `spent` what the provider bills; `slip` becomes true when the table
could not be read or written, silently, which is the precondition `SpendWithinCap` names.
What the model, the tools and the gates say is arbitrary.

`EngineContract` is the abstract engine: an execution has at most one question open, none when
it completes, ends blocked or failed while it has one, and an outcome stands until the next
execution. `ContractSpec` is checked as a PROPERTY and proved. `TaskRuns!AgentEnds` relies on it.

### WorktreeRun

One action is one git command, and may fail. A run's work is the run itself: `loose[t]` is
the uncommitted work in the directory of task `t`, `commits[t]` what its branch has,
`content[b]` what a user's branch has. `Check`, `Add`, `Agent`, `Commit`, `Lock`, `Checkout`,
`Merge`, `Abort`, `Unlock`, `Settle`, `Record`, `RemoveDir` and `DeleteBranch` are the path
of `execute_agent` through `core/sandbox/context.py` and `core/worktrees.py`; `Stop` fails the
row while the process goes on; `Crash` ends it and drops its lock. `Abort` may fail like every
other command, and nobody looks. A human, whom the lock does not bind, switches the main tree to
another branch or off every branch, begins a merge there and ends whichever is in it
(`MaxMeddling` times), and recovers and discards what ended runs have left, all between any two
steps of a run. `crossed[r]` remembers what the human switched to between the checkout and
the merge of run `r`.

### Server

A server process that streams a task's events or chats in a session; the two share only
the tickets, so a behaviour has one of them (`service`).

* `StreamTickets`: `Mint`, `Expire`, `Redeem` and `Refuse` of tickets that leave the store when
  shown.
* `TaskStream`: `worker` is the thread that runs the agent, `scheduled` the coroutines it has
  left on the event loop, `subscribers` and `queue` the publisher, `at[s]` the generator of
  stream `s`. `PublishSync` begins the look, in the worker's thread and without the lock, for
  somebody to publish to, and `HandOver`, `LookOn` and `GiveUp` carry it on, one place
  (`cursor`) of the list at a time, while the loop changes that list: a stream that a removal
  moves below the cursor is `overlooked`. `CloseStreams` and `CompleteSync` are the test and
  the `subscribers[0]` of `complete_task_sync`, which raises if the list has become empty in
  between. `FailRun` and `AnnounceFailure` are the thread's handler; `RunPublish`,
  `RunComplete` and `PutSentinel` run on the loop; `Connect`, `Register`, `CheckActive`,
  `CheckLatest`, `Take`, `Disconnect` and `Unsubscribe` are a stream. A worker announces its
  end or does not (delegated engines do not).
* `SessionChat`: `sock[w]` is the handler of socket `w`, with a relay and an adapter task for
  the one that has the session. Every await is a step. `Preempt` and `NewTurn` are a message
  while the last turn goes on, `WriteCost` and `Flush` the two places where a cost reaches the
  row; each may fail, and then the cost is `lost`. A relay cancelled while it writes leaves a
  write that goes on (`late`, or `again` where the relay's `finally` writes the same cost too) or
  that no thread ever begins. `Hangup`, `CancelRelay`, `CancelAdapter`, `AdapterGone` and
  `Unregister` are the handler's `finally`.

## Runs

Every property is named in the run's `.cfg`.

Run | Instance | Shows
---|---|---
`TaskRunsAny` | two processes that start runs, one of them an operator; all operations and crashes | types; the abstract lifecycle is implemented; an active run lets only those start another who had looked before it was there
`TaskRunsAnswer` | a worker, and an operator answering and resolving | when quiet, a task and its latest run agree
`TaskRunsLive` | a worker, and an operator stopping, answering and moving the task | no run is orphaned, every run ends
`BatchCancel` | one task, two executors, every failure, cancel, force, resume, die | no save that looks after a cancel undoes it
`BatchPool` | one group of two, reconciliation, humans | types; completions stand; the status is honest
`BatchLive` | three tasks, a dependency chain with a short cut, stop on failure, one retry round, failures, raises, gates and stops | dependencies first; nothing is launched once a stop was noticed; the batch ends
`GlobalFix` | three agents, three errors, two of one signature | one fixer; no missed wake-up; waiters return
`ProofLedger` | two glitches for one id, two gates, a run, humans, a merge | SATISFIED is proven and holds up; a waiver ends only by who looked before it; the gate sees what blocks
`EngineRun` | two executions by any engine, two kinds of gate error, stalls, a cap of three calls or none | verified completions; no question left by a failure; the cap; every execution ends; the contract
`WorktreeRun` | two runs of one task or of two, two branches, a human at the main tree, failing git, crashes | no work lost; merged where it came from or where the human switched to; a half merge is reported; no shared worktree; every run is over
`Server` | two streams and two sockets, two tickets, queues of two | no event skipped but by a full queue or an overlooking look; a stream ends when told; one socket has the session; no cost leaves the relay unwritten but by a failed write; the session is freed
`StreamRace` | one worker, two streams (expected to fail) | who connects between announcement and row is left hanging

### Divergences

A comment or a document states each of these, and the code does not keep it. One has a run
of its own that finds it violated:

* `StreamRace` (`NobodyLeftHanging`): "so a client that connected just after the agent
  finished isn't left hanging on heartbeats" (`tasks_v2.py:1283`). The agent announces its end
  before the run's row is written; who connects in between reads RUNNING and is told nothing.

Five more are stated as properties beside those that hold, and are false; no run checks them.

* `TaskRuns!BlockedTaskAwaitsAnswer`: an answer given before its run is marked BLOCKED leaves
  a BLOCKED task with nothing to answer.
* `BatchConductor!AnnouncedIsStored`: a COMPLETED event and webhook for a CANCELLED row.
* `ProofLedger!WaiverOutlivesGates`: a run that listed a requirement before it was waived
  writes its old row over the waiver. `SeenWaiverStands` is what the code does keep.
* `ProofLedger!CaptureKeepsOthers`: two captures at once take the same id, and the second
  replaces the first one's requirement (`allocate_requirement`, written against it, has no caller).
* `EngineRun!PlanIsFinished`: a question the model calls tactical is not asked, "let the agent
  continue with self-correction" (`agent.py:1741`), but the agent goes on to the final
  verification with the rest of the plan not executed; green gates complete the task.

The others came up while modelling. Tasks, runs and batches:

* Two starts of one task at once both find no active run and both insert one
  (`runtime.py:99`). `OnlyContendersStart` bounds it: each of those who had looked adds one run
  at most, and nobody else joins them.
* An engine that stalls, or whose final verification a stall stops, may return BLOCKED without a
  question (`react_agent.py:864`): no blocker is created (`runtime.py:940`), so no answer ever
  resets the task, and it waits for `work stop` or `resume`.
* A save that has looked at the stored status and found no cancel replaces the row all the same
  when a cancel of another process comes in between: the batch is RUNNING or COMPLETED again,
  although such a write is "refused (#726)" (`conductor.py:2679`) and "Cancellation is
  authoritative" (`conductor.py:2702`). `CancelStands` says that only this save, one of each
  executor, can do it.
* The results are dumped before the save takes its lock: of two pooled workers the one that
  dumped first may save last, and the stored results lack the other's verdict until the next
  save (`conductor.py:2685`).
* The task that completed while its batch was being cancelled has no result in the
  CANCELLED row, and a resume runs it again (`conductor.py:1164`).
* A worker that is refused because another executor's run of the task is active leaves that
  run to its executor, which fails it (`conductor.py:2620`).
* A stop that lands between the two writes of `complete_run` (`runtime.py:366`, "so run and
  task never diverge") leaves a COMPLETED run on a READY task.
* A resume that lands inside `block_run` writes the run RUNNING, is refused by the task and
  starts no worker: the state of which `app.py:3168` says "with no way out (#1005)".
* `work retry` of a BLOCKED task with a BLOCKED run is refused after it has reset the task
  (`app.py:3671`): `reset_blocked_run` has moved it to READY already.
* A second answer decides on a BLOCKED run and stops the run restarted meanwhile
  (`blockers.py:366`, "Stop the blocked run").
* A group larger than its pool: a queued task is launched after the executor has noticed a
  cancel (`conductor.py:2680`).
* A batch stopped gracefully and resumed before its executor has looked goes on in both
  executors (`conductor.py:1096`, "Execution loops will exit").
* A BLOCKED task whose issue is closed after it was counted: every result is COMPLETED and
  the batch PARTIAL, the state `conductor.py:2194` says is avoided (#1032).
* The reconciliation thread takes a worker's own DONE for an outside completion and ends the
  worker in its epilogue (`reconciliation.py:244`).
* A batch with retries is stored FAILED and then COMPLETED, although `conductor.py:542`
  lists "Statuses from which a batch never moves again".
* A sweep that saw the instant between a supervisor's answer and its reset, and is applied
  after the second run completed, takes the COMPLETED away; the batch may then be PARTIAL
  with nothing completed. Without supervision it takes an answer beside a retry round, or
  beside a resume by another executor: a BLOCKED verdict is found answered, the task is run
  again and completes, and the finding is applied. `RowHonest` and `CompletionStands` are
  claimed, and proved, for batches without supervision in which nobody answers, and for those
  without retries and resumes in which anybody does (`VerdictsStand`).
* An executor that has noticed a cancel goes on launching if another one resumes the batch
  meanwhile: its loop looks at the row, which says RUNNING again, and not at its copy.
  `NoLaunchOnceNoticed` is proved where nobody resumes and the groups have one task (a larger
  group is the pool above).
* Two operators who answer one question at once: both see the task BLOCKED, one resets it, it
  is started again and completes, and then the other one resets it, from DONE to READY. It has a
  COMPLETED run and is READY. `RunAndTaskAgree` is proved for one operator who answers, and any
  number who resolve.
* A task that lists a dependency twice: `topological_sort` counts both and takes one off, so it
  raises although there is no cycle ("This shouldn't happen if detect_cycle works correctly",
  `dependency_graph.py:173`), and the parallel batch runs one task after another in the order of
  `batch.task_ids`. The generated task lists are not rid of duplicates (`tasks.py:1229`).
* A resume and a retry round run in the order of `batch.task_ids`, whatever depends on what
  (`conductor.py:1194`, `:1512`), and what depends on a FAILED task is launched unless
  failures stop the batch. `DependenciesFirst` is claimed for the first pass.
* A roll-up computed from a read that another process has overtaken is written all the same:
  an answer's READY can reach the parent after its child went on to DONE, and stays there,
  although `task_tree.py:423` has "All children DONE -> parent DONE".
* `propagate_status` calls `update_status` without `github_autoclose`: a `--stub` completion of
  a last child closes its parent's issue, although such completions "must not act on a real
  issue (#957)" (`tasks.py:577`).
* `checkpoints.restore` writes `tasks.status` itself (`checkpoints.py:211`), past the state
  machine and past what `tasks.py:638` calls "the single chokepoint every DONE transition
  flows through".

Requirements:

* A waiver renewed between the two statements of `check_expired_waivers` is removed
  (`ledger.py:732`).
* A requirement whose artifact is lost and that is reopened between the merge gate's two
  listings is in neither, and the merge is allowed (`evidence.py:183`). Any run that fails
  a gate at that moment does it; `GateSeesBlockers` excludes it through `spared`.
* A run that dies between attaching a failed gate's evidence and reopening leaves the
  requirement SATISFIED; `SatisfiedHoldsUp` excludes dead runs. Two runs at once break it as
  well (the one that passed a gate decides after the other one failed it), so it is claimed, and
  proved, for one at a time.

Engines and worktrees:

* "A coding task that "succeeds" without touching any file is a false completion"
  (`subprocess_adapter.py:332`), but Codex and cloud runs are not asked, outside a git repository
  nobody is, and files that were dirty before the child began, or that an earlier round left,
  count as its change. `CompletedIsVerified` claims a change only where the guard applied.
* The plan engine never persists its calls, so its cap begins anew with each agent; the
  planner's own call is not recorded; the calls that word a question and that diagnose a
  failed gate are made without a look at the cap. `SpendWithinCap` is about the ReAct engine.
* A supervised rerun that fails leaves the escalation blocker OPEN beside a FAILED run:
  `FailedAsksNothing` is about the ReAct engine.
* `git merge --abort` runs whenever `git merge` fails, also when it refused to begin because a
  human's own merge was in progress: that merge is thrown away (`worktrees.py:236`). That the
  abort itself fails nobody notices: the main tree stays in the middle of the merge.
  `HalfMergeIsReported` is what remains: the run does not end as if it had merged.
* git merges into whatever is checked out when it runs, and not into `base_branch`. A human who
  switches the main tree between the checkout (`worktrees.py:191`) and the merge
  (`:204`) gets the work on another branch, and the row says COMPLETED. If the switch left every
  branch, the merge goes to a detached HEAD, the worktree and its branch are cleaned up, and the
  work is in the reflog only, against "never silently discard agent work, the #714 bug"
  (`runtime.py:1112`).
* Off POSIX the merge lock is a no-op, so that there a run can do this to another.

Streams and sessions:

* Delegated engines, and stalls of the ReAct one, publish no completion; the BLOCKED branch
  of `_terminal_completion` is never reached.
* `complete_task` waits with the lock for room in each queue, also in that of a client that
  has left and that waits for the lock: the publisher is wedged, and `ToldIsOver` excludes it.
* `publish_sync` walks the list of subscriptions while the event loop removes from it
  (`streaming.py:541`; "Thread-safe for concurrent access", `:411`): a removal behind the
  place it is at makes it step over the next one, and if that was the only open stream its event
  is dropped. `NothingSkipped` excuses the stream it happened to (`dropped`).
* `complete_task_sync` takes the first of a list that may have become empty since it was tested
  (`streaming.py:575`): its callers log an IndexError, and nobody is told of the end.
* A session ended between the look at its row and the write of "active" is active again
  (`session_chat_ws.py:215`); ending a session tells none of its sockets.
* A relay cancelled inside `update_cost` flushes a cost that the write it left behind records
  as well; draining the queue for a new turn drops costs nobody has read. `CostIsKept` is
  about what the relay has taken, and is an inequality for this reason.
* A failed `update_cost` is logged and the turn's cost is zeroed (`session_chat_ws.py:271`,
  `:309`), and a write of the last flush that waits for a thread when the relay is cancelled is
  never made: these costs are `lost`, and `CostIsKept` counts them.

**Bounds.** Two processes suffice for every race of `TaskRuns`, which is between a read and a
write of one process and a write of another, all of one task; two or three rows of runs and one
to four of blockers let a task be restarted after a failure or a question (one where the two
starters are what matters). A batch needs two tasks (one finished, one not, or two in one pool)
and a third for a dependency at two distances, one executor, and a second one for a resume; a
third would only be another resume. Three agents are two waiters and one fixer, so that a
failing fixer is replaced by either. The cancel needs one task only: what is refused or lost is
a write of the row, and `CancelStandsAlways` proves it for any number. `BatchLive` leaves
crashes of the executor and resumes to `BatchCancel`: after them nobody promises that the batch
ends. Requirements do not influence each other in the ledger, so one id (`MaxReq`), contended
for by two captures, and one run against humans show its races; all but `SatisfiedHoldsUp`,
which is claimed for runs one after another only, are proved for any number of both. Two
executions let the second engine meet what the first one spent and changed; two errors and
thresholds of two and three tell a repeated error from many different ones; two plan steps
leave one undone when the other fails. Two runs are the two sides of every race in the main
tree or for one worktree, and two branches are where a merge belongs and where it does not; one
act of the human's at the main tree (`MaxMeddling`) falls into every gap of a run, which is
where it could do harm; the safety properties of `WorktreeRun` and of chats are proved for any
number. A queue of two overflows with the third event. Two turns are one that is preempted and
the one that preempts it. `AStreamIsOver` is `ToldIsOver` for one of two streams: they are
alike, so it holds of the other one. `MaxMeddling`, `MaxEvents`, `MaxLaunches`, `MaxTickets`,
`MaxTurns`, `MaxCalls`, `MaxExecutions`, `MaxFailedFixes`, `MaxRuns`, `MaxBlockers`,
`MaxRetries`, one pending cancel command and, per worker, one newest run are the bounds; an
action that would exceed one is disabled. `CHECK_DEADLOCK FALSE` stands where the system ends:
all operators have asked for everything, a batch is over.

**Fairness.** `TaskRuns!Fairness`: a process that is in the middle of an operation goes on (it
is an operating-system process; nothing waits for anything), and an engine ends, since its
iterations and waits are bounded. Requests and crashes are never fair.
`BatchConductor!Fairness`: an executor goes on, its saves included, and a worker ends.
`GlobalFix`: agents go on when the lock lets them, commands end, deadlines pass. `EngineRun`:
the agent's own steps, for calls, tools, gates and children return or time out; the watchdog
and the clock are unfair, so an execution ends without them. `WorktreeRun`: each process's
steps (weakly), for git and agents return; nobody has to crash, stop or tidy up. The lock is
let go by whoever holds it or by the system when that dies, and each run takes it once.
`TaskStream!StreamFairness`: the event loop runs, clients that stay take what they are sent,
and `Unsubscribe` is strongly fair, because `asyncio.Lock` serves its waiters in order.
`SessionChat!ChatFairness`: a cancelled task ends, a write returns, and the handler's `finally`
goes on. `ProofLedger` has none: it claims no liveness, and a run or a human may stop anywhere.

## Proofs

`TaskRunsProofs` proves, for all sets of tasks and processes, all bounds and all assignments
of operations:

* `TypeCorrect`: `Spec => []TypeOK`. The frames carry most of the work: the invariant needs
  that a process at a label that uses `my[p].task`, `.run` or `.blocker` has one.
* `ImplementsLifecycle`: `Spec => LifecycleSpec`. Init maps to Init; `CompareAndSet` maps to
  a legal edge because the frame's `seen -> want` was validated and `status` still equals
  `seen`; `DispatchClose` to a close, because a process at "close" accounts for one unit of
  `unclosed`; every other action stutters. The inductive invariant is the type invariant and
  the fact that a validated pair in a frame at "swap" is an edge.

`ActiveRunProofs` proves `OnlyContendersStartAlways` with nothing assumed of who starts, resumes,
retries, leaves or dies. `start_task_run` looks and inserts later, and no lock is held in between;
what its look is worth is said of steps. While a task has an active run, no process becomes one of
those that have looked and found none (`Contenders`), and a run is added only by one of them, who
is not one any more. `LiveRuns` are the active runs and those that a `block_run` or a
`resume_run` is about to write as active: both write the run without a look at its status, so a
run that ended meanwhile comes back to life. One lemma per kind of step (`OutQuietly`,
`OutUpdating`, `OutOperating` and so on) shows who joins; the invariant needed is where
`work retry` can be (`RetryPlace`).

It proves `NoOrphanRunAlways` for any numbers of tasks, bystanders, runs and blockers, as long
as one process, `w`, starts runs and stays with them while the others stop, answer, resolve,
reset and move tasks (`OneStarter(w)`, an assumption of the theorem; two starters, a resume, a
process that leaves its run or dies each break the property, see Divergences). It is not
inductive. `CalmInv` adds that a task has one active run at most (`AtMostOneActiveRun`, which
two starters break and no run checks), where each process can be with which errand (`Placed`),
that a start which found no active run finds none until it inserts its own (`NoneActive`), that
no other run of its task can be active beside the starter's (`OnlyOwnActive`), that a starter
which turns to the task has ended its run (`Recorded`), and that a RUNNING run is the starter's
(`OwnedByStarter`). A bystander's step only fails runs, or leaves them; the starter's has a
lemma per action.

It also proves `RunAndTaskAgreeAlways`, for one worker that picks tasks up, one operator who
answers and resolves and any number who resolve (`Patient(w, h)`, with the operations of
`TaskRunsAnswer`; a second operator who answers breaks it, see Divergences). The property
speaks of moments when all have finished; its invariant, `PatientInv`, must say how far each has
come in between. A task the worker is not at agrees with its latest run (`RestSettled`). For
the worker's own task, `Tales` lists which statuses of task and run go with which errand and
place: between the two writes of a `complete_run` or `block_run` they disagree, in the one way
the second write repairs. `OperatorAt` says that once the operator has found a run BLOCKED
nobody else moves the task, unless the worker is still marking it; that case, an answer that
comes inside `block_run`, is where the worker's own update may be refused, and the tale of a
FAILED run on a READY task is the one the refusal may leave. `RowsInOrder` and `ActiveIsLatest`
make the latest run the one that matters.

`BatchConductorProofs` proves, for any tasks, plan, executors and number of retries:

* `TypeCorrect`: `Spec => []TypeOK`. It is not inductive alone: `NextGroup` and `Count` look
  at the head of the plan, so `GroupHasPlan` is needed, and `Persist` announces the copy's
  status, so `VerdictReached` says that it is terminal from the verdict to the save.
  `Moves(e)` and `Copies(e)` are what every action of an executor does to its control and
  its copy; each action's lemma shows these and that the other variables keep their type.
* `CancelStandsAlways`: of a CANCELLED batch, no save gets past its look (`Overtakers`), each
  executor has at most one that had got past it before, and the row leaves CANCELLED by that
  save or by a resume only. The invariant `SavesInPlace` says which saves an executor can be in
  the middle of where it is (its own where a batch begins and ends, one per worker whose verdict
  is being recorded) and that one of them at a time is in the lock. `Typed` and `SavesInPlace`
  are shown for each action; the other theorems use them for what a `ReplaceRow` stores.
* `DependenciesFirstAlways`, from `PlanAssumption`. `PassInv` says that an executor has workers
  for the group at the head of its plan only (`Gathered`), and that in a first pass what it has
  left are some last groups of `Groups` (`PlanLeft`): what a task depends on is in a group
  that is no longer there. `Shapes` sorts every step by what it does to the plan (stay, begin,
  enter a group, finish it, count, leave, start over).
* `PlanInOrder`: whatever tasks a batch lists (each once) and whatever they declare, the plan is
  as `GroupsAssumption` and `PlanAssumption` ask, so nothing is assumed of plans that the code
  does not see to. `Levels` is recursive, and that a function satisfies its equation has to be
  shown first (`LevelsExist`): among the sets of tasks that are closed under dependencies and
  have levels take one that leaves out the fewest; without a cycle some task left out depends on
  none left out, and would have a level too. The minima come from the library's theorem on
  well-founded orders (`LeastNatural`). `LevelsAre` shows that there is no other solution:
  among the tasks where two differ, one depends on none of them. `GroupsByLevel` then shows
  that no level is skipped, so the filter for empty groups in the code has nothing to remove,
  and the model needs none (`SelectSeq` is recursive, and a theorem may not reach it).
* `CompletionStandsAlways` and `RowHonestAlways`, where no finding can forget a verdict that
  was recorded after it was made (`VerdictsStand`, see Divergences). `FindingsFresh`: no task
  with a recorded COMPLETED is about to be forgotten. Without answers this is so because
  nothing is ever found answered (`NoAnswers`), without retries and resumes because the one
  executor has one pass and a task with an open question has no worker any more (`OnePass`).
  The row is honest because the copies are, and so are the results that each save in progress
  has dumped with the status it will store (`HonestCopies`, `Brings`); and the verdict of a
  first pass is because the tally is backed (`TallyBacked`): there is a set of tasks with a
  recorded COMPLETED, all with their turn behind them, of as many members as were counted.
* `NoLaunchOnceNoticedAlways`, for groups of one task and a batch nobody resumes. `NoticeInv`: a
  copy that says CANCELLED says what the row says until the save (`Noticed`), and no task
  waits for a worker of an executor with such a copy (`QueuedFree`).

`GlobalFixProofs` proves `OneFixAlways` (one owner per signature, none for a fixed one) and
`NoMissedWakeUpAlways` (whoever sleeps has an owner at work). The first is inductive with
types; the second strengthens it by the waiters' bookkeeping.

`ProofLedgerProofs` proves, for any glitches, gates, obligations, number of requirements and
number of concurrent runs: `TypeCorrect`, `SatisfiedIsProvenAlways`, `GateSeesBlockersAlways`
and `SeenWaiverStandsAlways`. `SatisfiedIsProven` speaks of rows that runs write from copies,
so the invariant follows the copies: what a run has listed was captured and carries no waiver
(`CopiesUnwaived`), and a pass it has counted is already in the evidence, which never goes
away (`PassesRecorded`). For the gate, `NoneMissed` says at each phase of a check where a
requirement is that has blocked all along: still to be listed, still to be verified, or
found. One lemma per action shows what it does to one frame (`FrameOK`) or one row (`RowOK`).

It also proves `SatisfiedHoldsUpAlways`: `Spec /\ []OneAtATime => []SatisfiedHoldsUp`, for runs of
which one is at work at a time (others may be over or dead). `Counted` follows the run at work:
the outcomes it has are the newest evidence, and what it has not looked at yet was a pass if
the requirement is still SATISFIED.

`GlobalFixProofs` also has `TypeCorrect`, which its two theorems rest on.

`EngineRunProofs` proves, for any errors, thresholds, caps, budgets and numbers of retries,
rounds, steps and executions: `TypeCorrect`, `CompletedIsVerifiedAlways`,
`FailedAsksNothingAlways`, `SpendWithinCapAlways` and `ContractImplemented`. The invariant says
which label is whose and when there is a result (`Placed`), that gates look at what was
declared finished (`Verified`), what is asked at each label (`Asked`), and that what the
provider bills is in the table or still with the agent, which knows what was in the table
before it (`Accounted`). `CompletedIsVerified` is about gates in all cases, about the agent's
own word where it gives one, and about a changed tree only where the zero-file guard was asked
and git could tell (`guarded`). The refinement needs `Placed` and `Asked`: one lemma per action
shows its step `Contracted`, a step of `EngineContract` or a stutter.

`WorktreeRunProofs` proves, for any runs, tasks and branches: `TypeCorrect`, `WorkIsKeptAlways`,
`CompletedIsMergedAlways`, `HalfMergeIsReportedAlways` and `OneRunPerWorktreeAlways`, with a human
who waits for no lock. They need each other: a cleanup loses nothing because what a merged run's
task committed has landed (`Saved`), which holds because nobody else works in the worktree
(`OneRunPerWorktree`) and because between its checkout and its merge a run's base is what the main
tree has checked out, unless the human has switched (`Locked`, which knows that no other run's
checkout comes in between, and that `crossed` is where the human went); `Delivered` follows a
run's work to its base or there. `HalfMerge` says whose merge the main tree can be in, and that
its run knows.

`ServerProofs` proves, for any streams, sockets, queues and numbers of tickets, events, turns
and calls: `TypeCorrect` (with one connection per ticket, `OneConnection`),
`ChatIsItsOwnersAlways`, `CostIsKeptAlways` and `NothingSkippedAlways`. For the chat, the
strengthening is that whoever has the session is in the handler that gives it back
(`OwnerIsThere`), and that the relay is over, with nothing left to record, before the session
can be anybody else's (`RelayEndsFirst`). For the streams, `Coming(s)` is the queue and what
the loop will put there: `scheduled`, or only the end of the stream once `complete_task` has
begun, or nothing for a subscription that is closed. `Steady` says of such a flow that it is a
number of old events and then the numbers from the first owed one, all of them unless an end is
among them. Lemmas about sequences show that it survives an append, a take, a cut at the end, a
fresh start; one lemma per action then shows which of them it is, for the stream and for the
others. Besides, scheduled events are published ones (`Announced`), and who watches is
subscribed (`Present`). That the publisher's look finds a live stream, wherever the list has
moved under it, is `Looking`: whoever is in front of the cursor was overlooked, is not open, or
registered after the event was published (`Passed`); and if the list has been thrown away in
the middle of the look, this holds of everybody. So a look that gives up drops the event of
nobody it has not stepped over. `CostIsKeptAlways` counts what a failed or never begun write
lost (`lost`).

Assumptions: the named ones on the constants (finite sets, bounds that are numbers, names that
are different, a plan in order, which `PlanInOrder` discharges), which TLC evaluates on every
run; and, where a theorem says so, who may do what: `OneStarter(w)` (of `NoOrphanRunAlways`
only), `Patient(w, h)`, `VerdictsStand`, `NobodyResumes`, `OneByOne`, `OneAtATime`. Each of
these is needed: Divergences has the behaviour that breaks the property without it.

Every safety property of the passing runs is a theorem. Model-checked only:

* liveness (`RunEnds`, `WaiterReturns`, `BatchEnds`, `ExecutionEnds`, `RunIsOver`,
  `AStreamIsOver`, `SessionIsFreed`), because the prover does not handle fairness;
* that every roll-up is reached by legal edges (`RollUpsAreReachable`), a search over paths.

## Plan

1. Done: the database side (`TaskStatus`, `TaskLifecycle`, `TaskRuns`, `BatchConductor` with
   `DependencyGraph` and `BatchPlan`, `GlobalFix`, `ProofLedger`), the agent side (`EngineRun`
   with its three engines and their contract, `WorktreeRun`), the server side (`Server` with
   tickets, streams and chats), and proofs of each.
2. Next proofs: the safety core of the liveness properties (what `StreamRace` shows false of every
   engine holds of a stream that registers before the end is published).
3. Next models: parents in `TaskRuns` (each update followed by the walk of `propagate_status`),
   and `BatchConductor` with worktrees, whose workers contend for the main tree.

## Not modelled

PROJECT.json lists every part with its reason. In short: prompts, parsing and rendering
(wording), LLM and GitHub calls (external), metrics and telemetry (append-only records no
decision reads), templates (data), and the web UI (a reader of the rows modelled here).

Most of the implementation's lines are of that kind. The command line alone is 6,500 lines, of
which the state-changing part is a call of a function modelled here; the gates are 1,600
lines of running tools and reading their output; routers translate requests into the same
calls and results into JSON; planners, packagers and analyzers build prompts and parse
answers. Repositories and stores of single rows (PRDs, templates, keys, settings) are
one-statement functions that nothing races with in a way a decision depends on. The modules
cover the parts that keep state across statements, processes, threads or awaits; what is
left out of those is named with each module above.
