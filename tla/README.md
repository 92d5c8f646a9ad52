# Verification of PaiCLI

TLA+ models of PaiCLI (`src/paicli`), a local coding-agent harness in Python, with the TLC runs that check them on small instances and TLAPS proofs for instances of any size. Paths such as `runtime.py:188` are relative to `src/paicli/`.

## 1. The system

PaiCLI takes a prompt, runs it in one of three modes and changes files in a project directory on the way:

* **react**: one agent loop (model call, tool calls, repeat);
* **plan**: a planner makes a DAG of tasks, workers execute it;
* **team**: the same, with a reviewer after every task and local retries.

`RunCoordinator` wraps every mode: it captures the workspace, stores a run row in SQLite, checkpoints around tasks, rolls back on failure, and resumes interrupted runs. Beside it, `DurableTaskManager` runs prompts in the background for the HTTP API.

### 1.1 Inventory

| Component (source) | State it keeps | Operations | Talks to | What is hard |
|---|---|---|---|---|
| Durable tasks (`runtime.py`) | task table in memory and in a JSON file, cancellation tokens, futures, a pool queue | submit, cancel, close, `_run`, `_load`, `_emit` | runner, listener, file | cancel racing with start and finish; crash between memory and file; events built outside the lock |
| Run coordination (`execution.py`) | none of its own: drives the run row, snapshots, mode runtimes | execute, resume, rollback, prune; observer hooks | state, snapshot, orchestration | crashes at any step, several processes, exceptions between restore and checkpoint |
| Run state (`state.py`) | `runs` and `checkpoints` tables | create, checkpoint, finish, mark_running, mark_stale_running_interrupted | SQLite | ownership by process id, no guard in mark_running |
| Snapshots (`snapshot.py`) | one JSON file per snapshot | capture_tree, restore_tree, prune | workspace | restore is file by file; prune must spare what a resume needs |
| Planning (`planning.py`) | task statuses of a plan | validate, ready/blocked tasks, waves, execute, replan | executor, planner, hooks | waves, skipped branches, one replanning |
| Orchestration (`orchestration.py`, `multi_agent.py`) | plan, task records | plan approval, worker/reviewer loop, aggregation | planning, subagents, observer | retries, exceptions of hooks, parallel readers |
| Sub-agents and review (`subagents.py`, `review.py`) | agent outcome, tool evidence | run_task, review, repair | agent loop, tools | swallowed budget errors, evidence rules |
| Agent loop (`agent.py`, `agents/*`) | history, the run's budget and reports | run, cancel, clear | model client, tools, language server, compaction | stop conditions, cancel at any point, unanswered tool calls in the history |
| Tool gateway (`tools.py`, `tool_contracts.py`, `tool_validation.py`, `file_editing.py`) | uncertain resources, thread pool | execute_many_results, waves, timeouts | tools, policy, file system | conflicting accesses, effects after a timeout, multi-file writes |
| MCP client (`mcp.py`, `mcp_resources.py`) | next id, lock, response queue, notifications | call, request, notify, close | child process | late responses, foreign ids, deadlines that run while the lock is awaited, the server's end |
| Language server client (`lsp.py`) | none between diagnoses | diagnostics_for | child process, parser | a server that answers late, about another text, or stops reading |
| Managed memory (`managed_memory.py`) | memories table with statuses | upsert, search, conflicts, save | SQLite | status life cycle, a save is up to four transactions |
| Observability (`observability.py`) | runs, spans and call rows; run budget | spans, charge, record | all model and tool calls | a budget shared by concurrent agents; charge and row are two steps |
| Model client (`llm_client.py`) | none | chat, chat_stream, retry | HTTP | retry of a stream already delivered in part |
| Policy (`policy.py`, `permissions.py`, `safety.py`, `command_policy.py`, `interaction.py`) | the rules file and each session's copy | authorise a batch, ask, remember | user, registry | sessions that overwrite one file; answers that decide later calls of the batch |
| Memory and context (`memory.py`, `context.py`) | summary cache, facts | prepare, compact | model client | a cut between a call and its result |
| Retrieval (`rag.py`, `hybrid_rag.py`) | SQLite index | build, refresh, search | files | files that change under a build, builds of several processes |
| Adapters (`extensions.py`, `skills.py`, `browser.py`, `images.py`, `web_tools.py`) | little | load, call | outside services | I/O |
| Assembly and UI (`bootstrap.py`, `__main__.py`, `rendering.py`, `prompts.py`, `model_probe.py`) | configuration | wiring | all | - |
| Evaluation (`evaluation.py`) | offline reports | score | - | - |

What makes the main ones correct:

* durable tasks: the file is the table; a task runs at most once, whatever crashes; a task cancelled in the queue never runs; an accepted cancel stays a cancel; every submitted task ends; listeners learn the final status;
* run recovery: no task attempt, and no ReAct restart that can restore, starts on top of a side effect whose outcome is unknown; a task counted as completed has its effect in the workspace; a live run is left alone by other processes; a run that can be resumed still has the snapshots the resume needs;
* scheduling: a task starts only after its dependencies completed, mutating tasks run alone, every plan finishes, a failed task skips exactly its descendants;
* tool gateway: conflicting calls never overlap and keep their order, results keep the order of the calls, nothing touches a resource whose last call is uncertain;
* agent loop: every tool call in the history is answered, what is sent keeps calls and results together, a cancel or a run of equal rounds stops it before another paid call, it does not succeed while the last diagnosis of a changed file has errors;
* run budget and trace: counted limits hold for all agents together, an exceeded one stops each agent after at most two more calls, and the trace tells what was charged, but for a bounded number of attempts;
* MCP and language server: a caller gets the answer to its own request or an error, a diagnosis is about the text that was read, and neither waits for ever but where the code gives the wait no deadline;
* managed memory: later sessions are told only what the user vouched for, for that source and version, and how a save may miss that;
* permissions: a remembered rule stays and decides the call it was given for; each call of a batch gets its own result;
* code index: while no build is due it is what the files are.

### 1.2 Plan

| # | Module | Models | Composes with | Abstract statement | Proofs planned |
|---|---|---|---|---|---|
| 1 | `DurableTasks` (done) | `runtime.py` | - | at-most-once execution | all safety properties but the violated one: done |
| 2 | `RunRecovery` (done) | `execution.py`, `state.py`, `snapshot.py` with the task life cycle of plan and team | its task loop is refined by 3 | a run's effects are those of recorded attempts | type, ownership, retention, the two effect properties of one run: done |
| 3 | `PlanGraph`, `TaskReview`, `DagExecution` (done) | `planning.py`, `orchestration.py`, `review.py`, packets and scopes of `subagents.py`: graph algorithms, layers, waves, replan, retries, review repair | `PlanGraph` + `TaskReview` in `DagExecution`; hooks in 2 | reference definitions of the graph algorithms; every task starts after its dependencies | the graph algorithms and all safety invariants of a run: done |
| 4 | `CallOrder`, `ToolWaves` (done) | `tools.py` gateway, `file_editing.py` batches | used by workers of 3 | `CallOrder`: serial execution in call order | type, no overlap, refinement, both promises: done |
| 5 | `AgentLoop` (done) | `agents/*`, `agent.py`, the compaction of `memory.py`, `context.py`, the retry of `llm_client.py` | in `Session` | bounded calls, a well-formed history | all its invariants: done |
| 6 | `RunAccounting` (done) | `observability.py`: run budget, decorators, trace rows and spans | in `Session` | the trace is the ledger | `OverrunBounded`, `TraceTells`: done |
| 7 | `McpStdio` (done) | `mcp.py` | in `Session` | answers match requests | `McpOwnAnswer`: done |
| 8 | `LanguageServer` (done) | `lsp.py` | in `Session` | a diagnosis of the text that was read | `DiagnosisOfRead`: done |
| 9 | `ManagedMemory` (done) | `managed_memory.py` | in `Session` | trust is vouched for | `TrustIsVouched`: done |
| 10 | `ToolAdmission` (done) | `policy.py`, `permissions.py` | in `Session` | rules stay, answers decide | `RulesKept`, `AdmissionAsAnswered`: done |
| 11 | `CodeIndex` (done) | `rag.py` | in `Session` | the index is the files | `IndexLagExcused`: done |

The modules are written for proof as well as for TLC: parameters are CONSTANTS with a named assumption, every operation is an action of its own, and no RECURSIVE operator is used.

## 2. DurableTasks

`DurableTasks.tla` models `DurableTaskManager`. State: `status` is `_tasks`, `disk` the JSON file, `token` the cancellation tokens, `future` and `queue` the executor, `section` the lock (which task is inside which critical section), `pc` the pool thread running `_run(task)`, `emit` the calls of `_emit` under way. `seen`, `issued`, `runs` and `early` are history.

* A critical section is two steps, because a crash or a failing write may fall between the change in memory and the rename of the file: `Submit`/`SubmitPersist`, `Cancel`/`CancelPersist`, `Start`/`StartPersist`, `Finish`/`FinishPersist`.
* `_emit` is two steps as well: it reads the status without the lock (`BuildEvent`), then calls the listener (`Deliver`, `CallRunner`, `Return`).
* `CheckToken` is the last `token.check()`, outside the lock; `Finish` then writes the outcome whatever the status is.
* `PersistFails`, `PersistEndsRun`, `ListenerRaises`, `ListenerEndsRun` are exceptions and where they end up; `Crash` and `Restart` are the end of the process and `_load`.

| Run | What it shows | Instance |
|---|---|---|
| `durable_tasks` | file = memory outside the lock, at most one execution over restarts, a task cancelled in the queue never runs, the listener is told each final status, the file loses and reopens nothing | 2 tasks, 1 thread, 1 crash, 1 fault, symmetric tasks |
| `durable_tasks_live` | every submitted task ends | 2 tasks, 1 thread, no crash or fault |
| `durable_tasks_cancel` | *violated*: an accepted cancel is overwritten by success | 1 task |

Two tasks on one thread are what it takes for a task to wait in the queue while another runs, and for one task's section to write the table while the other is halfway; tasks interact only through the lock, the queue and the whole-table write. One crash followed by a full life covers every pair of a crash point and a later step.

Fairness (`Fairness`): weak fairness of the pool thread of each task (threads are scheduled; a runner returns because an agent run has an iteration limit), of the step that ends an entered critical section, and of event delivery. Nothing is assumed of the caller: no submit, cancel or close has to happen.

## 3. RunRecovery

`RunRecovery.tla` models the life of runs over several PaiCLI processes. Durable state: `row` (the `runs` table), `kept`/`saved` (snapshot files), `ws` (the workspace, as the set of effects present in it; an effect names the run, task and attempt that made it), `tries` (numbers attempts; history). Memory of process `p`: `pc`, `job`, `plan`, `known` (the records), `wave`/`step`/`attempt` (the tasks in progress), `prior` (the observer's current snapshot), `target` (the snapshot being restored), `outcome`, `raised`, `replan`.

| Code | Actions |
|---|---|
| `RunCoordinator.__init__` with `mark_stale_running_interrupted` | `Open` |
| `execute`, `create` | `Execute` |
| planner, approval, `plan_ready`, `TeamModeRuntime.resume` | `PlanReady`, `PlanCancelled`, `RunRaises` |
| ReAct loop | `ReactEffect`, `ReactEnds` |
| `PlanExecuteAgent.execute`, `DagScheduler`, `TaskConcurrencyPolicy` | `PickWave`, `SkipBlocked`, `Replan`, `PlanFinished` |
| `before_task` + `mark_running`, worker tools, `after_task` | `BeforeTask`, `WriteEffect`, `CompleteTask`, `FailTask` |
| reviewer verdicts and `review_finished` | `Review` |
| exceptions of hooks | `PlanHookRaises`, `TeamHookRaises` |
| `_rollback_if_requested`, `restore_tree` | `RollBack`, `KeepWorkspace`, `RestoreFile` |
| AFTER snapshot, `finish`, `prune` | `Finish`, `Prune` |
| `resume`, `_prepare_resume`, `mark_running` | `ResumeReact`, `ResumeTask`, `ResumeWhole`, `ResumeBetweenTasks`, `RestoreFile`, `MarkRunning` |
| end of the process, anywhere | `Crash` |

A process may die between any two actions. Merged into one action are steps whose separation nothing can observe: a snapshot and the transaction that refers to it (a crash between them leaves a file nobody refers to), and a change in memory with the checkpoint that stores it. A restore is not merged: it goes file by file, so a crash leaves a mixture.

Abstractions: tasks of a replacement plan keep their ids; the limit on Team retries is left out (a retry may always be the last one, see `FailTask`); a completed mutating task has left an effect; snapshots hold the whole workspace (no skipped files).

What the user does is a constant: `Sharing = "one_process"` (one terminal at a time), `"one_run"` (several terminals, one run at a time, and none started while a crash is unnoticed), `"any"`. The code enforces none of these; the properties that need one name it through the run. `EarlyFaults` says whether an exception may also strike between a whole-run restart and the next checkpoint.

| Run | What it shows | Instance |
|---|---|---|
| `run_recovery` | `NoUncertainEffect` and `CompletedEffectsPresent` in the three modes, over crashes in tasks, reviews, restores and finishes | 1 run, 3 processes (two crashes and a resume after each), 2 dependent mutating tasks, 3 attempts, 6 snapshots, each process with or without snapshots, policy `never` |
| `run_retention` | `WorkerOwnsRow`, `RecoverableHasSnapshots` | 2 runs, 2 processes open together, 1 task, policy `ask`, `KeepLast` 0 so that nothing survives by age |
| `run_early_fault` | *violated*: after a whole-run restart that fails early the stored plan is wrong | mutating task, then a read |
| `run_rolled_back` | *violated*: resuming a rolled-back run does not restart its tasks | policy `always` |
| `run_pruned` | *violated*: another process prunes a running run's snapshots | 2 runs, `Sharing = "any"` |

`NoUncertainEffect` has one exception, which its definition names: a ReAct run that is resumed without a snapshot, by a process with `--no-snapshot` or because the run has none, starts its prompt again with nothing restored (`RestartsUnrestored`; `execution.py:458-461`). The documents promise otherwise (section 8).

Three attempts are enough for a first attempt that is lost, a retry and a dependent task; a third process resumes what a resume left. The instances end when every process has died, so deadlock is not checked.

The two effect properties are checked with policy `never`, one run in the project and no early fault: with a rollback, or with two runs that restore each other's workspace, `CompletedEffectsPresent` does not hold of this code (`run_rolled_back`, `run_early_fault`, and the hazard list).

## 4. ToolWaves

`CallOrder.tla` states what the gateway promises: what calls do to files is what running them one after another, in the order they were asked for, would do. Its guard `MayTouch` lets a call use a file once the earlier calls it clashes with there are settled (ended, refused, or given up on although they only read). Two consequences are stated on it: `ReadsSeeCallOrder` and `WritesInCallOrder`.

`ToolWaves.tla` models the gateway itself. Per agent: `pc` (where its `execute_many_results` is) and `wave`. Per call: `state` (its future), `error` (refused before it ran), `result` (what the agent was told), `waveOf`. Shared: `uncertain` (`_uncertain_calls`). Files: `content` (which call wrote each last), `seen` and `wrote` (what each call has read and written).

| Code | Actions and operators |
|---|---|
| `execute_many_results`, the scope filter of `ScopedToolRuntime`, `TaskConcurrencyPolicy` | `StartBatch`, `InScope`, `Admitted` |
| `_prepare_call`, `_uncertain_conflict`, `_schedule_waves` | `Prepare`, `Isolated`, `Prune`, `Joins`, `Place` |
| `_recheck_uncertain` | `Recheck` |
| `_execute_wave`: groups of threads, a single refused call | `Submit`, `Group`, `Refuse` |
| `future.result`, its timeout, `_track_uncertain`, next group, wave, batch | `CollectAnswer`, `CollectTimeout`, `Track`, `Proceed` |
| handlers in the pool threads | `Begin`, `Read`, `Write`, `Return` |
| a call's deadline | `Expire` |
| claims of the tools and their conflicts | `Claims`, `AccessesConflict`, `MustRunAlone` |

`Prepare` also places the call in its wave: the code schedules after preparing the last call, but scheduling looks only at prepared calls in order, so nothing can tell the difference. A handler is abstracted to the files it reads and writes: it uses only files its claims cover, writes a file after it has read it, replaces files one by one and may stop anywhere, which covers an edit that fails after some of its files. `write_file` and the shell, which write without reading, are covered because the read is a step that can immediately precede the write.

The run `tool_waves` checks `ConflictingCallsNeverOverlap`, `InCallOrder` (both of these consequences), the refinement `ImplementsCallOrder`, and `BatchReturns` (231,000 states). Instance: a worker and a read-only analyst, two files of one directory, at most three calls in two threads. The batches hold what makes waves differ: a directory listing (recursive claim) against a file, a two-file patch, a reader and a writer of the same file, two files that do not conflict, invalid arguments, a tool that runs alone. Three calls are enough for a timed-out call, one that must be kept from its file, and one that runs beside it, in one batch or in the next. Deadlock is not checked: calls are bounded and a handler may hang for ever.

Fairness: the agent's own thread runs and deadlines pass. Nothing is assumed of handlers or of pool threads, so `BatchReturns` holds even when all of them hang.

Left out: the text and metadata of results; files inside a path that is itself a file (`write_file("a")` and `create_project("a/b")`); children of a killed shell; tools that claim nothing (web, retrieval) and read nothing that is modelled. The last two of these are in the hazard list or without effect on files.

## 5. PlanGraph, TaskReview, DagExecution

`PlanGraph.tla` holds the algorithms of `planning.py` on a plan (a record of functions on task ids: position, dependencies, type, text): the depth-first search of `PlanValidator` (`NoCycle`), `topological_order`, `execution_batches`, `ready_tasks`, `blocked_tasks`, `execution_waves` as the code builds them (`ExecutionWaves`) and one wave at a time (`NextWave`), with the definitions they are checked against: a rank of the tasks (`IsDag`), a stable topological order, the longest chain below a task. The validator looks at ids, texts and dependencies only; what a task does is no concern of it, and `PlansAndSchedules` speaks of dependencies alone (section 8).

`TaskReview.tla` holds the thread of one Team task: `_execute_task`, `ReviewerAgent.review`, and what scopes and the completion policy let an outcome be. Per task: `status`, `attempts`, `at` (where the thread is), `handed` (dependencies whose results are in the packet), `changed` (files of the last outcome), `inspected`, `repairs`, `judgement` (of the current review); `unread` is history.

`DagExecution.tla` composes both and adds the main thread of a run: `mode`, `phase`, `plan`, `invalid` and `revisions` (the two bounded conversations with the planner), `allowReplan`, `layer` (ready tasks of this layer in no wave yet), `results` (what the next packets may use); `doneAs` is history.

| Code | Actions |
|---|---|
| `create_plan`, `revise_plan`, `replan`, `_generate` with its repair loop | `PlannerPlans`, `PlannerBabbles`, `PlannerFails` |
| plan approval | `Execute`, `Cancel`, `Supplement` |
| `plan_ready` hook | `PlanReady` |
| loops of `PlanExecuteAgent.execute` and `TeamModeRuntime.execute_plan` | `OpenLayer`, `NothingReady`, `AllSettled`, `CloseLayer` |
| `mark_blocked` | `MarkBlocked` |
| `PlanExecuteAgent._execute_wave` | `BeginPlanWave`, `PlanWorker`, `JoinPlanWave` |
| replacement plan, `inherit_completed_from` | `Replace`, `Inherit` |
| `TeamModeRuntime._execute_wave` | `BeginTeamWave`, `JoinTeamWave` |
| `_execute_task` and its hooks | `Start`, `WorkerReturns`, `Settle`, `Finish` |
| `ReviewerAgent.review` | `ReviewerFails`, `ReviewerBabbles`, `ReviewerAnswers` |

A hook may raise at every call. The code builds all waves of a layer before the first one runs; the model takes them one after the other, and `PlansAndSchedules` checks that this is the same. The checkpoints and snapshots the hooks make are in `RunRecovery`.

| Run | What it shows | Instance |
|---|---|---|
| `dag_execution` | `PlansAndSchedules` (the algorithms against their definitions), `DependenciesHold`, `MutatorsRunAlone`, `SkippedBehindFailure`, `CompletedByReview`, `ResultsMatchTheirTask`, `RunEnds` (193,000 states) | all 512 ways to draw dependencies between two readers and a writer, valid or not, and four plans with other types, texts, sizes or an unknown dependency; two of them resumed with every status a stored run may have; 2 workers, 1 repair, revision, replacement, review retry and review repair, 1 file |
| `dag_review` | *violated*: `EveryArtifactRead`, a file only an earlier attempt changed is approved unread | 1 writing task, 2 files |

Three tasks contain every shape in which two tasks meet: a chain, a fork, a join, a cycle below a root, two readers beside a writer before, between and after them. Each bounded loop is taken once and refused once. Runs end, so deadlock is not checked.

Fairness: the planner, the main thread and the threads of a wave go on, because a model call has deadlines and bounded retries and an agent a bounded number of rounds. Nothing is assumed of the user: `RunEnds` lets a run wait for the approval.

Two observations that no property claims. `inherit_completed_from` compares a task's own description only, so a replacement plan may keep a result although a task it was made from is done again. The call of `mark_blocked` when nothing is ready marks something only after a resume; within a run the call after the failed wave has done it. The branch behind it ("a valid DAG should not reach this branch") is unreachable, as its comment says (`SkippedBehindFailure`).

Left out: prompts and JSON of plans and reviews (a reply is a plan, a review, or neither), the aggregator (one model call over the finished plan), result texts, cancellation tokens (a cancelled worker is a failed one).

## 6. Session and its parts

`Session.tla` composes the parts of an interactive session that work behind one another's interfaces: `AgentLoop`, `RunAccounting`, `McpStdio`, `LanguageServer`, `ManagedMemory`, `ToolAdmission`, `CodeIndex`. They share no variable. What one gives another (an answer, a result, a verdict, a diagnosis) is a nondeterministic choice in the module that receives it, over everything the other may give, so each part is checked in every environment the others can be. `focus` names the part that moves in a behaviour; since every property speaks of one part, checking the parts one at a time is exact, and one run does for all seven.

### 6.1 AgentLoop

One agent over several prompts. State: `history` (a message is its role and the call ids it carries), `pc`, `budget` (`AgentBudget` with its window of round signatures), `spent` and `late` (what the decorators of `observability.py` charge), `purpose`, `attempt`, `sent` (the call under way), `summaries` (the compactor's cache), `batch`, `report` (the files whose last report has errors), `cancelled`. `streak`, `wrong`, `torn`, `split`, `since` are history.

| Code | Actions and operators |
|---|---|
| `Agent.run_outcome`, `clear_history`, cancellation, deadline | `Submit`, `Clear`, `Cancel`, `Deadline` |
| `AgentLoopEngine.run`: checks, preparation, call | `Top`, `AskSummary`, `Prepare`, `Attempt` |
| `RetryingLlmClient` over `ObservedLlmClient` | `Attempt`, `AttemptFails`, `SummaryAnswered`, `AnswerDropped`, `Arrives` |
| answers: accepted, sent back, tool calls | `AcceptText`, `RejectText`, `AskTools` |
| `ObservedToolGateway`, `_execute_tools`, diagnostics, round signature | `StartBatch`, `BatchTorn`, `EndBatch`, `BreakOff`, `Observations` |
| a question to the user, a diagnosis that blocks | `Block`, `Unblock` |
| what is told of an edit | `Reports`, `Spoken`, `SaidErrors` |
| `AgentBudget` | `Remember`, `Stagnant`, `Repeated`, `BudgetCheck` |
| `ConversationHistoryCompactor`, `MemoryManager.prepare`, `ContextController` | `SplitIndex`, `Compacted`, `Prepared` |

A report is what the language server published, not what the file holds: of each edit and path it may say that nothing is wrong, warn, or find errors, whatever is there, and it may not be made at all; a file of another suffix gets an empty one (`lsp.py:281`). A message goes into the history for warnings as well as for errors. An exception may strike after any of the results of a batch (`BreakOff`).

`BatchAnswered`: the history answers every call once, later than the call and in order, except the batch at work and those an exception cut short. `SentPairs`: what is sent has no result without its call and no call without its result, with the exceptions named below. `StopsAtStreak` and `CancelIsPrompt` are about the stop conditions. `NoSuccessOverErrors`: no run succeeds while the last diagnosis of a file, in the last batch that changed it, has errors. `wrong` follows the diagnoses batch by batch, `report` is what the completion policy keeps; they differ where a later change could not be diagnosed. Whether a diagnosis is right is not claimed.

Observed, and the reason for the exceptions: a budget exceeded inside a batch leaves its calls without results in `Agent.history` for the next prompt (`torn`), although the comment at `agents/loop.py:247` speaks of preserving the complete protocol; a diagnostics message between two results ends the run of results the compactor looks for, so a later result may be sent without its call (`split`, section 8).

### 6.2 RunAccounting

The agents of one run side by side (planner, workers, reviewers, aggregator), their shared `RunBudget` (`ledger`, `expired`), the trace (`runRow`, `spans`, `traced`) and the coordinator. `hand` is what each agent is doing. Prices in money are left out: they are checked where tokens are. `OverrunBounded` bounds what the late check costs: the counted limits hold exactly, and after the tokens are spent an agent begins at most two calls, a summary, whose refusal `_generate_summary` swallows, and a turn. `TraceTells` relates ledger and rows, and spans to the run's row. `rowless` (history) counts the attempts that were charged and get no row, `unclosed` the spans whose end was refused; the database may refuse a row, the beginning of a span or its end, each as an exception where the code raises it.

Observed: `after_model_call` and `after_tool_call` raise before the row is written (`observability.py:655`, `681`, `844`), so the attempt that passes a limit has no row: at most a summary's and a turn's for each agent, which is what `TraceTells` bounds (section 8). A refused `finish_span` (`observability.py:1104`) leaves an agent's span running below an ended root and its exception leaves `run_task`, outside `_run_safely`. An interrupt or the end of the process leaves spans and the run's row running, since `traced_span` catches `Exception` only; the span of an agent that failed ends as succeeded, since `_run_safely` is inside it.

### 6.3 McpStdio

`requests` are the calls of `JsonRpcClient.call` (their id, place, deadline and end), `responses` the queue behind the pipe, `server` (`up`, `deaf`: it reads no more, `mute`: its output is closed, `exited`), `asked` and `answered` the server. A call is `queued` for the lock, `sending` (the write under the lock, which has no deadline), `receiving`, `ended`: `TakeStream`, `SendRequest`, `SendFails`, `ReceiveLine`, `TimeOutRequest`. The server answers (`ServerAnswers`) and writes what no request asked for (`ServerStrays`): notifications, text, requests of its own under any id, an answer once more.

`McpOwnAnswer`: a caller gets its own answer, and a first answer to another call is read only if that call left the stream without it. The second half says how the client itself gets out of step: after one timeout whose answer comes late, every later request reads the answer of the one before and fails, for as long as the server answers (`mcp.py:178`); `docs/paicli-interview-qa.md:874` says that a request goes on waiting for the response with its own id. The other way is the server's: a request of its own (`ping`, `roots/list`) carries an id; unless it is that of the call at work it ends the call as a mismatch, and if it is, it passes for the response, in which no result is found.

### 6.4 LanguageServer

One diagnosis after another of one file: `diagnosis` (where it is, which text it read, its deadline, what it found), `inbox` (the queue), `langServer`, `text` (the file). The server may answer the handshake with anything that has the id, publish late, about its own reading of the disk or not at all, send garbage, stop reading, or exit; the file may change meanwhile. `DiagnosisOfRead`: the report is about the text that was read, unless the server published what it found after a further change, and no server outlives its question. The deadline covers the waits, not the writes: a server that stops reading while a text longer than the pipe is sent blocks the agent (`Stuck`; `lsp.py:180`).

### 6.5 ManagedMemory

`rows` is the table (status, source and version of each fact), `ops` what each process is doing (a save is a mark, a read, a write and a conflict resolution, each a transaction), `backing` (history) what a fact's being trusted rests on: the source and version the user or a verification vouched for. A save may give source and version together, one of them, or neither, and any source; only with both does it mark the source's other versions as stale (`Marks`), and what it does not give stays (`Kept`).

`TrustIsVouched`: what is retrieved was vouched for under the attribution it has now. Two exceptions are named in it. *Raced*: another process changed the row between the transactions of a model's save; a deleted, stale or superseded fact may come back as trusted (`managed_memory.py:140`). *Moved*: the save named no version, no source, or another source than the fact's; nothing is marked, VERIFIED is kept (`managed_memory.py:173-177`) and the attribution is replaced (`188-189`), without any other program (section 8). Also observed: a model that saves an active fact of the user again makes it unverified, and a save that names an unknown record as superseded is stored and then fails.

### 6.6 ToolAdmission

Sessions of one project: `ruleFile`, `temporary` (its temporary file of one fixed name), `known` (each session's list), `desk` (each session's batch with its verdicts and results). `RulesKept`: the file holds the rules the user wants, except those a session never saw when it saves its older list, and those of saves that failed or met another one half way (`permissions.py:167`). `AdmissionAsAnswered`: the exact call that was answered "always" is admitted from then on, whatever older rules say, and every result is that of the call at its place. What else the rule admits is not claimed: it also matches calls with further arguments (section 8).

### 6.7 CodeIndex

`disk` the files, `indexed` the rows, `build` what each process's build has listed and read, `effects` what its tool batch reported, `found` its search between its two queries. `IndexLagExcused`: while no build is due the index is what the files are, but for changes no successful result reported (failed edits, commands, editors, restored snapshots), failed builds, and files that changed during one; a search answers from what was there when it began.

### 6.8 The run

| Run | What it shows | Instance |
|---|---|---|
| `session` | the 13 invariants above, `SessionTypeOK`, and `SessionSettles`: no run, MCP call or diagnosis takes for ever but in a wait without a deadline (663,000 states) | *loop*: 2 prompts, an edit and a read per batch, one path, any report of it, window 3, 2 attempts, 4 iterations, compaction from 5 messages on, hard limit 8; *accounting*: 2 agents, 2 executions, 4 model and 3 tool calls, token limit 1, calls that cost nothing or 2 tokens, 1 refused write; *MCP*: 3 requests, 2 threads, 1 stray line of any kind and id; *language server*: 2 diagnoses, 2 messages each, 1 change of the file; *memory*: 2 processes, 2 facts each absent or verified, 2 sources, 2 versions, 2 operations; *admission*: 2 sessions, a batch of five kinds of calls, 2 batches, 1 edit by hand, 1 failed write; *index*: 2 processes, 1 file, 2 changes, 1 failed build, 1 search |

The bounds let each case happen once and be followed by something it may disturb: a compaction that is reused; a stagnating window after a mixed one; a file found wrong in one batch and edited undiagnosed in the next; an agent that begins a summary and a turn after another has spent the tokens; a span that cannot be ended below a root that can; a late answer and two requests behind it; a diagnosis after one that left messages behind; two overlapping saves of a fact that was verified earlier; a rule saved over another session's. Two operations are enough for the memory because a save may start from a verified fact. One file is enough for the index: what a build does of one file depends on another only through a failure, which is an action of its own. Sessions end, so deadlock is not checked.

Fairness: a run of the loop that has not ended goes on, because provider calls and tools have timeouts (`WF_pc(Goes)`, since every step of the loop moves `pc`), except where it asks the user or waits for a diagnosis that blocks (`asks`): `input()` has no deadline (`policy.py:83`, `351`). Of MCP calls, deadlines pass, a free lock is taken and a thread that can go on does; a write ends only while the server reads, and fails once it has exited. The same of a diagnosis. Nothing is assumed of the user, the servers or the files. `SessionSettles` names the three waits that need not end: `asks`, `WriteBlocked` (the MCP write, with every call behind its lock) and `Stuck` (the write to a language server). What it requires is that nothing else does.

## 7. Findings

1. `runtime.py:217`: a cancel between the last token check and the final critical section is answered with `True`, stored, and then overwritten by success (`durable_tasks_cancel`).
2. `execution.py:477`: a whole-run restart resets the plan in memory only; if an exception strikes before the next checkpoint, `finish` keeps the old plan, clears the current task, and the next resume counts tasks as completed whose effects were removed (`run_early_fault`).
3. `execution.py:457`: the decision table of `docs/recovery.md:91` for rolled-back runs is not implemented (`run_rolled_back`). The next row (`docs/recovery.md:92`, reset the failed branch) is not implemented either: `_prepare_resume` resets running tasks only.
4. `execution.py:430`: snapshots of runs that other processes execute are not protected from pruning (`run_pruned`).
5. `review.py:88`: the evidence rule looks at the files of the last worker outcome only, so a file that an attempt sent back had changed is approved unread, although `docs/phase-09-dashscope-live.md:71` asks for "read evidence for every changed artifact" (`dag_review`).

## 8. Where the documents promise more than the code does

The runs of section 7 show a counterexample each. The following disagreements are of the same kind but each is read off a few lines; the properties are stated as the code has it, and their comments name the exception.

| The documents | The code | Property and its exception |
|---|---|---|
| `docs/recovery.md:93`, "Restore whole BEFORE snapshot" for an interrupted ReAct run; `116-118`, without a snapshot PaiCLI "reports that condition instead of blindly replaying" | `execution.py:458-461`: without a snapshot a ReAct run is resumed and nothing is restored or reported | `NoUncertainEffect`: `RestartsUnrestored` |
| `memory.py:336-337`, calls "and their results stay together"; `docs/paicli-interview-qa.md:1004` (Q067) | `agents/loop.py:344-355` puts a diagnostics message behind a result, where `_split_index` may cut | `SentPairs`: `split` |
| `observability.py:625`, "Record every provider attempt"; `docs/paicli-interview-qa.md:1380`, `1408` | `observability.py:655`, `681`, `844`: a charge that passes a limit raises before the row | `TraceTells`: `rowless`, bounded |
| `mcp.py:90-92`, a silent MCP process must not block the gateway for ever | `mcp.py:138-143`: lock and write have no deadline | `SessionSettles`: `WriteBlocked` |
| `managed_memory.py:381`, "unverified until promoted"; `docs/paicli-interview-qa.md:1048`, `1060` | `managed_memory.py:173-189`, `354`, `383`: VERIFIED is kept under a new source or hash that marked nothing | `TrustIsVouched`: `moved` |
| `policy.py:90-92`, "an exact remembered call"; `permissions.py:132`, "a literal call"; `docs/paicli-interview-qa.md:834` (Q055) | `permissions.py:56-62`: a rule matches calls with further arguments too | `AdmissionAsAnswered` speaks of the exact call only |
| `docs/paicli-interview-qa.md:140`, `388`, `470`: every FILE_WRITE needs a VERIFICATION behind it, PlanValidator rejects the plan otherwise | `planning.py:221-269` has no such rule | `PlansAndSchedules` speaks of dependencies only |

## 9. Proofs

`DurableTasksProofs.tla` proves, for any set of tasks, pool size and number of crashes and faults, from the assumption `Bounds` only:

| Theorem | Property |
|---|---|
| `TypeCorrect` | `TypeOK` |
| `RunsAtMostOnce` | `AtMostOnce` |
| `CancelledInQueue` | `CancelledInQueueNeverRuns` |
| `FileIsMemory` | `FileMatchesMemory` |
| `DiskAdvances` | `DiskOnlyAdvances` |
| `Announced` | `FinalStatusAnnounced` |

None of the invariants is inductive by itself. The strengthening `Inv` is a conjunction of named parts: `LockInv` (one open critical section, matching the step of its task), `FreshInv` (an id not handed out has left no trace), `QueueInv` (a work item is queued once, and no thread works on it meanwhile), `RunInv` (nothing that can still reach the runner has reached it before), `EarlyInv` (a task cancelled in the queue can only be dropped), `DiskInv` and `FileInv` (the memory is never behind the file; outside critical sections they agree), `AnnounceInv` (of a task that ended in this life the listener has been told the status, or an event is due or built with it, or the section that ends it is still open). Each part has a lemma per group of actions; `Working` collects the actions of a pool thread, `DiskChange` says which steps write the file.

`RunRecoveryProofs.tla` proves, for any set of processes, runs and tasks, any plan, policy, retention and number of workers, from the assumption `RecoveryParameters`:

| Theorem | Property | Extra assumption |
|---|---|---|
| `TypeCorrect` | `TypeOK` | none |
| `WorkersOwnTheirRows` | `WorkerOwnsRow` | `Sharing # "any"` |
| `ResumeHasSnapshots` | `RecoverableHasSnapshots` | `Sharing # "any"` |
| `CompletedStay` | `CompletedEffectsPresent` | `OneRun` |
| `NothingUncertain` | `NoUncertainEffect` (with `RestartsUnrestored` excepted) | `OneRun` |

`TypeCorrect` follows from `ShapeInv`: the types, a process at work has a run, and a task that has begun has an attempt number (else a record could name attempt 0). The other two need more, because pruning looks at the rows that are resumable at that moment and a running row is not among them. They hold only because no other run is alive or unnoticed then, which is what `ControlInv` says: at most one process is at work (`OneBusy`), a running row belongs to it or to a dead process (`RunningOwned`), no other row is marked running while it works (`OnlyMine`), and a run whose resume has begun is still resumable (`Transitions`). `PriorInv` adds that the snapshot the observer remembers exists, so that a review verdict does not store a dangling id. The assumption cannot be dropped: `run_pruned` is the counterexample for `Sharing = "any"`.

`OneRun` says what the two effect properties are claimed of: one run in the project, at most one process at work, failures that do not roll back (`Policy = "never"`) and do not strike before a restarted plan is stored (`~EarlyFaults`). The plan, its mode and its mutating tasks, the number of processes, crashes, resumes, workers and snapshots and the retention are free. Each part is needed: with two runs a resume restores a tree from before the other's effects, and `run_early_fault` and the policy of `run_rolled_back` lead TLC to a state that violates `CompletedEffectsPresent`. The inductive invariant (`EffectInvariant`) compares pictures of the workspace with what is remembered of it. `Explained(r, plan, records, there)` says that every mutating task the plan counts as completed has an effect there, and that every effect of `r` there is that of a recorded attempt. It holds of the row's plan and records with the row's snapshot, or with the workspace where a resume would restore nothing (`RowPart`); of the memory of the process at work with the workspace, up to the attempts under way, and with the snapshot the observer holds (`WorkPart`); at the end of a run with what will be stored (`EndPart`); and during a resume with the snapshot it restores, whatever half-restored workspace a crash has left (`ResumePart`). `TaskPart` adds that a mutating task is alone in its wave and announced in the row before it works, which is what tells a later resume to restore.

`CallOrderProofs.tla` proves for `CallOrder`, for any set of files and any number of calls, that reads and final contents follow the call order. The strengthening is `TouchedInv`: once a call has touched a file, the earlier calls it clashes with there are settled; so nobody writes below a call that has read or written. `ToolWavesProofs.tla` proves for the gateway, for any agents, tools, batches, files and group size, from the assumption `ToolParameters`:

| Theorem | Property |
|---|---|
| `TypeCorrect` | `TypeOK` |
| `ConflictsNeverOverlap` | `ConflictingCallsNeverOverlap` |
| `WavesImplementCallOrder` | `ImplementsCallOrder` |
| `CallsInOrder` (from `ReadsInOrder` and `WritesInOrder`) | `InCallOrder` |

The centre is `TurnInv`: a call that was checked and not refused has every earlier call it conflicts with settled. It is established by `Recheck` (lemma `TurnComes`), where the earlier call is one of four: of another agent that is at work, then both only read (`AgentInv`) and readers never conflict; of the same wave, then they do not conflict (`PlaceInv`); of an earlier wave or batch and still running, then it timed out and is isolated or only reads (`ThreadInv`); or it has ended. Refinement then needs that a clash over a file is a conflict of claims (`ClashIsConflict`, which rests on `SharedFileOverlaps`: of two recursive claims that cover a file one contains the other). The last theorem combines the refinement with the theorems about `CallOrder`.

`ToolParameters` assumes of the registered tools only that those marked read-only claim reads of paths.

`DagExecutionProofs.tla` proves for Plan and Team runs, for any set of tasks, any plans, any number of workers and any bounds, from the assumption `PlanParameters`:

| Theorem | Property |
|---|---|
| `TypeCorrect` | `TypeOK` |
| `Dependencies` | `DependenciesHold` |
| `MutatorsAlone` | `MutatorsRunAlone` |
| `SkippedOnlyBehindFailure` | `SkippedBehindFailure` |
| `NeverStuck` | as long as a task waits, something is ready or to be skipped |
| `ReviewGates` | `CompletedByReview` |
| `InheritedResults` | `ResultsMatchTheirTask` |
| `SchedulesHold` | `PlansAndSchedules` |

`LayerInv` is the centre: what a waiting task of the layer, or a task of the wave, depends on is completed, has its result at hand, and is settled, that is, no thread works on it. The last part is needed because a hook that raises turns a completed task of the wave into a failed one. `StartedInv` carries the same over to tasks that were started. `PlaceInv` relates the place of a thread to the status of its task, so that failed and skipped tasks are never marked again and `SkippedBehindFailure` keeps its witness. `JudgedInv` says that an approval about to be acted on has seen the changes. `WaveFacts` proves of `NextWave` that it respects types and limit; `NotStuck` takes a waiting task of least rank.

`PlanParameters` assumes only that proposals are plans, well-formed or not: nothing is assumed of the graph algorithms, whose results are proved of every plan:

- The search of the validator (`ValidatesIsExact`: it accepts the plans with a rank and no self-dependency, and no others). `FoldSound` and `VisitSound` keep, along the recursion, that what is finished is closed under dependencies and ranked, so that a search that succeeds leaves a rank; `VisitComplete` is the converse, that with a rank no search meets its own stack. Neither depends on the order in which the folds of the model take the dependencies.
- `OrderIsStable`, `BatchesAreLayers`: the values of `topological_order` and `execution_batches` for any set of tasks already taken, as what is left to do.
- `WavesOneByOne`: the list of waves the code builds at once begins with `NextWave`, and the rest is the list for the rest. `WavesAgree` says that the function for some of the tasks is part of the one for all of them, `NextIs` what the next wave is.

These functions are recursive in a number, how many tasks are not yet taken (or not on the stack). The library's induction takes an operator as parameter, which the provers cannot instantiate; `DataLemmas` states it over sets instead: `Recursion` says that a body that looks only at arguments of lower rank has a fixed point, so the CHOOSE behind a recursive definition finds one and the function satisfies its equation, and `RankInduction` that a set of arguments which contains all whose lower ones it contains is all of them.

The parts of a session are proved about one by one, each from the assumption of its module, and put together by `SessionRunsItsParts`: a behaviour of `SessionSpec` is one of every part, because the parts share no variable. `SessionTypes` and `SessionSafe` then state the run's invariants of a session of any size. `DataLemmas.tla` holds the facts about numbers, tuples, sequences, sums and recursive functions these proofs rest on.

| Module | Theorem | Property |
|---|---|---|
| `LoopProofs` | `LoopTypes` | `TypeOK` (of the loop) |
| `LoopProofs` | `LoopBatchAnswered` | `BatchAnswered` |
| `LoopProofs` | `LoopSentPairs` | `SentPairs` |
| `LoopProofs` | `LoopStopsAtStreak` | `StopsAtStreak` |
| `LoopProofs` | `LoopCancelIsPrompt` | `CancelIsPrompt` |
| `LoopProofs` | `LoopSuccessOverErrors` | `NoSuccessOverErrors` |
| `LoopProofs` | `OverrunIsBounded` | `OverrunBounded` |
| `LoopProofs` | `AccTraceTells` | `TraceTells` |
| `SessionProofs` | `OwnAnswers` | `McpOwnAnswer` |
| `SessionProofs` | `DiagnosesWhatWasRead` | `DiagnosisOfRead` |
| `SessionProofs` | `OnlyVouchedIsTrusted` | `TrustIsVouched` |
| `SessionProofs` | `AdmRulesKept` | `RulesKept` |
| `SessionProofs` | `AdmAsAnswered` | `AdmissionAsAnswered` |
| `SessionProofs` | `IndexLags` | `IndexLagExcused` |
| `SessionProofs` | `SessionTypes` | `SessionTypeOK` |
| `SessionProofs` | `SessionSafe` | all of the above, of the session |

- Agent loop (`LoopInv`): `OpenInv` says that the calls without a result are exactly those of the batch at work and of torn batches, and no result lacks its call. `MessageInv` gives each call id its place: ids grow along the history, and between a call and its result only results and messages for which the call is marked as parted (`Encloses`). From it alone follows that a cut in front of a message that is no result parts no pair (`CompactedPairs`), for any history and any place of the cut. `StreakInv` says that the bounded window ends with the streak of equal rounds and, if it is longer, the round before was another one. `CancelInv` says where a cancelled run may be and which attempts it may have made until there; that a summary is not asked for twice needs the cut to be in the compactor's cache. `ReportInv`: what `wrong` holds the completion policy still reports, and an answer is accepted only when it reports nothing.
- Accounting: `AccPlaceInv` bounds the calls begun with spent tokens, and `LackInv` the attempts without a row, by the place of the agent; a charge that does not raise finds the tokens unspent (`SpentInv`), so an agent with such a call behind it has lost a summary or is ending. `LedgerInv` compares the ledger with the rows plus sums over all agents of what each has under way or has lost; `TotalIsSum` and the sum lemmas of `DataLemmas` reduce a step of one agent to the change of its summand. `SpanInv`: the span of an agent that is done has ended or is among `unclosed`.
- MCP: a foreign answer is excused if its call left the stream without it. That the call has ended, and not by an answer of its own or by the end of the output, needs `OwnerInv` (one call holds the stream, from its write to its end), `AnswerInv` (a first answer is in the pipe once, of a call that was sent and is not asked of the server any more), `AgainInv` (what is repeated was answered before), `EndInv` (nothing follows the end of the output) and `ServedInv` (no answer is left of a call that was served or told of the end).
- Language server: `QueueInv` says that what is published in the queue of this diagnosis is about the text it read or about a later one; it holds because the queue is new (`LifeInv`: a server lives between its start and its stop) and because the file, while the diagnosis goes on, is what was read unless it has changed (`TextInv`).
- Memory: `Sound` is what a save may rely on between its transactions: as long as no other program changed its row, the row is the one it read, and marking left it trusted in no version but the save's own. `Grounded` says of every trusted row that its backing is the user's word for its present source and version, or one of the two named exceptions. `TransactSound` shows that every transaction of one program keeps the others sound or marks them as overlapped.
- Admission: `Sorted` says of each desk that what is delegated are the admitted calls in order and `positions` says whose they are; `GrantInv` that from a rule that matches a granted call on there are only allowing ones; `ListInv` that a running session's list differs from the file only by rules it missed, that are excused, or that are on their way to the file. `RulesKept` needs it because a save replaces the file by the list.
- Index: `Fresh` says that a build has read what is on disk of every file nobody changed meanwhile, and that the rows it compares with are those of the table; committing then leaves nothing behind but what changed (`LagInv`).

Only model-checked: liveness (`SubmittedSettles`, `BatchReturns`, `RunEnds`, `SessionSettles`), since fairness and ENABLED are out of the prover's reach.

## 10. Not modelled

Components marked *not modelled* in `PROJECT.json` with the reason: the adapters (`extensions.py`, `skills.py`, `browser.py`, `images.py`, `web_tools.py`), which are input and output, and the offline evaluation. Of the parts of section 6: what diagnostics, chunks and messages say, ranking, token estimates, HTTP, SSE and what a user is shown of a stream that is repeated (`llm_client.py:424`), the classification of command lines, schema sanitising, MCP resources (not wired), the older fact store of `memory.py`, query planning of `hybrid_rag.py`. Inside modelled components: JSON encoding, path and symlink validation, size limits, SQLite locking beyond transaction atomicity, process-id reuse (a process id is used once), the HTTP front of the task manager, and side effects outside the workspace (the code does not claim to undo them).
