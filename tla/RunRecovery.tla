---------------------------- MODULE RunRecovery ----------------------------
(***************************************************************************)
(* Durable runs of PaiCLI: src/paicli/execution.py (RunCoordinator and     *)
(* RunCheckpointObserver), the run table of src/paicli/state.py, the tree  *)
(* snapshots of src/paicli/snapshot.py and, as far as they decide when a   *)
(* checkpoint is written, the Plan and Team loops of planning.py and       *)
(* orchestration.py.                                                       *)
(*                                                                         *)
(* Several PaiCLI processes open one project.  Each executes or resumes    *)
(* runs; any of them may die between two steps, and what it kept in memory *)
(* dies with it.  The run table, the snapshot files and the workspace stay.*)
(*                                                                         *)
(* A workspace is the set of the effects present in it.  The effect        *)
(* <<r, t, n>> is what attempt number n of task t of run r changed; a      *)
(* ReAct run has no tasks, its effects carry ReactTask.  A process lives   *)
(* once, so a process id is never used again.                              *)
(***************************************************************************)
EXTENDS Naturals, FiniteSets

CONSTANTS
    Procs,          \* operating-system processes that open the project
    Runs,           \* run ids
    Tasks,          \* task ids of every plan
    Writes,         \* tasks of a type in MUTATING_TYPES
    Deps,           \* Deps[t]: the dependencies of task t
    ReactTask,      \* stands for the whole of a ReAct run
    NoProc, NoRun, NoTask,
    Modes,          \* modes the user asks for
    Policy,         \* RollbackPolicy: "always", "ask" or "never"
    SnapshotModes,  \* a process has snapshots enabled (TRUE) or not (FALSE)
    MaxWorkers,     \* TaskConcurrencyPolicy.max_workers
    KeepLast,       \* snapshot_retention
    Sharing,        \* what the user does: "one_process", "one_run" or "any"
    EarlyFaults,    \* exceptions also before a restarted plan is checkpointed
    MaxTries,       \* bound: attempts of a run that are modelled
    MaxSnaps        \* bound: snapshots that are modelled

Parameters ==
    /\ IsFiniteSet(Tasks) /\ Writes \subseteq Tasks
    /\ Deps \in [Tasks -> SUBSET Tasks]
    /\ NoProc \notin Procs /\ NoRun \notin Runs
    /\ ReactTask \notin Tasks /\ NoTask \notin Tasks
    /\ Modes \subseteq {"react", "plan", "team"}
    /\ Policy \in {"always", "ask", "never"}
    /\ SnapshotModes \subseteq BOOLEAN
    /\ MaxWorkers \in Nat \ {0}
    /\ KeepLast \in Nat
    /\ Sharing \in {"one_process", "one_run", "any"}
    /\ EarlyFaults \in BOOLEAN
    /\ MaxTries \in Nat /\ MaxSnaps \in Nat
ASSUME RecoveryParameters == Parameters

VARIABLES
    row,        \* row[r]: the row of run r in runs.db
    kept,       \* ids of the snapshot files that exist
    saved,      \* saved[i]: the workspace snapshot i holds, {} when it is gone
    lastId,     \* the newest snapshot id: ids follow created_at
    ws,         \* the workspace: the effects present
    tries,      \* tries[r]: attempts of r so far, whoever made them
    pc,         \* where process p is
    snapping,   \* RunCoordinator.snapshots is not None
    job,        \* the run p works on
    plan,       \* p's in-memory plan: the status of each task
    known,      \* attempts whose outcome p's records hold
    wave,       \* tasks of the wave being executed
    step,       \* step[p][t]: where task t of the wave is
    attempt,    \* attempt[p][t]: the number of t's current attempt
    prior,      \* RunCheckpointObserver.current_task_snapshot_id
    target,     \* snapshot p is restoring, or 0
    outcome,    \* the status p is about to store
    raised,     \* the mode runtime raised, so it returned no plan
    replan      \* whether the planner may still replace the plan

durable == <<row, kept, saved, lastId, ws, tries>>
memory == <<pc, snapping, job, plan, known, wave, step, attempt, prior,
            target, outcome, raised, replan>>
vars == <<durable, memory>>

Statuses == {"running", "interrupted", "succeeded", "partial", "stopped",
             "failed", "cancelled"}
Resumable == {"interrupted", "stopped", "failed", "partial"}
TaskStatus == {"pending", "running", "completed", "failed", "skipped"}
Terminal == {"completed", "failed", "skipped"}
SnapIds == 1..MaxSnaps
Attempts == (Tasks \cup {ReactTask}) \X (1..MaxTries)
Effects == {<<r, a[1], a[2]>> : r \in Runs, a \in Attempts}

AllPending == [t \in Tasks |-> "pending"]
NoSteps == [t \in Tasks |-> "todo"]
NoRow == [mode |-> "react", status |-> "none", owner |-> NoProc,
          planned |-> FALSE, plan |-> AllPending, known |-> {},
          cur |-> NoTask, snap |-> 0, before |-> 0, after |-> 0,
          rolledBack |-> FALSE]

Init ==
    /\ row = [r \in Runs |-> NoRow]
    /\ kept = {} /\ saved = [i \in SnapIds |-> {}] /\ lastId = 0
    /\ ws = {}
    /\ tries = [r \in Runs |-> 0]
    /\ pc = [p \in Procs |-> "off"]
    /\ snapping = [p \in Procs |-> FALSE]
    /\ job = [p \in Procs |-> NoRun]
    /\ plan = [p \in Procs |-> AllPending]
    /\ known = [p \in Procs |-> {}]
    /\ wave = [p \in Procs |-> {}]
    /\ step = [p \in Procs |-> NoSteps]
    /\ attempt = [p \in Procs |-> [t \in Tasks |-> 0]]
    /\ prior = [p \in Procs |-> 0]
    /\ target = [p \in Procs |-> 0]
    /\ outcome = [p \in Procs |-> "none"]
    /\ raised = [p \in Procs |-> FALSE]
    /\ replan = [p \in Procs |-> "unused"]

----------------------------------------------------------------------------
(* Processes and what they share                                           *)

Alive(p) == pc[p] \notin {"off", "dead"}
Busy(p) == pc[p] \notin {"off", "idle", "dead"}
MyRow(p) == row[job[p]]
Mode(p) == MyRow(p).mode
Present(p, t) == <<job[p], t, attempt[p][t]>> \in ws

\* A mistake in Stale: the owner is not looked at.
StaleWhateverOwner(r) == row[r].status = "running"

\* A running row whose owner is gone: _pid_is_alive is false for it.
Stale(r) == /\ row[r].status = "running"
            /\ \A q \in Procs : q = row[r].owner => ~Alive(q)

\* What the user does with several terminals: one at a time; one run at a time,
\* and none while a crash is unnoticed; or anything, which the code permits.
MayOpen(p) == Sharing = "one_process" => \A q \in Procs \ {p} : ~Alive(q)
MayStart(p) == \/ Sharing = "any"
               \/ /\ \A q \in Procs \ {p} : ~Busy(q)
                  /\ \A r \in Runs : ~Stale(r)

\* The end of a run or of a process: what it had in memory is gone.
Forget(p, there) ==
    /\ pc' = [pc EXCEPT ![p] = there]
    /\ job' = [job EXCEPT ![p] = NoRun]
    /\ plan' = [plan EXCEPT ![p] = AllPending]
    /\ known' = [known EXCEPT ![p] = {}]
    /\ wave' = [wave EXCEPT ![p] = {}]
    /\ step' = [step EXCEPT ![p] = NoSteps]
    /\ attempt' = [attempt EXCEPT ![p] = [t \in Tasks |-> 0]]
    /\ prior' = [prior EXCEPT ![p] = 0]
    /\ target' = [target EXCEPT ![p] = 0]
    /\ outcome' = [outcome EXCEPT ![p] = "none"]
    /\ raised' = [raised EXCEPT ![p] = FALSE]
    /\ replan' = [replan EXCEPT ![p] = "unused"]

\* capture_tree: a new file holding the workspace as it is now.
NewId(p) == IF snapping[p] THEN lastId + 1 ELSE 0
Capture(p) ==
    IF snapping[p]
    THEN /\ lastId < MaxSnaps
         /\ lastId' = lastId + 1
         /\ kept' = kept \cup {lastId + 1}
         /\ saved' = [saved EXCEPT ![lastId + 1] = ws]
    ELSE UNCHANGED <<lastId, kept, saved>>

\* RunStateStore.checkpoint: one transaction over plan, records, current task.
Checkpoint(p, thePlan, records, cur, snap) ==
    row' = [row EXCEPT ![job[p]] =
               [@ EXCEPT !.planned = TRUE, !.plan = thePlan, !.known = records,
                         !.cur = cur, !.snap = snap]]

\* A process opens the project.  The constructor interrupts the running rows
\* whose owner is dead.
Open(p, snaps) ==
    /\ pc[p] = "off" /\ MayOpen(p)
    /\ pc' = [pc EXCEPT ![p] = "idle"]
    /\ snapping' = [snapping EXCEPT ![p] = snaps]
    /\ row' = [r \in Runs |->
                  IF Stale(r)
                  THEN [row[r] EXCEPT !.status = "interrupted", !.owner = NoProc]
                  ELSE row[r]]
    /\ UNCHANGED <<kept, saved, lastId, ws, tries, job, plan, known, wave, step,
                   attempt, prior, target, outcome, raised, replan>>

\* The process ends, at any point: exit, kill, Ctrl-C, power.
Crash(p) ==
    /\ Alive(p)
    /\ Forget(p, "dead")
    /\ snapping' = [snapping EXCEPT ![p] = FALSE]
    /\ UNCHANGED durable

----------------------------------------------------------------------------
(* RunCoordinator.execute and the planner                                  *)

Execute(p, r, m) ==
    /\ pc[p] = "idle" /\ MayStart(p) /\ row[r].status = "none"
    /\ Capture(p)
    /\ row' = [row EXCEPT ![r] = [NoRow EXCEPT !.mode = m, !.status = "running",
                                               !.owner = p, !.before = NewId(p)]]
    /\ pc' = [pc EXCEPT ![p] = IF m = "react" THEN "react" ELSE "planning"]
    /\ job' = [job EXCEPT ![p] = r]
    /\ UNCHANGED <<ws, tries, snapping, plan, known, wave, step, attempt, prior,
                   target, outcome, raised, replan>>

\* create_plan, the user's approval, and plan_ready; also TeamModeRuntime.resume,
\* which writes plan_ready again.
PlanReady(p) ==
    /\ pc[p] = "planning"
    /\ Checkpoint(p, plan[p], known[p], NoTask, 0)
    /\ pc' = [pc EXCEPT ![p] = "choose"]
    /\ UNCHANGED <<kept, saved, lastId, ws, tries, snapping, job, plan, known,
                   wave, step, attempt, prior, target, outcome, raised, replan>>

\* The mode runtime returns or raises: its loop variables are gone.
Ending(p, status) ==
    /\ pc' = [pc EXCEPT ![p] = "ending"]
    /\ outcome' = [outcome EXCEPT ![p] = status]
    /\ wave' = [wave EXCEPT ![p] = {}]
    /\ step' = [step EXCEPT ![p] = NoSteps]
    /\ attempt' = [attempt EXCEPT ![p] = [t \in Tasks |-> 0]]
    /\ prior' = [prior EXCEPT ![p] = 0]
    /\ replan' = [replan EXCEPT ![p] = "unused"]

\* The user rejects the plan, or revises it too often.
PlanCancelled(p) ==
    /\ pc[p] = "planning" /\ Mode(p) = "plan" /\ ~MyRow(p).planned
    /\ Ending(p, "cancelled")
    /\ UNCHANGED <<durable, snapping, job, plan, known, target, raised>>

\* Where an exception of the surroundings (disk, database, aggregator) may
\* strike: anywhere, or only while the stored plan claims no more completed
\* tasks than the plan in memory.
MayRaise(p) ==
    EarlyFaults \/ \A t \in Tasks :
                       MyRow(p).plan[t] = "completed" => plan[p][t] = "completed"

\* An exception leaves the mode runtime outside a task: from the planner,
\* the validator, the aggregator.
RunRaises(p) ==
    /\ pc[p] \in {"planning", "choose"} /\ MayRaise(p)
    /\ Ending(p, "failed")
    /\ raised' = [raised EXCEPT ![p] = TRUE]
    /\ plan' = [plan EXCEPT ![p] = AllPending]
    /\ UNCHANGED <<durable, snapping, job, known, target>>

----------------------------------------------------------------------------
(* The ReAct mode: one agent loop, no checkpoint between its effects       *)

ReactEffect(p) ==
    /\ pc[p] = "react" /\ tries[job[p]] < MaxTries
    /\ tries' = [tries EXCEPT ![job[p]] = @ + 1]
    /\ ws' = ws \cup {<<job[p], ReactTask, tries[job[p]] + 1>>}
    /\ UNCHANGED <<row, kept, saved, lastId, memory>>

ReactEnds(p, status) ==
    /\ pc[p] = "react"
    /\ Ending(p, status)
    /\ UNCHANGED <<durable, snapping, job, plan, known, target, raised>>

----------------------------------------------------------------------------
(* The DAG: ready tasks in waves, only reads share a wave                  *)

Ready(p) == {t \in Tasks : /\ plan[p][t] = "pending"
                           /\ \A d \in Deps[t] : plan[p][d] = "completed"}
Blocked(p) == {t \in Tasks : /\ plan[p][t] = "pending"
                             /\ \E d \in Deps[t] : plan[p][d] \in {"failed", "skipped"}}
Waves(p) == {w \in SUBSET Ready(p) :
                /\ w # {}
                /\ Cardinality(w) <= IF w \cap Writes = {} THEN MaxWorkers ELSE 1}

PickWave(p, w) ==
    /\ pc[p] = "choose" /\ w \in Waves(p)
    /\ pc' = [pc EXCEPT ![p] = "wave"]
    /\ wave' = [wave EXCEPT ![p] = w]
    /\ replan' = [replan EXCEPT ![p] = IF @ = "offered" THEN "unused" ELSE @]
    /\ UNCHANGED <<durable, snapping, job, plan, known, step, attempt, prior, target,
                   outcome, raised>>

\* DagScheduler.mark_blocked, one round of its loop.
SkipBlocked(p) ==
    /\ pc[p] = "choose" /\ Blocked(p) # {}
    /\ plan' = [plan EXCEPT ![p] = [t \in Tasks |->
                    IF t \in Blocked(p) THEN "skipped" ELSE plan[p][t]]]
    /\ UNCHANGED <<durable, pc, snapping, job, known, wave, step, attempt, prior,
                   target, outcome, raised, replan>>

\* PlanExecuteAgent.execute replaces the plan once; inherit_completed_from keeps
\* the completed tasks.  Nothing is checkpointed.
Replan(p) ==
    /\ pc[p] = "choose" /\ replan[p] = "offered"
    /\ replan' = [replan EXCEPT ![p] = "used"]
    /\ plan' = [plan EXCEPT ![p] = [t \in Tasks |->
                    IF plan[p][t] = "completed" THEN "completed" ELSE "pending"]]
    /\ UNCHANGED <<durable, pc, snapping, job, known, wave, step, attempt, prior,
                   target, outcome, raised>>

\* A mistake in StatusOf: the plan's word for success instead of the run's.
StatusUnmapped(thePlan) ==
    IF \A t \in Tasks : thePlan[t] = "completed" THEN "completed" ELSE "failed"

\* _status_for_plan
StatusOf(thePlan) ==
    LET done == {t \in Tasks : thePlan[t] = "completed"}
        bad == {t \in Tasks : thePlan[t] \in {"failed", "skipped"}}
    IN IF done = Tasks THEN "succeeded"
       ELSE IF done # {} /\ bad # {} THEN "partial" ELSE "failed"

PlanFinished(p) ==
    /\ pc[p] = "choose" /\ \A t \in Tasks : plan[p][t] \in Terminal
    /\ Ending(p, StatusOf(plan[p]))
    /\ UNCHANGED <<durable, snapping, job, plan, known, target, raised>>

----------------------------------------------------------------------------
(* One task of the wave                                                    *)

Working(p, t) == pc[p] = "wave" /\ t \in wave[p] /\ step[p][t] = "working"
\* The Plan loop announces the whole wave before it runs any of it.
WaveStarted(p) == Mode(p) = "plan" => \A t \in wave[p] : step[p][t] # "todo"

\* before_task, then mark_running; a Team retry comes here again.
BeforeTask(p, t) ==
    /\ pc[p] = "wave" /\ t \in wave[p] /\ step[p][t] \in {"todo", "retry"}
    /\ tries[job[p]] < MaxTries
    /\ IF t \in Writes THEN Capture(p) ELSE UNCHANGED <<lastId, kept, saved>>
    /\ LET snap == IF t \in Writes THEN NewId(p) ELSE 0
       IN /\ prior' = [prior EXCEPT ![p] = snap]
          /\ Checkpoint(p, plan[p], known[p], t, snap)
    /\ plan' = [plan EXCEPT ![p][t] = "running"]
    /\ step' = [step EXCEPT ![p][t] = "working"]
    /\ tries' = [tries EXCEPT ![job[p]] = @ + 1]
    /\ attempt' = [attempt EXCEPT ![p][t] = tries[job[p]] + 1]
    /\ UNCHANGED <<ws, pc, snapping, job, known, wave, target, outcome, raised,
                   replan>>

\* A tool of the worker changes the workspace.
WriteEffect(p, t) ==
    /\ Working(p, t) /\ WaveStarted(p) /\ t \in Writes /\ ~Present(p, t)
    /\ ws' = ws \cup {<<job[p], t, attempt[p][t]>>}
    /\ UNCHANGED <<row, kept, saved, lastId, tries, memory>>

\* The records after the worker of t has returned.
Recorded(p, t) == known[p] \cup {<<t, attempt[p][t]>>}

LeaveWave(p, t) ==
    /\ wave' = [wave EXCEPT ![p] = @ \ {t}]
    /\ step' = [step EXCEPT ![p][t] = "todo"]
    /\ attempt' = [attempt EXCEPT ![p][t] = 0]
    /\ pc' = [pc EXCEPT ![p] = IF wave[p] = {t} THEN "choose" ELSE "wave"]

Succeeded(p, t) ==
    /\ pc[p] = "wave" /\ t \in wave[p]
    /\ IF Mode(p) = "team" THEN step[p][t] = "approved"
       ELSE step[p][t] = "working" /\ WaveStarted(p) /\ (t \in Writes => Present(p, t))

Failed(p, t) ==
    \/ Working(p, t) /\ WaveStarted(p)
    \/ pc[p] = "wave" /\ t \in wave[p] /\ step[p][t] \in {"rejected", "retry"}

\* The task ends: its status, its record, after_task.
EndTask(p, t, status) ==
    /\ plan' = [plan EXCEPT ![p][t] = status]
    /\ known' = [known EXCEPT ![p] = Recorded(p, t)]
    /\ Checkpoint(p, [plan[p] EXCEPT ![t] = status], Recorded(p, t), NoTask, 0)
    /\ prior' = [prior EXCEPT ![p] = 0]
    /\ LeaveWave(p, t)
    /\ UNCHANGED <<kept, saved, lastId, ws, tries, snapping, job, target, outcome,
                   raised>>

CompleteTask(p, t) ==
    /\ Succeeded(p, t)
    /\ EndTask(p, t, "completed")
    /\ UNCHANGED replan

FailTask(p, t) ==
    /\ Failed(p, t)
    /\ EndTask(p, t, "failed")
    /\ replan' = [replan EXCEPT ![p] =
                     IF Mode(p) = "plan" /\ @ = "unused" THEN "offered" ELSE @]

\* Team: the reviewer's verdict, stored by review_finished.
Review(p, t, verdict) ==
    /\ Working(p, t) /\ Mode(p) = "team" /\ (t \in Writes => Present(p, t))
    /\ step' = [step EXCEPT ![p][t] = verdict]
    /\ known' = [known EXCEPT ![p] = Recorded(p, t)]
    /\ Checkpoint(p, plan[p], Recorded(p, t), t, prior[p])
    /\ UNCHANGED <<kept, saved, lastId, ws, tries, pc, snapping, job, plan, wave,
                   attempt, prior, target, outcome, raised, replan>>

\* before_task or after_task raises in the Plan loop: the hooks are outside its
\* try, so the exception ends the run.
PlanHookRaises(p, t) ==
    /\ pc[p] = "wave" /\ t \in wave[p] /\ Mode(p) = "plan"
    /\ MayRaise(p)
    /\ \/ step[p][t] = "todo" /\ UNCHANGED known
       \/ Working(p, t) /\ WaveStarted(p)
          /\ known' = [known EXCEPT ![p] = Recorded(p, t)]
    /\ Ending(p, "failed")
    /\ raised' = [raised EXCEPT ![p] = TRUE]
    /\ plan' = [plan EXCEPT ![p] = AllPending]
    /\ UNCHANGED <<durable, snapping, job, target>>

\* A hook raises in the Team loop: the task is marked failed, without a checkpoint.
TeamHookRaises(p, t) ==
    /\ pc[p] = "wave" /\ t \in wave[p] /\ Mode(p) = "team"
    /\ IF step[p][t] = "working"
       THEN known' = [known EXCEPT ![p] = Recorded(p, t)] ELSE UNCHANGED known
    /\ plan' = [plan EXCEPT ![p][t] = "failed"]
    /\ LeaveWave(p, t)
    /\ UNCHANGED <<durable, snapping, job, prior, target, outcome, raised, replan>>

----------------------------------------------------------------------------
(* The end of a run: rollback, AFTER snapshot, finish, prune               *)

MayRollBack(p) ==
    /\ outcome[p] \in {"failed", "partial"}
    /\ snapping[p] /\ MyRow(p).before # 0 /\ Policy # "never"

RollBack(p) ==
    /\ pc[p] = "ending" /\ MayRollBack(p)
    /\ MyRow(p).before \in kept
    /\ pc' = [pc EXCEPT ![p] = "finishing"]
    /\ target' = [target EXCEPT ![p] = MyRow(p).before]
    /\ UNCHANGED <<durable, snapping, job, plan, known, wave, step, attempt,
                   prior, outcome, raised, replan>>

KeepWorkspace(p) ==
    /\ pc[p] = "ending" /\ (MayRollBack(p) => Policy = "ask")
    /\ pc' = [pc EXCEPT ![p] = "finishing"]
    /\ UNCHANGED <<durable, snapping, job, plan, known, wave, step, attempt,
                   prior, target, outcome, raised, replan>>

\* restore_tree goes file by file: first it removes, then it writes.
Restored(p) == target[p] # 0 => ws = saved[target[p]]
RestoreFile(p, e) ==
    /\ pc[p] \in {"finishing", "resuming"} /\ target[p] # 0
    /\ \/ e \in ws \ saved[target[p]] /\ ws' = ws \ {e}
       \/ ws \subseteq saved[target[p]] /\ e \in saved[target[p]] \ ws
          /\ ws' = ws \cup {e}
    /\ UNCHANGED <<row, kept, saved, lastId, tries, memory>>

Finish(p) ==
    /\ pc[p] = "finishing" /\ Restored(p)
    /\ Capture(p)
    /\ row' = [row EXCEPT ![job[p]] =
                  [@ EXCEPT !.status = outcome[p], !.owner = NoProc,
                            !.planned = MyRow(p).planned
                                          \/ (Mode(p) # "react" /\ ~raised[p]),
                            !.plan = IF raised[p] THEN MyRow(p).plan ELSE plan[p],
                            !.known = known[p], !.cur = NoTask, !.snap = 0,
                            !.after = NewId(p), !.rolledBack = target[p] # 0]]
    /\ pc' = [pc EXCEPT ![p] = "pruning"]
    /\ UNCHANGED <<ws, tries, snapping, job, plan, known, wave, step, attempt,
                   prior, target, outcome, raised, replan>>

RowSnaps(r) == {row[r].before, row[r].after, row[r].snap}
ResumableSnaps == UNION {RowSnaps(r) : r \in {q \in Runs : row[q].status \in Resumable}}
Newest == {i \in kept : Cardinality({j \in kept : j >= i}) <= KeepLast}
\* A mistake in Protected: only the finished run's own snapshots.
ProtectedOwn(p) == {MyRow(p).before, MyRow(p).after} \cup Newest
\* resumable_snapshot_ids, the run's own two, and the newest.
Protected(p) == ResumableSnaps \cup {MyRow(p).before, MyRow(p).after} \cup Newest

Prune(p) ==
    /\ pc[p] = "pruning"
    /\ LET stay == IF snapping[p] THEN kept \cap Protected(p) ELSE kept
       IN /\ kept' = stay
          /\ saved' = [i \in SnapIds |-> IF i \in stay THEN saved[i] ELSE {}]
    /\ Forget(p, "idle")
    /\ UNCHANGED <<row, lastId, ws, tries, snapping>>

----------------------------------------------------------------------------
(* RunCoordinator.resume                                                   *)

\* load, then _prepare_resume: which snapshot to restore, what the plan becomes.
Load(p, r, snap, thePlan, records) ==
    /\ pc[p] = "idle" /\ MayStart(p) /\ row[r].status \in Resumable
    /\ snap # 0 => snap \in kept
    /\ pc' = [pc EXCEPT ![p] = "resuming"]
    /\ job' = [job EXCEPT ![p] = r]
    /\ target' = [target EXCEPT ![p] = snap]
    /\ plan' = [plan EXCEPT ![p] = thePlan]
    /\ known' = [known EXCEPT ![p] = records]
    /\ UNCHANGED <<durable, snapping, wave, step, attempt, prior, outcome,
                   raised, replan>>

RunningReset(r) == [t \in Tasks |-> IF row[r].plan[t] = "running" THEN "pending"
                                    ELSE row[r].plan[t]]

ResumeReact(p, r) ==
    /\ row[r].mode = "react"
    /\ Load(p, r, IF snapping[p] THEN row[r].before ELSE 0, AllPending, {})

\* Mistakes in ResumeTask: the workspace is left as the crash left it; the whole
\* run is undone although the completed tasks are kept.
ResumeTaskInPlace(p, r) ==
    /\ row[r].planned /\ snapping[p] /\ row[r].snap # 0
    /\ Load(p, r, 0, RunningReset(r), row[r].known)
ResumeTaskFromBefore(p, r) ==
    /\ row[r].planned /\ snapping[p] /\ row[r].snap # 0
    /\ Load(p, r, row[r].before, RunningReset(r), row[r].known)

ResumeTask(p, r) ==
    /\ row[r].planned /\ snapping[p] /\ row[r].snap # 0
    /\ Load(p, r, row[r].snap, RunningReset(r), row[r].known)

\* An interrupted task without a snapshot of its own: the whole run starts again.
ResumeWhole(p, r) ==
    /\ row[r].planned /\ row[r].cur # NoTask /\ ~(snapping[p] /\ row[r].snap # 0)
    /\ snapping[p] /\ row[r].before # 0
    /\ Load(p, r, row[r].before, AllPending, {})

ResumeBetweenTasks(p, r) ==
    /\ row[r].planned /\ row[r].cur = NoTask /\ row[r].snap = 0
    /\ Load(p, r, 0, RunningReset(r), row[r].known)

\* mark_running looks at nothing but the run id.
MarkRunning(p) ==
    /\ pc[p] = "resuming" /\ Restored(p)
    /\ row' = [row EXCEPT ![job[p]] = [@ EXCEPT !.status = "running", !.owner = p]]
    /\ pc' = [pc EXCEPT ![p] = IF Mode(p) = "react" THEN "react"
                               ELSE IF Mode(p) = "team" THEN "planning"
                               ELSE "choose"]
    /\ target' = [target EXCEPT ![p] = 0]
    /\ UNCHANGED <<kept, saved, lastId, ws, tries, snapping, job, plan, known,
                   wave, step, attempt, prior, outcome, raised, replan>>

----------------------------------------------------------------------------
TaskStep(p, t) ==
    \/ BeforeTask(p, t) \/ WriteEffect(p, t)
    \/ CompleteTask(p, t) \/ FailTask(p, t)
    \/ \E v \in {"approved", "retry", "rejected"} : Review(p, t, v)
    \/ PlanHookRaises(p, t) \/ TeamHookRaises(p, t)

Next == \E p \in Procs :
    \/ \E s \in SnapshotModes : Open(p, s)
    \/ Crash(p)
    \/ \E r \in Runs, m \in Modes : Execute(p, r, m)
    \/ PlanReady(p) \/ PlanCancelled(p) \/ RunRaises(p)
    \/ ReactEffect(p)
    \/ \E s \in {"succeeded", "stopped", "failed", "cancelled"} : ReactEnds(p, s)
    \/ \E w \in SUBSET Tasks : PickWave(p, w)
    \/ SkipBlocked(p) \/ Replan(p) \/ PlanFinished(p)
    \/ \E t \in Tasks : TaskStep(p, t)
    \/ RollBack(p) \/ KeepWorkspace(p)
    \/ \E e \in Effects : RestoreFile(p, e)
    \/ Finish(p) \/ Prune(p)
    \/ \E r \in Runs : \/ ResumeReact(p, r) \/ ResumeTask(p, r)
                       \/ ResumeWhole(p, r) \/ ResumeBetweenTasks(p, r)
    \/ MarkRunning(p)

Spec == Init /\ [][Next]_vars

----------------------------------------------------------------------------
(* Properties                                                              *)

StepKinds == {"todo", "working", "approved", "retry", "rejected"}
InRun(p) ==
    pc[p] \in {"planning", "choose", "wave", "react", "ending", "finishing"}
Pcs == {"off", "dead", "idle", "planning", "choose", "wave", "react", "ending",
        "finishing", "pruning", "resuming"}
Row == [mode : {"react", "plan", "team"}, status : Statuses \cup {"none"},
        owner : Procs \cup {NoProc}, planned : BOOLEAN,
        plan : [Tasks -> TaskStatus], known : SUBSET Attempts,
        cur : Tasks \cup {NoTask}, snap : SnapIds \cup {0},
        before : SnapIds \cup {0}, after : SnapIds \cup {0},
        rolledBack : BOOLEAN]

\* The type of every variable: the columns of the run table, the snapshot
\* files, and what RunCoordinator and its observer keep in memory.
TypeOK ==
    /\ row \in [Runs -> Row]
    /\ kept \subseteq SnapIds /\ saved \in [SnapIds -> SUBSET Effects]
    /\ lastId \in 0..MaxSnaps
    /\ ws \subseteq Effects /\ tries \in [Runs -> 0..MaxTries]
    /\ pc \in [Procs -> Pcs] /\ snapping \in [Procs -> BOOLEAN]
    /\ job \in [Procs -> Runs \cup {NoRun}]
    /\ plan \in [Procs -> [Tasks -> TaskStatus]]
    /\ known \in [Procs -> SUBSET Attempts]
    /\ wave \in [Procs -> SUBSET Tasks]
    /\ step \in [Procs -> [Tasks -> StepKinds]]
    /\ attempt \in [Procs -> [Tasks -> 0..MaxTries]]
    /\ prior \in [Procs -> SnapIds \cup {0}]
    /\ target \in [Procs -> SnapIds \cup {0}]
    /\ outcome \in [Procs -> Statuses \cup {"none"}]
    /\ raised \in [Procs -> BOOLEAN]
    /\ replan \in [Procs -> {"unused", "offered", "used"}]

OwnEffects(r) == {<<e[2], e[3]>> : e \in {f \in ws : f[1] = r}}
Starts(p, t) == step[p][t] # "working" /\ step'[p][t] = "working"
StartsReact(p) == pc[p] = "resuming" /\ pc'[p] = "react"
\* A ReAct prompt starts again and nothing was restored: the resuming process
\* has no snapshots, or the run has no BEFORE snapshot (_prepare_resume returns
\* without a word).
RestartsUnrestored(p) ==
    StartsReact(p) /\ ~(snapping[p] /\ MyRow(p).before # 0)

\* Except where RestartsUnrestored, an attempt never starts on top of an
\* uncertain side effect: every effect of the run that is in the workspace when
\* a task attempt starts, or when a ReAct prompt starts again, belongs to an
\* attempt whose outcome the records hold.  For plans and teams that is
\* before_task and _prepare_resume, "rather than duplicate an uncertain
\* operation", with and without snapshots and through any series of crashes,
\* also inside a restore.  The exception is a case the documents promise too
\* and the code does not keep: docs/recovery.md:93 has "Restore whole BEFORE
\* snapshot" for every interrupted ReAct run and 116-118 "PaiCLI reports that
\* condition instead of blindly replaying", but _prepare_resume lets a ReAct run
\* without a usable snapshot through to run again on whatever is left.
NoUncertainEffect ==
    [][\A p \in Procs :
         /\ \A t \in Tasks :
              Starts(p, t) => OwnEffects(job[p]) \subseteq known[p]
         /\ StartsReact(p) =>
              RestartsUnrestored(p) \/ OwnEffects(job[p]) \subseteq known[p]]_vars

\* docs/recovery.md:90, "Restore whole BEFORE snapshot | Reset all tasks and
\* restart full DAG", and 89, "retain verified completed tasks".
\* A task that the process in charge counts as completed has its effect in the
\* workspace: no restore takes away what the plan builds on.  Dependent tasks
\* and the status SUCCEEDED rely on it.
CompletedEffectsPresent ==
    \A p \in Procs : pc[p] \in {"choose", "wave"} =>
        \A t \in Writes : plan[p][t] = "completed" =>
            \E n \in 1..MaxTries : <<job[p], t, n>> \in ws

\* Whoever works on a run owns its row, and no one else does: opening the
\* project while a run is alive neither interrupts it nor lets it be resumed
\* (mark_stale_running_interrupted, StoredRun.resumable).
WorkerOwnsRow ==
    \A p \in Procs : InRun(p) => MyRow(p).status = "running" /\ MyRow(p).owner = p

\* A run that may have to be resumed keeps what the resume restores: BEFORE and
\* the snapshot of the interrupted task (prune, resumable_snapshot_ids).
RecoverableHasSnapshots ==
    \A r \in Runs : row[r].status \in Resumable \cup {"running"} =>
        {row[r].before, row[r].snap} \ {0} \subseteq kept

\* docs/recovery.md:91, "Failed/partial run already rolled back | Restore whole
\* BEFORE snapshot | Reset all tasks and restart full DAG".
RolledBackRunRestarts ==
    [][\A p \in Procs :
         pc[p] = "idle" /\ pc'[p] = "resuming" /\ row[job'[p]].rolledBack
         => plan'[p] = AllPending]_vars

\* README.md:324-325, "snapshots needed by resumable runs are retained".
ResumableSnapshotsRetained ==
    \A r \in Runs : row[r].status \in Resumable =>
        {row[r].before, row[r].snap} \ {0} \subseteq kept
=============================================================================
