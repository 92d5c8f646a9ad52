-------------------------- MODULE RunRecoveryProofs --------------------------
(***************************************************************************)
(* What RunRecovery keeps for every set of processes, runs and tasks, every*)
(* plan, policy and retention.                                             *)
(***************************************************************************)
EXTENDS RunRecovery, FiniteSetTheorems, TLAPS

\* The three groups of variables: the run table, what else is on the disk, and
\* what processes remember.  A process at work has a run; a task that has begun
\* has an attempt number.
RowInv == row \in [Runs -> Row]
StoreInv ==
  /\ kept \subseteq SnapIds /\ saved \in [SnapIds -> SUBSET Effects]
  /\ lastId \in 0..MaxSnaps
  /\ ws \subseteq Effects /\ tries \in [Runs -> 0..MaxTries]
MemoryInv ==
  /\ pc \in [Procs -> Pcs] /\ snapping \in [Procs -> BOOLEAN]
  /\ job \in [Procs -> Runs \cup {NoRun}]
  /\ plan \in [Procs -> [Tasks -> TaskStatus]]
  /\ known \in [Procs -> SUBSET Attempts]
  /\ wave \in [Procs -> SUBSET Tasks]
  /\ step \in [Procs -> [Tasks -> StepKinds]]
  /\ attempt \in [Procs -> [Tasks -> 0..MaxTries]]
  /\ prior \in [Procs -> SnapIds \cup {0}]
  /\ target \in [Procs -> SnapIds \cup {0}]
  /\ outcome \in [Procs -> Statuses \cup {"none"}]
  /\ raised \in [Procs -> BOOLEAN]
  /\ replan \in [Procs -> {"unused", "offered", "used"}]
BegunInv ==
  /\ \A p \in Procs : Busy(p) => job[p] \in Runs
  /\ \A p \in Procs, t \in Tasks :
       step[p][t] # "todo" => attempt[p][t] \in 1..MaxTries

ShapeInv == RowInv /\ StoreInv /\ MemoryInv /\ BegunInv

\* At most one process is at work.
OneBusy == \A p, q \in Procs : Busy(p) /\ Busy(q) => p = q

\* A running row belongs to the process that works on it, or to a dead one.
RunningOwned ==
  \A r \in Runs, q \in Procs :
    row[r].status = "running" /\ row[r].owner = q /\ Alive(q)
      => InRun(q) /\ job[q] = r

\* While a process is at work no other run is marked as running.
OnlyMine ==
  \A p \in Procs, r \in Runs :
    Busy(p) /\ row[r].status = "running" => InRun(p) /\ r = job[p]

\* A run whose resume has begun is still resumable, and what a run ends with is
\* a status of a finished run.
Transitions ==
  \A p \in Procs :
    /\ pc[p] = "resuming" => MyRow(p).status \in Resumable
    /\ outcome[p] # "running"

ControlInv ==
  OneBusy /\ WorkerOwnsRow /\ RunningOwned /\ OnlyMine /\ Transitions

\* The snapshot the observer will store with a review verdict exists.
PriorInv ==
  \A p \in Procs : prior[p] # 0 => Busy(p) /\ prior[p] \in kept

SnapshotInv == PriorInv /\ RecoverableHasSnapshots

Inv == ShapeInv /\ ControlInv /\ SnapshotInv

-----------------------------------------------------------------------------
\* A checkpoint stores a well-formed row.
LEMMA CheckpointType ==
  ASSUME RowInv, NEW p \in Procs, job[p] \in Runs,
         NEW thePlan \in [Tasks -> TaskStatus],
            NEW records \in SUBSET Attempts,
         NEW cur \in Tasks \cup {NoTask}, NEW snap \in SnapIds \cup {0},
         Checkpoint(p, thePlan, records, cur, snap)
  PROVE  RowInv'
<1>. DEFINE new == [row[job[p]] EXCEPT !.planned = TRUE, !.plan = thePlan,
                      !.known = records, !.cur = cur, !.snap = snap]
<1>1. row[job[p]] \in Row
  BY DEF RowInv
<1>2. new \in Row
  BY <1>1, Zenon DEF Row
<1>3. row' = [row EXCEPT ![job[p]] = new]
  BY DEF Checkpoint
<1>. QED
  BY <1>2, <1>3 DEF RowInv

\* A capture makes one new snapshot, or none and the id 0.
LEMMA CaptureType ==
  ASSUME ShapeInv, NEW p \in Procs, Capture(p)
  PROVE  /\ NewId(p) \in SnapIds \cup {0}
         /\ kept' \subseteq SnapIds /\ kept \subseteq kept'
         /\ NewId(p) # 0 => NewId(p) \in kept'
         /\ saved' \in [SnapIds -> SUBSET Effects]
         /\ lastId' \in 0..MaxSnaps
<1>. USE RecoveryParameters DEF Parameters, ShapeInv, StoreInv, MemoryInv
<1>1. CASE snapping[p]
  <2>1. lastId + 1 \in SnapIds /\ lastId + 1 \in 0..MaxSnaps
    BY <1>1 DEF Capture, SnapIds
  <2>2. /\ lastId' = lastId + 1 /\ kept' = kept \cup {lastId + 1}
        /\ saved' = [saved EXCEPT ![lastId + 1] = ws] /\ NewId(p) = lastId + 1
    BY <1>1 DEF Capture, NewId
  <2>. HIDE DEF SnapIds
  <2>. QED
    BY <2>1, <2>2
<1>2. CASE ~snapping[p]
  BY <1>2 DEF Capture, NewId
<1>. QED
  BY <1>1, <1>2

\* The first row of a run, and the row of a marked one.
LEMMA FreshRowType ==
  ASSUME NEW m \in Modes, NEW p \in Procs, NEW snap \in SnapIds \cup {0}
  PROVE  [NoRow EXCEPT !.mode = m, !.status = "running", !.owner = p,
                       !.before = snap] \in Row
<1>1. m \in {"react", "plan", "team"}
  BY RecoveryParameters DEF Parameters
<1>2. AllPending \in [Tasks -> TaskStatus] /\ "running" \in Statuses
  BY DEF AllPending, TaskStatus, Statuses
<1>3. NoRow \in Row
  BY <1>2, Zenon DEF NoRow, Row
<1>. QED
  BY <1>1, <1>2, <1>3, Zenon DEF Row

LEMMA OwnedRowType ==
  ASSUME NEW old \in Row, NEW s \in Statuses, NEW o \in Procs \cup {NoProc}
  PROVE  [old EXCEPT !.status = s, !.owner = o] \in Row
BY Zenon DEF Row

\* Running tasks of a stored plan become pending.
LEMMA ResetType ==
  ASSUME RowInv, NEW r \in Runs
  PROVE  RunningReset(r) \in [Tasks -> TaskStatus]
BY DEF RowInv, Row, RunningReset, TaskStatus

\* What an attempt changes is an effect; its outcome is a record.
LEMMA EffectType ==
  ASSUME NEW r \in Runs, NEW t \in Tasks \cup {ReactTask},
         NEW n \in 1..MaxTries
  PROVE  <<r, t, n>> \in Effects
<1>1. <<t, n>> \in Attempts
  BY DEF Attempts
<1>. QED
  BY <1>1 DEF Effects

LEMMA RecordedType ==
  ASSUME ShapeInv, NEW p \in Procs, NEW t \in Tasks, step[p][t] # "todo"
  PROVE  Recorded(p, t) \in SUBSET Attempts
<1>1. attempt[p][t] \in 1..MaxTries /\ known[p] \in SUBSET Attempts
  BY DEF ShapeInv, BegunInv, MemoryInv
<1>. QED
  BY <1>1 DEF Recorded, Attempts

\* Every step keeps the shape of the state.
LEMMA ShapeStep ==
  ASSUME ShapeInv, Next
  PROVE  ShapeInv'
<1>. USE RecoveryParameters DEF Parameters, ShapeInv, StoreInv, MemoryInv,
   BegunInv
<1>1. ASSUME NEW p \in Procs, NEW s \in BOOLEAN, Open(p, s) PROVE ShapeInv'
  <2>1. "interrupted" \in Statuses /\ \A r \in Runs : row[r] \in Row
    BY DEF Statuses, RowInv
  <2>2. RowInv'
    BY <1>1, <2>1, OwnedRowType DEF Open, RowInv
  <2>3. StoreInv'
    BY <1>1 DEF Open
  <2>4. MemoryInv' /\ BegunInv'
    BY <1>1 DEF Open, Pcs, Busy
  <2>. QED
    BY <2>2, <2>3, <2>4
<1>2. ASSUME NEW p \in Procs, Crash(p) PROVE ShapeInv'
  <2>1. RowInv'
    BY <1>2 DEF Crash, durable, RowInv
  <2>2. StoreInv'
    BY <1>2 DEF Crash, durable
  <2>3. MemoryInv' /\ BegunInv'
    BY <1>2 DEF Crash, Forget, Busy, AllPending, NoSteps, TaskStatus, Pcs,
       StepKinds, Statuses
  <2>. QED
    BY <2>1, <2>2, <2>3
<1>3. ASSUME NEW p \in Procs, NEW r \in Runs, NEW m \in Modes, Execute(p, r, m)
     PROVE ShapeInv'
  <2>1. Capture(p)
    BY <1>3 DEF Execute
  <2>2. NewId(p) \in SnapIds \cup {0}
    BY <2>1, CaptureType
  <2>3. RowInv'
    BY <1>3, <2>2, FreshRowType DEF Execute, RowInv
  <2>4. StoreInv'
    BY <1>3, <2>1, CaptureType DEF Execute
  <2>5. MemoryInv' /\ BegunInv'
    BY <1>3 DEF Execute, Pcs, Busy
  <2>. QED
    BY <2>3, <2>4, <2>5
<1>4. ASSUME NEW p \in Procs, PlanReady(p) PROVE ShapeInv'
  <2>1. RowInv'
    BY <1>4, CheckpointType DEF PlanReady, Busy
  <2>2. StoreInv'
    BY <1>4 DEF PlanReady
  <2>3. MemoryInv' /\ BegunInv'
    BY <1>4 DEF PlanReady, Busy, Pcs
  <2>. QED
    BY <2>1, <2>2, <2>3
<1>5. ASSUME NEW p \in Procs, PlanCancelled(p) PROVE ShapeInv'
  <2>1. RowInv'
    BY <1>5 DEF PlanCancelled, durable, RowInv
  <2>2. StoreInv'
    BY <1>5 DEF PlanCancelled, durable
  <2>3. MemoryInv' /\ BegunInv'
    BY <1>5 DEF PlanCancelled, Ending, AllPending, NoSteps, StatusOf, Working,
       Recorded, Attempts, Busy, TaskStatus, Pcs, StepKinds, Statuses
  <2>. QED
    BY <2>1, <2>2, <2>3
<1>6. ASSUME NEW p \in Procs, RunRaises(p) PROVE ShapeInv'
  <2>1. RowInv'
    BY <1>6 DEF RunRaises, durable, RowInv
  <2>2. StoreInv'
    BY <1>6 DEF RunRaises, durable
  <2>3. raised' \in [Procs -> BOOLEAN]
    BY <1>6, Zenon DEF RunRaises
  <2>4. MemoryInv' /\ BegunInv'
    BY <1>6, <2>3 DEF RunRaises, Ending, NoSteps, AllPending, Busy,
       TaskStatus, Pcs, StepKinds, Statuses
  <2>. QED
    BY <2>1, <2>2, <2>4
<1>7. ASSUME NEW p \in Procs, ReactEffect(p) PROVE ShapeInv'
  <2>1. job[p] \in Runs
    BY <1>7 DEF ReactEffect, Busy
  <2>2. tries[job[p]] + 1 \in 1..MaxTries
    BY <1>7, <2>1 DEF ReactEffect, Busy
  <2>3. <<job[p], ReactTask, tries[job[p]] + 1>> \in Effects
    BY <2>1, <2>2, EffectType
  <2>4. RowInv'
    BY <1>7 DEF ReactEffect, RowInv
  <2>5. tries' \in [Runs -> 0..MaxTries]
    BY <1>7, <2>1, <2>2 DEF ReactEffect
  <2>6. ws' \subseteq Effects
    BY <1>7, <2>3 DEF ReactEffect
  <2>. HIDE DEF ShapeInv, MemoryInv, BegunInv
  <2>7. StoreInv'
    BY <1>7, <2>5, <2>6 DEF ReactEffect, ShapeInv
  <2>. USE DEF ShapeInv, MemoryInv, BegunInv
  <2>8. MemoryInv' /\ BegunInv'
    BY <1>7 DEF ReactEffect, memory, Busy
  <2>. QED
    BY <2>7, <2>8, <2>4
<1>8. ASSUME NEW p \in Procs, NEW s \in {"succeeded", "stopped", "failed",
   "cancelled"}, ReactEnds(p, s)
     PROVE ShapeInv'
  <2>1. RowInv'
    BY <1>8 DEF ReactEnds, durable, RowInv
  <2>2. StoreInv'
    BY <1>8 DEF ReactEnds, durable
  <2>3. MemoryInv' /\ BegunInv'
    BY <1>8 DEF ReactEnds, Ending, AllPending, NoSteps, StatusOf, Working,
       Recorded, Attempts, Busy, TaskStatus, Pcs, StepKinds, Statuses
  <2>. QED
    BY <2>1, <2>2, <2>3
<1>9. ASSUME NEW p \in Procs, NEW w \in SUBSET Tasks, PickWave(p, w)
     PROVE ShapeInv'
  <2>1. RowInv'
    BY <1>9 DEF PickWave, durable, RowInv
  <2>2. StoreInv'
    BY <1>9 DEF PickWave, durable
  <2>3. MemoryInv' /\ BegunInv'
    BY <1>9 DEF PickWave, MyRow, RowInv, Row, Busy, TaskStatus, Pcs,
       StepKinds, Statuses
  <2>. QED
    BY <2>1, <2>2, <2>3
<1>10. ASSUME NEW p \in Procs, SkipBlocked(p) PROVE ShapeInv'
  <2>1. RowInv'
    BY <1>10 DEF SkipBlocked, durable, RowInv
  <2>2. StoreInv'
    BY <1>10 DEF SkipBlocked, durable
  <2>3. MemoryInv' /\ BegunInv'
    BY <1>10 DEF SkipBlocked, MyRow, RowInv, Row, Busy, TaskStatus, Pcs,
       StepKinds, Statuses
  <2>. QED
    BY <2>1, <2>2, <2>3
<1>11. ASSUME NEW p \in Procs, Replan(p) PROVE ShapeInv'
  <2>1. RowInv'
    BY <1>11 DEF Replan, durable, RowInv
  <2>2. StoreInv'
    BY <1>11 DEF Replan, durable
  <2>3. MemoryInv' /\ BegunInv'
    BY <1>11 DEF Replan, MyRow, RowInv, Row, Busy, TaskStatus, Pcs, StepKinds,
       Statuses
  <2>. QED
    BY <2>1, <2>2, <2>3
<1>12. ASSUME NEW p \in Procs, PlanFinished(p) PROVE ShapeInv'
  <2>1. RowInv'
    BY <1>12 DEF PlanFinished, durable, RowInv
  <2>2. StoreInv'
    BY <1>12 DEF PlanFinished, durable
  <2>3. MemoryInv' /\ BegunInv'
    BY <1>12 DEF PlanFinished, Ending, AllPending, NoSteps, StatusOf, Working,
       Recorded, Attempts, Busy, TaskStatus, Pcs, StepKinds, Statuses
  <2>. QED
    BY <2>1, <2>2, <2>3
<1>13. ASSUME NEW p \in Procs, NEW t \in Tasks, BeforeTask(p, t)
     PROVE ShapeInv'
  <2>. DEFINE snap == IF t \in Writes THEN NewId(p) ELSE 0
  <2>1. /\ job[p] \in Runs /\ snap \in SnapIds \cup {0}
        /\ kept' \subseteq SnapIds /\ saved' \in [SnapIds -> SUBSET Effects]
        /\ lastId' \in 0..MaxSnaps
    BY <1>13, CaptureType DEF BeforeTask, Busy
  <2>2. /\ Checkpoint(p, plan[p], known[p], t, snap)
        /\ prior' = [prior EXCEPT ![p] = snap]
    BY <1>13 DEF BeforeTask
  <2>. HIDE DEF snap
  <2>3. RowInv'
    BY <2>1, <2>2, CheckpointType
  <2>4. StoreInv'
    BY <1>13, <2>1 DEF BeforeTask
  <2>5. MemoryInv' /\ BegunInv'
    BY <1>13, <2>1, <2>2 DEF BeforeTask, Busy, TaskStatus, StepKinds
  <2>. QED
    BY <2>3, <2>4, <2>5
<1>14. ASSUME NEW p \in Procs, NEW t \in Tasks, WriteEffect(p, t)
     PROVE ShapeInv'
  <2>1. job[p] \in Runs
    BY <1>14 DEF WriteEffect, Working, Busy
  <2>2. attempt[p][t] \in 1..MaxTries
    BY <1>14, <2>1 DEF WriteEffect, Working, Busy
  <2>3. <<job[p], t, attempt[p][t]>> \in Effects
    BY <2>1, <2>2, EffectType
  <2>4. RowInv'
    BY <1>14 DEF WriteEffect, RowInv
  <2>5. tries' \in [Runs -> 0..MaxTries]
    BY <1>14, <2>1, <2>2 DEF WriteEffect
  <2>6. ws' \subseteq Effects
    BY <1>14, <2>3 DEF WriteEffect
  <2>. HIDE DEF ShapeInv, MemoryInv, BegunInv
  <2>7. StoreInv'
    BY <1>14, <2>5, <2>6 DEF WriteEffect, ShapeInv
  <2>. USE DEF ShapeInv, MemoryInv, BegunInv
  <2>8. MemoryInv' /\ BegunInv'
    BY <1>14 DEF WriteEffect, memory, Busy
  <2>. QED
    BY <2>7, <2>8, <2>4
<1>15. ASSUME NEW p \in Procs, NEW t \in Tasks, CompleteTask(p, t)
     PROVE ShapeInv'
  <2>1. pc[p] = "wave" /\ step[p][t] # "todo" /\ EndTask(p, t, "completed")
    BY <1>15 DEF CompleteTask, Succeeded
  <2>2. job[p] \in Runs /\ Recorded(p, t) \in SUBSET Attempts
    BY <2>1, RecordedType DEF Busy
  <2>3. [plan[p] EXCEPT ![t] = "completed"] \in [Tasks -> TaskStatus]
    BY DEF TaskStatus
  <2>4. RowInv'
    BY <2>1, <2>2, <2>3, CheckpointType DEF EndTask
  <2>5. StoreInv'
    BY <2>1 DEF EndTask
  <2>6. MemoryInv' /\ BegunInv'
    BY <1>15, <2>1, <2>2 DEF CompleteTask, EndTask, LeaveWave, Busy,
       TaskStatus, Pcs, StepKinds, Statuses
  <2>. QED
    BY <2>4, <2>5, <2>6
<1>16. ASSUME NEW p \in Procs, NEW t \in Tasks, FailTask(p, t) PROVE ShapeInv'
  <2>1. pc[p] = "wave" /\ step[p][t] # "todo" /\ EndTask(p, t, "failed")
    BY <1>16 DEF FailTask, Failed, Working
  <2>2. job[p] \in Runs /\ Recorded(p, t) \in SUBSET Attempts
    BY <2>1, RecordedType DEF Busy
  <2>3. [plan[p] EXCEPT ![t] = "failed"] \in [Tasks -> TaskStatus]
    BY DEF TaskStatus
  <2>4. RowInv'
    BY <2>1, <2>2, <2>3, CheckpointType DEF EndTask
  <2>5. StoreInv'
    BY <2>1 DEF EndTask
  <2>6. MemoryInv' /\ BegunInv'
    BY <1>16, <2>1, <2>2 DEF FailTask, EndTask, LeaveWave, Busy, TaskStatus,
       Pcs, StepKinds, Statuses
  <2>. QED
    BY <2>4, <2>5, <2>6
<1>17. ASSUME NEW p \in Procs, NEW t \in Tasks, NEW v \in {"approved",
   "retry", "rejected"}, Review(p, t, v)
     PROVE ShapeInv'
  <2>1. job[p] \in Runs /\ Recorded(p, t) \in SUBSET Attempts
    BY <1>17, RecordedType DEF Review, Working, Busy
  <2>2. RowInv'
    BY <1>17, <2>1, CheckpointType DEF Review
  <2>3. StoreInv'
    BY <1>17 DEF Review
  <2>4. MemoryInv' /\ BegunInv'
    BY <1>17, <2>1 DEF Review, Working, Busy, StepKinds
  <2>. QED
    BY <2>2, <2>3, <2>4
<1>18. ASSUME NEW p \in Procs, NEW t \in Tasks, PlanHookRaises(p, t)
     PROVE ShapeInv'
  <2>1. step[p][t] = "working" => Recorded(p, t) \in SUBSET Attempts
    BY RecordedType
  <2>2. RowInv'
    BY <1>18 DEF PlanHookRaises, durable, RowInv
  <2>3. StoreInv'
    BY <1>18 DEF PlanHookRaises, durable
  <2>4. known' \in [Procs -> SUBSET Attempts] /\ pc[p] = "wave"
    <3>1. CASE step[p][t] = "working"
      <4>1. known' = [known EXCEPT ![p] = Recorded(p, t)] /\ pc[p] = "wave"
        BY <1>18, <3>1 DEF PlanHookRaises, Working
      <4>. QED
        BY <2>1, <3>1, <4>1
    <3>2. CASE step[p][t] # "working"
      BY <1>18, <3>2 DEF PlanHookRaises, Working
    <3>. QED
      BY <3>1, <3>2
  <2>5. raised' \in [Procs -> BOOLEAN]
    BY <1>18, Zenon DEF PlanHookRaises
  <2>6. MemoryInv'
    BY <1>18, <2>4, <2>5 DEF PlanHookRaises, Ending, NoSteps, AllPending,
       Busy, TaskStatus, Pcs, StepKinds, Statuses
  <2>7. BegunInv'
    BY <1>18, <2>4 DEF PlanHookRaises, Ending, NoSteps, AllPending, Busy,
       TaskStatus, Pcs, StepKinds, Statuses
  <2>. QED
    BY <2>2, <2>3, <2>6, <2>7
<1>19. ASSUME NEW p \in Procs, NEW t \in Tasks, TeamHookRaises(p, t)
     PROVE ShapeInv'
  <2>1. step[p][t] = "working" => Recorded(p, t) \in SUBSET Attempts
    BY RecordedType
  <2>2. RowInv'
    BY <1>19 DEF TeamHookRaises, durable, RowInv
  <2>3. StoreInv'
    BY <1>19 DEF TeamHookRaises, durable
  <2>4. known' \in [Procs -> SUBSET Attempts] /\ pc[p] = "wave"
    <3>1. CASE step[p][t] = "working"
      <4>1. known' = [known EXCEPT ![p] = Recorded(p, t)] /\ pc[p] = "wave"
        BY <1>19, <3>1 DEF TeamHookRaises
      <4>. QED
        BY <2>1, <3>1, <4>1
    <3>2. CASE step[p][t] # "working"
      BY <1>19, <3>2 DEF TeamHookRaises
    <3>. QED
      BY <3>1, <3>2
  <2>5. raised' \in [Procs -> BOOLEAN]
    BY <1>19, Zenon DEF TeamHookRaises
  <2>6. plan' \in [Procs -> [Tasks -> TaskStatus]]
        /\ step' \in [Procs -> [Tasks -> StepKinds]]
    BY <1>19 DEF TeamHookRaises, LeaveWave, TaskStatus, StepKinds
  <2>7. MemoryInv'
    BY <1>19, <2>4, <2>5, <2>6 DEF TeamHookRaises, LeaveWave, TaskStatus, Pcs,
       StepKinds, Statuses
  <2>8. BegunInv'
    BY <1>19, <2>4 DEF TeamHookRaises, LeaveWave, Busy, TaskStatus, Pcs,
       StepKinds, Statuses
  <2>. QED
    BY <2>2, <2>3, <2>7, <2>8
<1>20. ASSUME NEW p \in Procs, RollBack(p) PROVE ShapeInv'
  <2>1. RowInv'
    BY <1>20 DEF RollBack, durable, RowInv
  <2>2. StoreInv'
    BY <1>20 DEF RollBack, durable
  <2>3. MemoryInv' /\ BegunInv'
    BY <1>20 DEF RollBack, MyRow, RowInv, Row, Busy, TaskStatus, Pcs,
       StepKinds, Statuses
  <2>. QED
    BY <2>1, <2>2, <2>3
<1>21. ASSUME NEW p \in Procs, KeepWorkspace(p) PROVE ShapeInv'
  <2>1. RowInv'
    BY <1>21 DEF KeepWorkspace, durable, RowInv
  <2>2. StoreInv'
    BY <1>21 DEF KeepWorkspace, durable
  <2>3. MemoryInv' /\ BegunInv'
    BY <1>21 DEF KeepWorkspace, MyRow, RowInv, Row, Busy, TaskStatus, Pcs,
       StepKinds, Statuses
  <2>. QED
    BY <2>1, <2>2, <2>3
<1>22. ASSUME NEW p \in Procs, NEW e \in Effects, RestoreFile(p, e)
     PROVE ShapeInv'
  <2>1. RowInv'
    BY <1>22 DEF RestoreFile, RowInv
  <2>2. StoreInv'
    BY <1>22 DEF RestoreFile
  <2>3. MemoryInv' /\ BegunInv'
    BY <1>22 DEF RestoreFile, memory, Busy
  <2>. QED
    BY <2>1, <2>2, <2>3
<1>23. ASSUME NEW p \in Procs, Finish(p) PROVE ShapeInv'
  <2>. DEFINE c == target[p] # 0
              b == MyRow(p).planned \/ (Mode(p) # "react" /\ ~raised[p])
              thePlan == IF raised[p] THEN MyRow(p).plan ELSE plan[p]
              new == [row[job[p]] EXCEPT
                        !.status = outcome[p], !.owner = NoProc, !.planned = b,
                        !.plan = thePlan, !.known = known[p], !.cur = NoTask,
                        !.snap = 0, !.after = NewId(p),
                        !.rolledBack = c]
  <2>1. Capture(p)
    BY <1>23 DEF Finish
  <2>2. NewId(p) \in SnapIds \cup {0}
    BY <2>1, CaptureType
  <2>3. job[p] \in Runs
    BY <1>23 DEF Finish, Busy
  <2>4. row[job[p]] \in Row /\ b \in BOOLEAN /\ c \in BOOLEAN
    BY <2>3, Zenon DEF RowInv
  <2>5. thePlan \in [Tasks -> TaskStatus]
    BY <2>4 DEF MyRow, Row
  <2>6. outcome[p] \in Statuses \cup {"none"} /\ known[p] \in SUBSET Attempts
    OBVIOUS
  <2>7. row' = [row EXCEPT ![job[p]] = new]
    BY <1>23, Zenon DEF Finish, MyRow
  <2>. HIDE DEF b, c, thePlan
  <2>8. new \in Row
    BY <2>2, <2>4, <2>5, <2>6, ZenonT(60) DEF Row
  <2>. HIDE DEF new
  <2>9. RowInv'
    BY <2>3, <2>7, <2>8 DEF RowInv
  <2>10. StoreInv'
    BY <1>23, <2>1, CaptureType DEF Finish
  <2>11. MemoryInv' /\ BegunInv'
    BY <1>23 DEF Finish, Pcs, Busy
  <2>. QED
    BY <2>9, <2>10, <2>11
<1>24. ASSUME NEW p \in Procs, Prune(p) PROVE ShapeInv'
  <2>1. RowInv'
    BY <1>24 DEF Prune, RowInv
  <2>2. StoreInv'
    BY <1>24 DEF Prune
  <2>3. MemoryInv' /\ BegunInv'
    BY <1>24 DEF Prune, Forget, Busy, AllPending, NoSteps, TaskStatus, Pcs,
       StepKinds, Statuses
  <2>. QED
    BY <2>1, <2>2, <2>3
<1>25. ASSUME NEW p \in Procs, NEW r \in Runs, ResumeReact(p, r)
     PROVE ShapeInv'
  <2>1. RowInv'
    BY <1>25 DEF ResumeReact, Load, durable, RowInv
  <2>2. StoreInv'
    BY <1>25 DEF ResumeReact, Load, durable
  <2>3. MemoryInv' /\ BegunInv'
    BY <1>25, ResetType DEF ResumeReact, Load, AllPending, RowInv, Row, Busy,
       TaskStatus, Pcs, StepKinds, Statuses
  <2>. QED
    BY <2>1, <2>2, <2>3
<1>26. ASSUME NEW p \in Procs, NEW r \in Runs, ResumeTask(p, r)
     PROVE ShapeInv'
  <2>1. RowInv'
    BY <1>26 DEF ResumeTask, Load, durable, RowInv
  <2>2. StoreInv'
    BY <1>26 DEF ResumeTask, Load, durable
  <2>3. MemoryInv' /\ BegunInv'
    BY <1>26, ResetType DEF ResumeTask, Load, AllPending, RowInv, Row, Busy,
       TaskStatus, Pcs, StepKinds, Statuses
  <2>. QED
    BY <2>1, <2>2, <2>3
<1>27. ASSUME NEW p \in Procs, NEW r \in Runs, ResumeWhole(p, r)
     PROVE ShapeInv'
  <2>1. RowInv'
    BY <1>27 DEF ResumeWhole, Load, durable, RowInv
  <2>2. StoreInv'
    BY <1>27 DEF ResumeWhole, Load, durable
  <2>3. MemoryInv' /\ BegunInv'
    BY <1>27, ResetType DEF ResumeWhole, Load, AllPending, RowInv, Row, Busy,
       TaskStatus, Pcs, StepKinds, Statuses
  <2>. QED
    BY <2>1, <2>2, <2>3
<1>28. ASSUME NEW p \in Procs, NEW r \in Runs, ResumeBetweenTasks(p, r)
     PROVE ShapeInv'
  <2>1. RowInv'
    BY <1>28 DEF ResumeBetweenTasks, Load, durable, RowInv
  <2>2. StoreInv'
    BY <1>28 DEF ResumeBetweenTasks, Load, durable
  <2>3. MemoryInv' /\ BegunInv'
    BY <1>28, ResetType DEF ResumeBetweenTasks, Load, AllPending, RowInv, Row,
       Busy, TaskStatus, Pcs, StepKinds, Statuses
  <2>. QED
    BY <2>1, <2>2, <2>3
<1>29. ASSUME NEW p \in Procs, MarkRunning(p) PROVE ShapeInv'
  <2>1. "running" \in Statuses /\ row[job[p]] \in Row
    BY <1>29 DEF Statuses, RowInv, MarkRunning, Busy
  <2>2. RowInv'
    BY <1>29, <2>1, OwnedRowType DEF MarkRunning, RowInv
  <2>3. StoreInv'
    BY <1>29 DEF MarkRunning
  <2>4. MemoryInv' /\ BegunInv'
    BY <1>29 DEF MarkRunning, Pcs, Busy
  <2>. QED
    BY <2>2, <2>3, <2>4
<1>. HIDE DEF ShapeInv
<1>. QED
  BY <1>1, <1>2, <1>3, <1>4, <1>5, <1>6, <1>7, <1>8, <1>9, <1>10, <1>11,
     <1>12, <1>13, <1>14, <1>15, <1>16, <1>17, <1>18, <1>19, <1>20, <1>21,
        <1>22, <1>23, <1>24, <1>25, <1>26, <1>27, <1>28, <1>29,
           RecoveryParameters DEF Next, TaskStep, Parameters

\* ControlInv looks at where processes are, whose run is whose, and the status
\* and owner of rows.  A process that goes on with its run keeps it.
LEMMA RunGoesOn ==
  ASSUME ShapeInv, ControlInv, NEW p \in Procs, InRun(p),
         NEW here \in {"planning", "choose", "wave", "react", "ending",
            "finishing"},
         pc' = [pc EXCEPT ![p] = here], job' = job,
         \A r \in Runs : /\ row'[r].status = row[r].status
                         /\ row'[r].owner = row[r].owner,
         \A q \in Procs : outcome'[q] # "running"
  PROVE  ControlInv'
<1>. USE DEF ShapeInv, MemoryInv, BegunInv, ControlInv, Busy, Alive, InRun
<1>1. \A q \in Procs : /\ (Busy(q)' <=> Busy(q)) /\ (Alive(q)' <=> Alive(q))
                       /\ (InRun(q)' <=> InRun(q))
                       /\ pc'[q] = "resuming" => pc[q] = "resuming"
  OBVIOUS
<1>2. OneBusy'
  BY <1>1 DEF OneBusy
<1>. HIDE DEF Busy, Alive, InRun
<1>3. \A q \in Procs : InRun(q) \/ pc[q] = "resuming" => job[q] \in Runs
  BY DEF InRun, Busy
<1>4. WorkerOwnsRow'
  BY <1>1, <1>3 DEF WorkerOwnsRow, MyRow
<1>5. RunningOwned'
  <2>1. ASSUME NEW r \in Runs, NEW q \in Procs, row'[r].status = "running",
               row'[r].owner = q, Alive(q)'
        PROVE  InRun(q)' /\ job'[q] = r
    <3>1. row[r].status = "running" /\ row[r].owner = q /\ Alive(q)
      BY <1>1, <2>1
    <3>. QED
      BY <1>1, <3>1 DEF RunningOwned
  <2>. QED
    BY <2>1 DEF RunningOwned
<1>6. OnlyMine'
  <2>1. ASSUME NEW q \in Procs, NEW r \in Runs, Busy(q)',
               row'[r].status = "running"
        PROVE  InRun(q)' /\ r = job'[q]
    <3>1. Busy(q) /\ row[r].status = "running"
      BY <1>1, <2>1
    <3>. QED
      BY <1>1, <3>1 DEF OnlyMine
  <2>. QED
    BY <2>1 DEF OnlyMine
<1>7. Transitions'
  BY <1>1, <1>3 DEF Transitions, MyRow
<1>. QED
  BY <1>2, <1>4, <1>5, <1>6, <1>7

\* Nothing it looks at changes.
LEMMA ControlStays ==
  ASSUME ControlInv, UNCHANGED <<pc, job, row, outcome>>
  PROVE  ControlInv'
BY DEF ControlInv, OneBusy, WorkerOwnsRow, RunningOwned, OnlyMine, Transitions,
       Busy, Alive, InRun, MyRow

\* A process that starts finds no other at work and no run marked as running.
LEMMA StartsAlone ==
  ASSUME ControlInv, Sharing # "any", NEW p \in Procs, pc[p] = "idle",
         MayStart(p)
  PROVE  /\ \A q \in Procs : ~Busy(q)
         /\ \A r \in Runs : row[r].status # "running"
<1>1. \A q \in Procs : ~Busy(q)
  BY DEF MayStart, Busy
<1>2. \A q \in Procs : ~InRun(q)
  BY <1>1 DEF InRun, Busy
<1>. QED
  BY <1>1, <1>2 DEF MayStart, Stale, ControlInv, RunningOwned

\* Every step keeps ControlInv, unless the user starts runs side by side.
LEMMA ControlStep ==
  ASSUME ShapeInv, ControlInv, Sharing # "any", Next
  PROVE  ControlInv'
<1>1. \A q \in Procs : outcome[q] # "running"
  BY DEF ControlInv, Transitions
<1>2. ASSUME NEW p \in Procs, NEW s \in BOOLEAN, Open(p, s) PROVE ControlInv'
  <2>1. /\ pc' = [pc EXCEPT ![p] = "idle"] /\ pc[p] = "off"
        /\ job' = job /\ outcome' = outcome
    BY <1>2 DEF Open
  <2>2. \A r \in Runs : /\ Stale(r) => row'[r].status = "interrupted"
                        /\ ~Stale(r) => row'[r] = row[r]
    BY <1>2 DEF Open, ShapeInv, RowInv, Row
  <2>3. pc \in [Procs -> Pcs]
    BY DEF ShapeInv, MemoryInv
  <2>4. \A q \in Procs : Busy(q) => job[q] \in Runs
    BY DEF ShapeInv, BegunInv
  <2>5. OneBusy'
    BY <1>1, <2>1, <2>2, <2>3, <2>4 DEF OneBusy, Busy, Alive, InRun, MyRow,
       Stale, ControlInv, Resumable
  <2>6. WorkerOwnsRow'
    BY <1>1, <2>1, <2>2, <2>3, <2>4 DEF WorkerOwnsRow, Busy, Alive, InRun,
       MyRow, Stale, ControlInv, Resumable
  <2>7. RunningOwned'
    BY <1>1, <2>1, <2>2, <2>3, <2>4 DEF RunningOwned, Busy, Alive, InRun,
       MyRow, Stale, ControlInv, Resumable
  <2>8. OnlyMine'
    BY <1>1, <2>1, <2>2, <2>3, <2>4 DEF OnlyMine, Busy, Alive, InRun, MyRow,
       Stale, ControlInv, Resumable
  <2>9. Transitions'
    BY <1>1, <2>1, <2>2, <2>3, <2>4 DEF Transitions, Busy, Alive, InRun,
       MyRow, Stale, ControlInv, Resumable
  <2>. QED
    BY <2>5, <2>6, <2>7, <2>8, <2>9 DEF ControlInv
<1>3. ASSUME NEW p \in Procs, Crash(p) PROVE ControlInv'
  <2>1. OneBusy'
    BY <1>1, <1>3 DEF Crash, Forget, durable, Busy, Alive, MyRow, BegunInv,
       OneBusy, InRun, ShapeInv, MemoryInv, RowInv, Row, ControlInv
  <2>2. WorkerOwnsRow'
    BY <1>1, <1>3 DEF Crash, Forget, durable, Busy, Alive, MyRow, BegunInv,
       WorkerOwnsRow, InRun, ShapeInv, MemoryInv, RowInv, Row, ControlInv
  <2>3. RunningOwned'
    BY <1>1, <1>3 DEF Crash, Forget, durable, Busy, Alive, MyRow, BegunInv,
       RunningOwned, InRun, ShapeInv, MemoryInv, RowInv, Row, ControlInv
  <2>4. OnlyMine'
    BY <1>1, <1>3 DEF Crash, Forget, durable, Busy, Alive, MyRow, BegunInv,
       OnlyMine, InRun, ShapeInv, MemoryInv, RowInv, Row, ControlInv
  <2>5. Transitions'
    BY <1>1, <1>3 DEF Crash, Forget, durable, Busy, Alive, MyRow, BegunInv,
       Transitions, InRun, ShapeInv, MemoryInv, RowInv, Row, ControlInv
  <2>. QED
    BY <2>1, <2>2, <2>3, <2>4, <2>5 DEF ControlInv
<1>4. ASSUME NEW p \in Procs, NEW r \in Runs, NEW m \in Modes, Execute(p, r, m)
     PROVE ControlInv'
  <2>1. /\ \A q \in Procs : ~Busy(q)
        /\ \A q \in Runs : row[q].status # "running"
    BY <1>4, StartsAlone DEF Execute
  <2>2. OneBusy'
    BY <1>1, <1>4, <2>1 DEF Execute, NoRow, Busy, Alive, MyRow, BegunInv,
       OneBusy, InRun, ShapeInv, MemoryInv, RowInv, Row, ControlInv
  <2>3. WorkerOwnsRow'
    BY <1>1, <1>4, <2>1 DEF Execute, NoRow, Busy, Alive, MyRow, BegunInv,
       WorkerOwnsRow, InRun, ShapeInv, MemoryInv, RowInv, Row, ControlInv
  <2>4. RunningOwned'
    BY <1>1, <1>4, <2>1 DEF Execute, NoRow, Busy, Alive, MyRow, BegunInv,
       RunningOwned, InRun, ShapeInv, MemoryInv, RowInv, Row, ControlInv
  <2>5. OnlyMine'
    BY <1>1, <1>4, <2>1 DEF Execute, NoRow, Busy, Alive, MyRow, BegunInv,
       OnlyMine, InRun, ShapeInv, MemoryInv, RowInv, Row, ControlInv
  <2>6. Transitions'
    BY <1>1, <1>4, <2>1 DEF Execute, NoRow, Busy, Alive, MyRow, BegunInv,
       Transitions, InRun, ShapeInv, MemoryInv, RowInv, Row, ControlInv
  <2>. QED
    BY <2>2, <2>3, <2>4, <2>5, <2>6 DEF ControlInv
<1>5. ASSUME NEW p \in Procs, PlanReady(p) PROVE ControlInv'
  <2>1. /\ InRun(p) /\ job' = job
        /\ pc' = [pc EXCEPT ![p] = "choose"]
        /\ \A q \in Procs : outcome'[q] # "running"
        /\ \A r \in Runs : /\ row'[r].status = row[r].status
                          /\ row'[r].owner = row[r].owner
    BY <1>1, <1>5 DEF PlanReady, Checkpoint, InRun, ShapeInv, MemoryInv,
       RowInv, Row
  <2>. QED
    BY <2>1, RunGoesOn
<1>6. ASSUME NEW p \in Procs, PlanCancelled(p) PROVE ControlInv'
  <2>1. /\ InRun(p) /\ job' = job
        /\ pc' = [pc EXCEPT ![p] = "ending"]
        /\ \A q \in Procs : outcome'[q] # "running"
        /\ \A r \in Runs : /\ row'[r].status = row[r].status
                          /\ row'[r].owner = row[r].owner
    BY <1>1, <1>6 DEF PlanCancelled, Ending, durable, InRun, ShapeInv,
       MemoryInv, RowInv, Row
  <2>. QED
    BY <2>1, RunGoesOn
<1>7. ASSUME NEW p \in Procs, RunRaises(p) PROVE ControlInv'
  <2>1. /\ InRun(p) /\ job' = job
        /\ pc' = [pc EXCEPT ![p] = "ending"]
        /\ \A q \in Procs : outcome'[q] # "running"
        /\ \A r \in Runs : /\ row'[r].status = row[r].status
                          /\ row'[r].owner = row[r].owner
    BY <1>1, <1>7 DEF RunRaises, Ending, durable, InRun, ShapeInv, MemoryInv,
       RowInv, Row
  <2>. QED
    BY <2>1, RunGoesOn
<1>8. ASSUME NEW p \in Procs, ReactEffect(p) PROVE ControlInv'
  BY <1>8, ControlStays DEF ReactEffect, memory, durable
<1>9. ASSUME NEW p \in Procs, NEW s \in {"succeeded", "stopped", "failed",
   "cancelled"}, ReactEnds(p, s)
     PROVE ControlInv'
  <2>1. /\ InRun(p) /\ job' = job
        /\ pc' = [pc EXCEPT ![p] = "ending"]
        /\ \A q \in Procs : outcome'[q] # "running"
        /\ \A r \in Runs : /\ row'[r].status = row[r].status
                          /\ row'[r].owner = row[r].owner
    BY <1>1, <1>9 DEF ReactEnds, Ending, durable, InRun, ShapeInv, MemoryInv,
       RowInv, Row
  <2>. QED
    BY <2>1, RunGoesOn
<1>10. ASSUME NEW p \in Procs, NEW w \in SUBSET Tasks, PickWave(p, w)
     PROVE ControlInv'
  <2>1. /\ InRun(p) /\ job' = job
        /\ pc' = [pc EXCEPT ![p] = "wave"]
        /\ \A q \in Procs : outcome'[q] # "running"
        /\ \A r \in Runs : /\ row'[r].status = row[r].status
                          /\ row'[r].owner = row[r].owner
    BY <1>1, <1>10 DEF PickWave, durable, InRun, ShapeInv, MemoryInv, RowInv,
       Row
  <2>. QED
    BY <2>1, RunGoesOn
<1>11. ASSUME NEW p \in Procs, SkipBlocked(p) PROVE ControlInv'
  BY <1>11, ControlStays DEF SkipBlocked, memory, durable
<1>12. ASSUME NEW p \in Procs, Replan(p) PROVE ControlInv'
  BY <1>12, ControlStays DEF Replan, memory, durable
<1>13. ASSUME NEW p \in Procs, PlanFinished(p) PROVE ControlInv'
  <2>1. /\ InRun(p) /\ job' = job
        /\ pc' = [pc EXCEPT ![p] = "ending"]
        /\ \A q \in Procs : outcome'[q] # "running"
        /\ \A r \in Runs : /\ row'[r].status = row[r].status
                          /\ row'[r].owner = row[r].owner
    BY <1>1, <1>13 DEF PlanFinished, Ending, durable, StatusOf, InRun,
       ShapeInv, MemoryInv, RowInv, Row
  <2>. QED
    BY <2>1, RunGoesOn
<1>14. ASSUME NEW p \in Procs, NEW t \in Tasks, BeforeTask(p, t)
     PROVE ControlInv'
  <2>1. /\ InRun(p) /\ job' = job
        /\ pc' = [pc EXCEPT ![p] = "wave"]
        /\ \A q \in Procs : outcome'[q] # "running"
        /\ \A r \in Runs : /\ row'[r].status = row[r].status
                          /\ row'[r].owner = row[r].owner
    BY <1>1, <1>14 DEF BeforeTask, Checkpoint, InRun, ShapeInv, MemoryInv,
       RowInv, Row
  <2>. QED
    BY <2>1, RunGoesOn
<1>15. ASSUME NEW p \in Procs, NEW t \in Tasks, WriteEffect(p, t)
     PROVE ControlInv'
  BY <1>15, ControlStays DEF WriteEffect, memory, durable
<1>16. ASSUME NEW p \in Procs, NEW t \in Tasks, CompleteTask(p, t)
     PROVE ControlInv'
  <2>1. /\ InRun(p) /\ job' = job
        /\ pc' = [pc EXCEPT ![p] = IF wave[p] = {t} THEN "choose" ELSE "wave"]
        /\ \A q \in Procs : outcome'[q] # "running"
        /\ \A r \in Runs : /\ row'[r].status = row[r].status
                          /\ row'[r].owner = row[r].owner
    BY <1>1, <1>16 DEF CompleteTask, EndTask, Succeeded, Checkpoint,
       LeaveWave, InRun, ShapeInv, MemoryInv, RowInv, Row
  <2>. QED
    BY <2>1, RunGoesOn
<1>17. ASSUME NEW p \in Procs, NEW t \in Tasks, FailTask(p, t)
     PROVE ControlInv'
  <2>1. /\ InRun(p) /\ job' = job
        /\ pc' = [pc EXCEPT ![p] = IF wave[p] = {t} THEN "choose" ELSE "wave"]
        /\ \A q \in Procs : outcome'[q] # "running"
        /\ \A r \in Runs : /\ row'[r].status = row[r].status
                          /\ row'[r].owner = row[r].owner
    BY <1>1, <1>17 DEF FailTask, EndTask, Failed, Working, Checkpoint,
       LeaveWave, InRun, ShapeInv, MemoryInv, RowInv, Row
  <2>. QED
    BY <2>1, RunGoesOn
<1>18. ASSUME NEW p \in Procs, NEW t \in Tasks, NEW v \in {"approved",
   "retry", "rejected"}, Review(p, t, v)
     PROVE ControlInv'
  <2>1. /\ InRun(p) /\ job' = job
        /\ pc' = [pc EXCEPT ![p] = "wave"]
        /\ \A q \in Procs : outcome'[q] # "running"
        /\ \A r \in Runs : /\ row'[r].status = row[r].status
                          /\ row'[r].owner = row[r].owner
    BY <1>1, <1>18 DEF Review, Working, Checkpoint, InRun, ShapeInv,
       MemoryInv, RowInv, Row
  <2>. QED
    BY <2>1, RunGoesOn
<1>19. ASSUME NEW p \in Procs, NEW t \in Tasks, PlanHookRaises(p, t)
     PROVE ControlInv'
  <2>1. /\ InRun(p) /\ job' = job
        /\ pc' = [pc EXCEPT ![p] = "ending"]
        /\ \A q \in Procs : outcome'[q] # "running"
        /\ \A r \in Runs : /\ row'[r].status = row[r].status
                          /\ row'[r].owner = row[r].owner
    BY <1>1, <1>19 DEF PlanHookRaises, Ending, durable, InRun, ShapeInv,
       MemoryInv, RowInv, Row
  <2>. QED
    BY <2>1, RunGoesOn
<1>20. ASSUME NEW p \in Procs, NEW t \in Tasks, TeamHookRaises(p, t)
     PROVE ControlInv'
  <2>1. /\ InRun(p) /\ job' = job
        /\ pc' = [pc EXCEPT ![p] = IF wave[p] = {t} THEN "choose" ELSE "wave"]
        /\ \A q \in Procs : outcome'[q] # "running"
        /\ \A r \in Runs : /\ row'[r].status = row[r].status
                          /\ row'[r].owner = row[r].owner
    BY <1>1, <1>20 DEF TeamHookRaises, LeaveWave, durable, InRun, ShapeInv,
       MemoryInv, RowInv, Row
  <2>. QED
    BY <2>1, RunGoesOn
<1>21. ASSUME NEW p \in Procs, RollBack(p) PROVE ControlInv'
  <2>1. /\ InRun(p) /\ job' = job
        /\ pc' = [pc EXCEPT ![p] = "finishing"]
        /\ \A q \in Procs : outcome'[q] # "running"
        /\ \A r \in Runs : /\ row'[r].status = row[r].status
                          /\ row'[r].owner = row[r].owner
    BY <1>1, <1>21 DEF RollBack, durable, InRun, ShapeInv, MemoryInv, RowInv,
       Row
  <2>. QED
    BY <2>1, RunGoesOn
<1>22. ASSUME NEW p \in Procs, KeepWorkspace(p) PROVE ControlInv'
  <2>1. /\ InRun(p) /\ job' = job
        /\ pc' = [pc EXCEPT ![p] = "finishing"]
        /\ \A q \in Procs : outcome'[q] # "running"
        /\ \A r \in Runs : /\ row'[r].status = row[r].status
                          /\ row'[r].owner = row[r].owner
    BY <1>1, <1>22 DEF KeepWorkspace, durable, InRun, ShapeInv, MemoryInv,
       RowInv, Row
  <2>. QED
    BY <2>1, RunGoesOn
<1>23. ASSUME NEW p \in Procs, NEW e \in Effects, RestoreFile(p, e)
     PROVE ControlInv'
  BY <1>23, ControlStays DEF RestoreFile, memory, durable
<1>24. ASSUME NEW p \in Procs, Finish(p) PROVE ControlInv'
  <2>1. /\ job[p] \in Runs /\ \A q \in Procs : Busy(q) => q = p
        /\ \A r \in Runs : row[r].status = "running" => r = job[p]
    BY <1>24 DEF Finish, ControlInv, OneBusy, OnlyMine, Busy, ShapeInv,
       BegunInv
  <2>2. /\ pc' = [pc EXCEPT ![p] = "pruning"]
        /\ job' = job /\ outcome' = outcome
        /\ row'[job[p]].status = outcome[p]
        /\ \A r \in Runs : r # job[p] => row'[r] = row[r]
    BY <1>24, <2>1 DEF Finish, ShapeInv, RowInv
  <2>3. \A r \in Runs : row'[r].status # "running"
    BY <1>1, <2>1, <2>2
  <2>4. pc \in [Procs -> Pcs]
    BY DEF ShapeInv, MemoryInv
  <2>5. OneBusy'
    BY <1>1, <2>1, <2>2, <2>3, <2>4 DEF OneBusy, Busy, Alive, InRun, MyRow
  <2>6. WorkerOwnsRow'
    BY <1>1, <2>1, <2>2, <2>3, <2>4 DEF WorkerOwnsRow, Busy, Alive, InRun,
       MyRow
  <2>7. RunningOwned'
    BY <1>1, <2>1, <2>2, <2>3, <2>4 DEF RunningOwned, Busy, Alive, InRun, MyRow
  <2>8. OnlyMine'
    BY <1>1, <2>1, <2>2, <2>3, <2>4 DEF OnlyMine, Busy, Alive, InRun, MyRow
  <2>9. Transitions'
    BY <1>1, <2>1, <2>2, <2>3, <2>4 DEF Transitions, Busy, Alive, InRun, MyRow
  <2>. QED
    BY <2>5, <2>6, <2>7, <2>8, <2>9 DEF ControlInv
<1>25. ASSUME NEW p \in Procs, Prune(p) PROVE ControlInv'
  <2>1. OneBusy'
    BY <1>1, <1>25 DEF Prune, Forget, Busy, Alive, MyRow, BegunInv, OneBusy,
       InRun, ShapeInv, MemoryInv, RowInv, Row, ControlInv
  <2>2. WorkerOwnsRow'
    BY <1>1, <1>25 DEF Prune, Forget, Busy, Alive, MyRow, BegunInv,
       WorkerOwnsRow, InRun, ShapeInv, MemoryInv, RowInv, Row, ControlInv
  <2>3. RunningOwned'
    BY <1>1, <1>25 DEF Prune, Forget, Busy, Alive, MyRow, BegunInv,
       RunningOwned, InRun, ShapeInv, MemoryInv, RowInv, Row, ControlInv
  <2>4. OnlyMine'
    BY <1>1, <1>25 DEF Prune, Forget, Busy, Alive, MyRow, BegunInv, OnlyMine,
       InRun, ShapeInv, MemoryInv, RowInv, Row, ControlInv
  <2>5. Transitions'
    BY <1>1, <1>25 DEF Prune, Forget, Busy, Alive, MyRow, BegunInv,
       Transitions, InRun, ShapeInv, MemoryInv, RowInv, Row, ControlInv
  <2>. QED
    BY <2>1, <2>2, <2>3, <2>4, <2>5 DEF ControlInv
<1>26. ASSUME NEW p \in Procs, NEW r \in Runs, ResumeReact(p, r)
     PROVE ControlInv'
  <2>1. /\ \A q \in Procs : ~Busy(q)
        /\ \A q \in Runs : row[q].status # "running"
    BY <1>26, StartsAlone DEF ResumeReact, Load
  <2>2. OneBusy'
    BY <1>1, <1>26, <2>1 DEF ResumeReact, Load, durable, Resumable, Busy,
       Alive, MyRow, BegunInv, OneBusy, InRun, ShapeInv, MemoryInv, RowInv,
          Row, ControlInv
  <2>3. WorkerOwnsRow'
    BY <1>1, <1>26, <2>1 DEF ResumeReact, Load, durable, Resumable, Busy,
       Alive, MyRow, BegunInv, WorkerOwnsRow, InRun, ShapeInv, MemoryInv,
          RowInv, Row, ControlInv
  <2>4. RunningOwned'
    BY <1>1, <1>26, <2>1 DEF ResumeReact, Load, durable, Resumable, Busy,
       Alive, MyRow, BegunInv, RunningOwned, InRun, ShapeInv, MemoryInv,
          RowInv, Row, ControlInv
  <2>5. OnlyMine'
    BY <1>1, <1>26, <2>1 DEF ResumeReact, Load, durable, Resumable, Busy,
       Alive, MyRow, BegunInv, OnlyMine, InRun, ShapeInv, MemoryInv, RowInv,
          Row, ControlInv
  <2>6. Transitions'
    BY <1>1, <1>26, <2>1 DEF ResumeReact, Load, durable, Resumable, Busy,
       Alive, MyRow, BegunInv, Transitions, InRun, ShapeInv, MemoryInv,
          RowInv, Row, ControlInv
  <2>. QED
    BY <2>2, <2>3, <2>4, <2>5, <2>6 DEF ControlInv
<1>27. ASSUME NEW p \in Procs, NEW r \in Runs, ResumeTask(p, r)
     PROVE ControlInv'
  <2>1. /\ \A q \in Procs : ~Busy(q)
        /\ \A q \in Runs : row[q].status # "running"
    BY <1>27, StartsAlone DEF ResumeTask, Load
  <2>2. OneBusy'
    BY <1>1, <1>27, <2>1 DEF ResumeTask, Load, durable, Resumable, Busy,
       Alive, MyRow, BegunInv, OneBusy, InRun, ShapeInv, MemoryInv, RowInv,
          Row, ControlInv
  <2>3. WorkerOwnsRow'
    BY <1>1, <1>27, <2>1 DEF ResumeTask, Load, durable, Resumable, Busy,
       Alive, MyRow, BegunInv, WorkerOwnsRow, InRun, ShapeInv, MemoryInv,
          RowInv, Row, ControlInv
  <2>4. RunningOwned'
    BY <1>1, <1>27, <2>1 DEF ResumeTask, Load, durable, Resumable, Busy,
       Alive, MyRow, BegunInv, RunningOwned, InRun, ShapeInv, MemoryInv,
          RowInv, Row, ControlInv
  <2>5. OnlyMine'
    BY <1>1, <1>27, <2>1 DEF ResumeTask, Load, durable, Resumable, Busy,
       Alive, MyRow, BegunInv, OnlyMine, InRun, ShapeInv, MemoryInv, RowInv,
          Row, ControlInv
  <2>6. Transitions'
    BY <1>1, <1>27, <2>1 DEF ResumeTask, Load, durable, Resumable, Busy,
       Alive, MyRow, BegunInv, Transitions, InRun, ShapeInv, MemoryInv,
          RowInv, Row, ControlInv
  <2>. QED
    BY <2>2, <2>3, <2>4, <2>5, <2>6 DEF ControlInv
<1>28. ASSUME NEW p \in Procs, NEW r \in Runs, ResumeWhole(p, r)
     PROVE ControlInv'
  <2>1. /\ \A q \in Procs : ~Busy(q)
        /\ \A q \in Runs : row[q].status # "running"
    BY <1>28, StartsAlone DEF ResumeWhole, Load
  <2>2. OneBusy'
    BY <1>1, <1>28, <2>1 DEF ResumeWhole, Load, durable, Resumable, Busy,
       Alive, MyRow, BegunInv, OneBusy, InRun, ShapeInv, MemoryInv, RowInv,
          Row, ControlInv
  <2>3. WorkerOwnsRow'
    BY <1>1, <1>28, <2>1 DEF ResumeWhole, Load, durable, Resumable, Busy,
       Alive, MyRow, BegunInv, WorkerOwnsRow, InRun, ShapeInv, MemoryInv,
          RowInv, Row, ControlInv
  <2>4. RunningOwned'
    BY <1>1, <1>28, <2>1 DEF ResumeWhole, Load, durable, Resumable, Busy,
       Alive, MyRow, BegunInv, RunningOwned, InRun, ShapeInv, MemoryInv,
          RowInv, Row, ControlInv
  <2>5. OnlyMine'
    BY <1>1, <1>28, <2>1 DEF ResumeWhole, Load, durable, Resumable, Busy,
       Alive, MyRow, BegunInv, OnlyMine, InRun, ShapeInv, MemoryInv, RowInv,
          Row, ControlInv
  <2>6. Transitions'
    BY <1>1, <1>28, <2>1 DEF ResumeWhole, Load, durable, Resumable, Busy,
       Alive, MyRow, BegunInv, Transitions, InRun, ShapeInv, MemoryInv,
          RowInv, Row, ControlInv
  <2>. QED
    BY <2>2, <2>3, <2>4, <2>5, <2>6 DEF ControlInv
<1>29. ASSUME NEW p \in Procs, NEW r \in Runs, ResumeBetweenTasks(p, r)
     PROVE ControlInv'
  <2>1. /\ \A q \in Procs : ~Busy(q)
        /\ \A q \in Runs : row[q].status # "running"
    BY <1>29, StartsAlone DEF ResumeBetweenTasks, Load
  <2>2. OneBusy'
    BY <1>1, <1>29, <2>1 DEF ResumeBetweenTasks, Load, durable, Resumable,
       Busy, Alive, MyRow, BegunInv, OneBusy, InRun, ShapeInv, MemoryInv,
          RowInv, Row, ControlInv
  <2>3. WorkerOwnsRow'
    BY <1>1, <1>29, <2>1 DEF ResumeBetweenTasks, Load, durable, Resumable,
       Busy, Alive, MyRow, BegunInv, WorkerOwnsRow, InRun, ShapeInv,
          MemoryInv, RowInv, Row, ControlInv
  <2>4. RunningOwned'
    BY <1>1, <1>29, <2>1 DEF ResumeBetweenTasks, Load, durable, Resumable,
       Busy, Alive, MyRow, BegunInv, RunningOwned, InRun, ShapeInv, MemoryInv,
          RowInv, Row, ControlInv
  <2>5. OnlyMine'
    BY <1>1, <1>29, <2>1 DEF ResumeBetweenTasks, Load, durable, Resumable,
       Busy, Alive, MyRow, BegunInv, OnlyMine, InRun, ShapeInv, MemoryInv,
          RowInv, Row, ControlInv
  <2>6. Transitions'
    BY <1>1, <1>29, <2>1 DEF ResumeBetweenTasks, Load, durable, Resumable,
       Busy, Alive, MyRow, BegunInv, Transitions, InRun, ShapeInv, MemoryInv,
          RowInv, Row, ControlInv
  <2>. QED
    BY <2>2, <2>3, <2>4, <2>5, <2>6 DEF ControlInv
<1>30. ASSUME NEW p \in Procs, MarkRunning(p) PROVE ControlInv'
  <2>1. /\ job[p] \in Runs /\ \A q \in Procs : Busy(q) => q = p
        /\ \A r \in Runs : row[r].status # "running"
    BY <1>30 DEF MarkRunning, ControlInv, OneBusy, OnlyMine, Busy, InRun,
       ShapeInv, BegunInv
  <2>2. /\ row'[job[p]].status = "running" /\ row'[job[p]].owner = p
        /\ \A r \in Runs : r # job[p] => row'[r] = row[r]
    BY <1>30, <2>1 DEF MarkRunning, ShapeInv, RowInv, Row
  <2>3. /\ job' = job /\ outcome' = outcome /\ pc[p] = "resuming"
        /\ \E here \in {"react", "planning", "choose"} :
             pc' = [pc EXCEPT ![p] = here]
    BY <1>30 DEF MarkRunning
  <2>4. pc \in [Procs -> Pcs]
    BY DEF ShapeInv, MemoryInv
  <2>5. OneBusy'
    BY <1>1, <2>1, <2>2, <2>3, <2>4 DEF OneBusy, Busy, Alive, InRun, MyRow
  <2>6. WorkerOwnsRow'
    BY <1>1, <2>1, <2>2, <2>3, <2>4 DEF WorkerOwnsRow, Busy, Alive, InRun,
       MyRow
  <2>7. RunningOwned'
    BY <1>1, <2>1, <2>2, <2>3, <2>4 DEF RunningOwned, Busy, Alive, InRun, MyRow
  <2>8. OnlyMine'
    BY <1>1, <2>1, <2>2, <2>3, <2>4 DEF OnlyMine, Busy, Alive, InRun, MyRow
  <2>9. Transitions'
    BY <1>1, <2>1, <2>2, <2>3, <2>4 DEF Transitions, Busy, Alive, InRun, MyRow
  <2>. QED
    BY <2>5, <2>6, <2>7, <2>8, <2>9 DEF ControlInv
<1>. HIDE DEF ControlInv, ShapeInv
<1>. QED
  BY <1>2, <1>3, <1>4, <1>5, <1>6, <1>7, <1>8, <1>9, <1>10, <1>11, <1>12,
     <1>13, <1>14, <1>15, <1>16, <1>17, <1>18, <1>19, <1>20, <1>21, <1>22,
        <1>23, <1>24, <1>25, <1>26, <1>27, <1>28, <1>29, <1>30,
           RecoveryParameters DEF Next, TaskStep, Parameters

\* The step keeps every snapshot, and each row that may have to be resumed has
\* the snapshots it had or snapshots that are kept.
SnapshotsSafe ==
  /\ kept \subseteq kept'
  /\ \A q \in Procs : prior'[q] # 0 =>
       prior'[q] = prior[q] /\ (Busy(q) => Busy(q)')
  /\ \A r \in Runs : row'[r].status \in Resumable \cup {"running"} =>
       \/ /\ row[r].status \in Resumable \cup {"running"}
          /\ row'[r].before = row[r].before
          /\ row'[r].snap \in {0, row[r].snap}
       \/ {row'[r].before, row'[r].snap} \ {0} \subseteq kept'

LEMMA SnapshotsGrow ==
  ASSUME PriorInv, RecoverableHasSnapshots, SnapshotsSafe
  PROVE  PriorInv' /\ RecoverableHasSnapshots'
<1>1. PriorInv'
  BY DEF PriorInv, SnapshotsSafe
<1>2. RecoverableHasSnapshots'
  BY DEF RecoverableHasSnapshots, SnapshotsSafe
<1>. QED
  BY <1>1, <1>2

\* Every step keeps the snapshots that a resume may need.
LEMMA SnapshotStep ==
  ASSUME Inv, ControlInv', Sharing # "any", Next
  PROVE  SnapshotInv'
<1>. USE DEF Inv, SnapshotInv
<1>1. ASSUME NEW p \in Procs, NEW s \in BOOLEAN, Open(p, s) PROVE SnapshotInv'
  <2>1. ASSUME NEW r \in Runs
        PROVE  /\ row'[r].before = row[r].before /\ row'[r].snap = row[r].snap
               /\ row'[r].status = row[r].status \/ row[r].status = "running"
    <3>1. CASE Stale(r)
      BY <1>1, <3>1 DEF Open, Stale, ShapeInv, RowInv, Row
    <3>2. CASE ~Stale(r)
      BY <1>1, <3>2 DEF Open
    <3>. QED
      BY <3>1, <3>2
  <2>2. SnapshotsSafe
    BY <1>1, <2>1 DEF Open, SnapshotsSafe, Busy, ShapeInv, MemoryInv
  <2>. QED
    BY <2>2, SnapshotsGrow
<1>2. ASSUME NEW p \in Procs, Crash(p) PROVE SnapshotInv'
  <2>1. SnapshotsSafe
    BY <1>2 DEF Crash, Forget, durable, SnapshotsSafe, Busy, ShapeInv,
       MemoryInv,
       RowInv, Row, BegunInv, Resumable
  <2>. QED
    BY <2>1, SnapshotsGrow
<1>3. ASSUME NEW p \in Procs, NEW r \in Runs, NEW m \in Modes, Execute(p, r, m)
     PROVE SnapshotInv'
  <2>1. SnapshotsSafe
    BY <1>3 DEF Execute, Capture, NewId, NoRow, AllPending, SnapshotsSafe,
       Busy, ShapeInv, MemoryInv,
       RowInv, Row, BegunInv, Resumable
  <2>. QED
    BY <2>1, SnapshotsGrow
<1>4. ASSUME NEW p \in Procs, PlanReady(p) PROVE SnapshotInv'
  <2>1. SnapshotsSafe
    BY <1>4 DEF PlanReady, Checkpoint, SnapshotsSafe, Busy, ShapeInv,
       MemoryInv,
       RowInv, Row, BegunInv, Resumable
  <2>. QED
    BY <2>1, SnapshotsGrow
<1>5. ASSUME NEW p \in Procs, PlanCancelled(p) PROVE SnapshotInv'
  <2>1. SnapshotsSafe
    BY <1>5 DEF PlanCancelled, Ending, durable, NoSteps, SnapshotsSafe, Busy,
       ShapeInv, MemoryInv,
       RowInv, Row, BegunInv, Resumable
  <2>. QED
    BY <2>1, SnapshotsGrow
<1>6. ASSUME NEW p \in Procs, RunRaises(p) PROVE SnapshotInv'
  <2>1. SnapshotsSafe
    BY <1>6 DEF RunRaises, Ending, durable, AllPending, NoSteps,
       SnapshotsSafe, Busy, ShapeInv, MemoryInv,
       RowInv, Row, BegunInv, Resumable
  <2>. QED
    BY <2>1, SnapshotsGrow
<1>7. ASSUME NEW p \in Procs, ReactEffect(p) PROVE SnapshotInv'
  <2>1. SnapshotsSafe
    BY <1>7 DEF ReactEffect, memory, SnapshotsSafe, Busy, ShapeInv, MemoryInv,
       RowInv, Row, BegunInv, Resumable
  <2>. QED
    BY <2>1, SnapshotsGrow
<1>8. ASSUME NEW p \in Procs, NEW s \in {"succeeded", "stopped", "failed",
   "cancelled"}, ReactEnds(p, s)
     PROVE SnapshotInv'
  <2>1. SnapshotsSafe
    BY <1>8 DEF ReactEnds, Ending, durable, NoSteps, SnapshotsSafe, Busy,
       ShapeInv, MemoryInv,
       RowInv, Row, BegunInv, Resumable
  <2>. QED
    BY <2>1, SnapshotsGrow
<1>9. ASSUME NEW p \in Procs, NEW w \in SUBSET Tasks, PickWave(p, w)
     PROVE SnapshotInv'
  <2>1. SnapshotsSafe
    BY <1>9 DEF PickWave, durable, Waves, Ready, SnapshotsSafe, Busy,
       ShapeInv, MemoryInv,
       RowInv, Row, BegunInv, Resumable
  <2>. QED
    BY <2>1, SnapshotsGrow
<1>10. ASSUME NEW p \in Procs, SkipBlocked(p) PROVE SnapshotInv'
  <2>1. SnapshotsSafe
    BY <1>10 DEF SkipBlocked, durable, SnapshotsSafe, Busy, ShapeInv,
       MemoryInv,
       RowInv, Row, BegunInv, Resumable
  <2>. QED
    BY <2>1, SnapshotsGrow
<1>11. ASSUME NEW p \in Procs, Replan(p) PROVE SnapshotInv'
  <2>1. SnapshotsSafe
    BY <1>11 DEF Replan, durable, SnapshotsSafe, Busy, ShapeInv, MemoryInv,
       RowInv, Row, BegunInv, Resumable
  <2>. QED
    BY <2>1, SnapshotsGrow
<1>12. ASSUME NEW p \in Procs, PlanFinished(p) PROVE SnapshotInv'
  <2>1. SnapshotsSafe
    BY <1>12 DEF PlanFinished, Ending, durable, StatusOf, NoSteps,
       SnapshotsSafe, Busy, ShapeInv, MemoryInv,
       RowInv, Row, BegunInv, Resumable
  <2>. QED
    BY <2>1, SnapshotsGrow
<1>13. ASSUME NEW p \in Procs, NEW t \in Tasks, BeforeTask(p,
   t) PROVE SnapshotInv'
  <2>. DEFINE snap == IF t \in Writes THEN NewId(p) ELSE 0
  <2>1. /\ job[p] \in Runs /\ pc[p] = "wave" /\ kept \subseteq kept'
        /\ snap # 0 => snap \in kept'
    BY <1>13, CaptureType DEF BeforeTask, Busy, ShapeInv, BegunInv
  <2>2. /\ prior' = [prior EXCEPT ![p] = snap] /\ pc' = pc
        /\ Checkpoint(p, plan[p], known[p], t, snap)
    BY <1>13 DEF BeforeTask
  <2>. HIDE DEF snap
  <2>3. row[job[p]].status = "running"
    BY <2>1 DEF ControlInv, WorkerOwnsRow, InRun, MyRow
  <2>4. PriorInv'
    BY <2>1, <2>2 DEF PriorInv, Busy, ShapeInv, MemoryInv
  <2>5. RecoverableHasSnapshots'
    BY <2>1, <2>2, <2>3
    DEF RecoverableHasSnapshots, Checkpoint, ShapeInv, RowInv, Row
  <2>. QED
    BY <2>4, <2>5
<1>14. ASSUME NEW p \in Procs, NEW t \in Tasks, WriteEffect(p,
   t) PROVE SnapshotInv'
  <2>1. SnapshotsSafe
    BY <1>14 DEF WriteEffect, memory, Working, SnapshotsSafe, Busy, ShapeInv,
       MemoryInv,
       RowInv, Row, BegunInv, Resumable
  <2>. QED
    BY <2>1, SnapshotsGrow
<1>15. ASSUME NEW p \in Procs, NEW t \in Tasks, CompleteTask(p,
   t) PROVE SnapshotInv'
  <2>1. SnapshotsSafe
    BY <1>15 DEF CompleteTask, EndTask, Succeeded, LeaveWave, Checkpoint,
       Recorded, SnapshotsSafe, Busy, ShapeInv, MemoryInv,
       RowInv, Row, BegunInv, Resumable
  <2>. QED
    BY <2>1, SnapshotsGrow
<1>16. ASSUME NEW p \in Procs, NEW t \in Tasks, FailTask(p,
   t) PROVE SnapshotInv'
  <2>1. SnapshotsSafe
    BY <1>16 DEF FailTask, EndTask, Failed, Working, LeaveWave, Checkpoint,
       Recorded, SnapshotsSafe, Busy, ShapeInv, MemoryInv,
       RowInv, Row, BegunInv, Resumable
  <2>. QED
    BY <2>1, SnapshotsGrow
<1>17. ASSUME NEW p \in Procs, NEW t \in Tasks, NEW v \in {"approved",
   "retry", "rejected"}, Review(p, t, v)
     PROVE SnapshotInv'
  <2>1. job[p] \in Runs /\ pc[p] = "wave" /\ UNCHANGED <<kept, pc, prior>>
    BY <1>17 DEF Review, Working, Busy, ShapeInv, BegunInv
  <2>2. prior[p] # 0 => prior[p] \in kept
    BY DEF PriorInv
  <2>3. row[job[p]].status = "running"
    BY <2>1 DEF ControlInv, WorkerOwnsRow, InRun, MyRow
  <2>4. SnapshotsSafe
    BY <1>17, <2>1, <2>2, <2>3
    DEF Review, Checkpoint, SnapshotsSafe, Busy, RecoverableHasSnapshots,
        ShapeInv, RowInv, Row
  <2>. QED
    BY <2>4, SnapshotsGrow
<1>18. ASSUME NEW p \in Procs, NEW t \in Tasks, PlanHookRaises(p, t)
     PROVE SnapshotInv'
  <2>1. SnapshotsSafe
    BY <1>18 DEF PlanHookRaises, Ending, durable, Working, Recorded,
       AllPending, NoSteps, SnapshotsSafe, Busy, ShapeInv, MemoryInv,
       RowInv, Row, BegunInv, Resumable
  <2>. QED
    BY <2>1, SnapshotsGrow
<1>19. ASSUME NEW p \in Procs, NEW t \in Tasks, TeamHookRaises(p, t)
     PROVE SnapshotInv'
  <2>1. SnapshotsSafe
    BY <1>19 DEF TeamHookRaises, LeaveWave, durable, Recorded, SnapshotsSafe,
       Busy, ShapeInv, MemoryInv,
       RowInv, Row, BegunInv, Resumable
  <2>. QED
    BY <2>1, SnapshotsGrow
<1>20. ASSUME NEW p \in Procs, RollBack(p) PROVE SnapshotInv'
  <2>1. SnapshotsSafe
    BY <1>20 DEF RollBack, durable, SnapshotsSafe, Busy, ShapeInv, MemoryInv,
       RowInv, Row, BegunInv, Resumable
  <2>. QED
    BY <2>1, SnapshotsGrow
<1>21. ASSUME NEW p \in Procs, KeepWorkspace(p) PROVE SnapshotInv'
  <2>1. SnapshotsSafe
    BY <1>21 DEF KeepWorkspace, durable, SnapshotsSafe, Busy, ShapeInv,
       MemoryInv,
       RowInv, Row, BegunInv, Resumable
  <2>. QED
    BY <2>1, SnapshotsGrow
<1>22. ASSUME NEW p \in Procs, NEW e \in Effects, RestoreFile(p, e)
     PROVE SnapshotInv'
  <2>1. SnapshotsSafe
    BY <1>22 DEF RestoreFile, memory, SnapshotsSafe, Busy, ShapeInv, MemoryInv,
       RowInv, Row, BegunInv, Resumable
  <2>. QED
    BY <2>1, SnapshotsGrow
<1>23. ASSUME NEW p \in Procs, Finish(p) PROVE SnapshotInv'
  <2>1. /\ job[p] \in Runs /\ kept \subseteq kept'
        /\ pc' = [pc EXCEPT ![p] = "pruning"] /\ prior' = prior
    BY <1>23, CaptureType DEF Finish, Busy, ShapeInv, BegunInv
  <2>2. row[job[p]].status = "running"
    BY <1>23 DEF Finish, ControlInv, WorkerOwnsRow, InRun, MyRow
  <2>3. /\ row'[job[p]].before = row[job[p]].before /\ row'[job[p]].snap = 0
        /\ \A r \in Runs : r # job[p] => row'[r] = row[r]
    BY <1>23, <2>1 DEF Finish, ShapeInv, RowInv, Row
  <2>4. SnapshotsSafe
    BY <2>1, <2>2, <2>3 DEF SnapshotsSafe, Busy, ShapeInv, MemoryInv
  <2>. QED
    BY <2>4, SnapshotsGrow
<1>24. ASSUME NEW p \in Procs, Prune(p) PROVE SnapshotInv'
  <2>1. /\ pc[p] = "pruning" /\ row' = row /\ prior' = [prior EXCEPT ![p] = 0]
        /\ pc' = [pc EXCEPT ![p] = "idle"]
    BY <1>24 DEF Prune, Forget
  <2>2. kept' = IF snapping[p] THEN kept \cap Protected(p) ELSE kept
    BY <1>24 DEF Prune
  <2>3. \A q \in Procs : Busy(q) => q = p
    BY <2>1 DEF ControlInv, OneBusy, Busy
  <2>4. \A r \in Runs : row[r].status # "running"
    BY <2>1 DEF ControlInv, OnlyMine, Busy, InRun
  <2>5. PriorInv'
    BY <2>1, <2>3 DEF PriorInv, ShapeInv, MemoryInv
  <2>6. \A r \in Runs : row[r].status \in Resumable =>
          {row[r].before, row[r].snap} \subseteq ResumableSnaps
    BY DEF ResumableSnaps, RowSnaps
  <2>7. RecoverableHasSnapshots'
    BY <2>1, <2>2, <2>4, <2>6 DEF RecoverableHasSnapshots, Protected
  <2>. QED
    BY <2>5, <2>7
<1>25. ASSUME NEW p \in Procs, NEW r \in Runs, ResumeReact(p,
   r) PROVE SnapshotInv'
  <2>1. SnapshotsSafe
    BY <1>25 DEF ResumeReact, Load, durable, AllPending, SnapshotsSafe, Busy,
       ShapeInv, MemoryInv,
       RowInv, Row, BegunInv, Resumable
  <2>. QED
    BY <2>1, SnapshotsGrow
<1>26. ASSUME NEW p \in Procs, NEW r \in Runs, ResumeTask(p,
   r) PROVE SnapshotInv'
  <2>1. SnapshotsSafe
    BY <1>26 DEF ResumeTask, Load, durable, RunningReset, SnapshotsSafe, Busy,
       ShapeInv, MemoryInv,
       RowInv, Row, BegunInv, Resumable
  <2>. QED
    BY <2>1, SnapshotsGrow
<1>27. ASSUME NEW p \in Procs, NEW r \in Runs, ResumeWhole(p,
   r) PROVE SnapshotInv'
  <2>1. SnapshotsSafe
    BY <1>27 DEF ResumeWhole, Load, durable, AllPending, SnapshotsSafe, Busy,
       ShapeInv, MemoryInv,
       RowInv, Row, BegunInv, Resumable
  <2>. QED
    BY <2>1, SnapshotsGrow
<1>28. ASSUME NEW p \in Procs, NEW r \in Runs, ResumeBetweenTasks(p, r)
     PROVE SnapshotInv'
  <2>1. SnapshotsSafe
    BY <1>28 DEF ResumeBetweenTasks, Load, durable, RunningReset,
       SnapshotsSafe, Busy, ShapeInv, MemoryInv,
       RowInv, Row, BegunInv, Resumable
  <2>. QED
    BY <2>1, SnapshotsGrow
<1>29. ASSUME NEW p \in Procs, MarkRunning(p) PROVE SnapshotInv'
  <2>1. /\ job[p] \in Runs /\ pc[p] = "resuming" /\ UNCHANGED <<kept, prior>>
        /\ \E here \in {"react", "planning", "choose"} :
             pc' = [pc EXCEPT ![p] = here]
    BY <1>29 DEF MarkRunning, Busy, ShapeInv, BegunInv
  <2>2. row[job[p]].status \in Resumable
    BY <2>1 DEF ControlInv, Transitions, MyRow
  <2>3. /\ row'[job[p]].before = row[job[p]].before
        /\ row'[job[p]].snap = row[job[p]].snap
        /\ \A r \in Runs : r # job[p] => row'[r] = row[r]
    BY <1>29, <2>1 DEF MarkRunning, ShapeInv, RowInv, Row
  <2>4. SnapshotsSafe
    BY <2>1, <2>2, <2>3 DEF SnapshotsSafe, Busy, ShapeInv, MemoryInv
  <2>. QED
    BY <2>4, SnapshotsGrow
<1>. HIDE DEF Inv, SnapshotInv
<1>. QED
  BY <1>1, <1>2, <1>3, <1>4, <1>5, <1>6, <1>7, <1>8, <1>9, <1>10, <1>11,
     <1>12, <1>13, <1>14, <1>15, <1>16, <1>17, <1>18, <1>19, <1>20, <1>21,
        <1>22, <1>23, <1>24, <1>25, <1>26, <1>27, <1>28, <1>29,
           RecoveryParameters DEF Next, TaskStep, Parameters

-----------------------------------------------------------------------------

LEMMA InitShape ==
  ASSUME Init
  PROVE  ShapeInv
<1>. USE RecoveryParameters DEF Init, Parameters
<1>1. AllPending \in [Tasks -> TaskStatus] /\ NoSteps \in [Tasks -> StepKinds]
  BY DEF AllPending, TaskStatus, NoSteps, StepKinds
<1>2. NoRow \in Row
  BY <1>1, Zenon DEF NoRow, Row
<1>3. RowInv
  BY <1>2 DEF RowInv
<1>4. StoreInv
  BY DEF StoreInv
<1>5. raised \in [Procs -> BOOLEAN] /\ snapping \in [Procs -> BOOLEAN]
  BY Zenon
<1>6. MemoryInv
  BY <1>1, <1>5 DEF MemoryInv, Pcs
<1>7. BegunInv
  BY DEF BegunInv, Busy, NoSteps
<1>. QED
  BY <1>3, <1>4, <1>6, <1>7 DEF ShapeInv

LEMMA InitInv ==
  ASSUME Init
  PROVE  Inv
<1>1. ShapeInv
  BY InitShape
<1>2. \A r \in Runs : row[r].status = "none"
  BY DEF Init, NoRow
<1>3. ControlInv
  BY <1>2 DEF Init, ControlInv, OneBusy, WorkerOwnsRow, RunningOwned, OnlyMine,
              Transitions, Busy, InRun
<1>4. PriorInv
  BY DEF Init, PriorInv
<1>5. RecoverableHasSnapshots
  BY <1>2 DEF RecoverableHasSnapshots, Resumable
<1>. QED
  BY <1>1, <1>3, <1>4, <1>5 DEF Inv, SnapshotInv

\* A step that changes nothing.
LEMMA Stutter ==
  ASSUME UNCHANGED vars
  PROVE  /\ ShapeInv => ShapeInv'
         /\ ControlInv => ControlInv'
         /\ SnapshotInv => SnapshotInv'
<1>. USE DEF vars, durable, memory
<1>1. ShapeInv => ShapeInv'
  BY DEF ShapeInv, RowInv, StoreInv, MemoryInv, BegunInv, Busy
<1>2. ControlInv => ControlInv'
  BY ControlStays
<1>3. SnapshotInv => SnapshotInv'
  BY SnapshotsGrow DEF SnapshotsSafe, SnapshotInv, Busy
<1>. QED
  BY <1>1, <1>2, <1>3

\* Every variable keeps its type: rows stay well formed, every snapshot id names
\* a snapshot that was taken, every record names a task and an attempt.
THEOREM TypeCorrect == Spec => []TypeOK
<1>1. Init => ShapeInv
  BY InitShape
<1>2. ShapeInv /\ [Next]_vars => ShapeInv'
  BY ShapeStep, Stutter
<1>3. ShapeInv => TypeOK
  BY DEF ShapeInv, RowInv, StoreInv, MemoryInv, TypeOK
<1>. QED
  BY <1>1, <1>2, <1>3, PTL DEF Spec

\* The inductive invariant, unless the user starts runs side by side.
THEOREM Invariant ==
  ASSUME Sharing # "any"
  PROVE  Spec => []Inv
<1>1. Init => Inv
  BY InitInv
<1>2. Inv /\ Next => Inv'
  <2>1. Inv /\ Next => ShapeInv' /\ ControlInv'
    BY ShapeStep, ControlStep DEF Inv
  <2>. QED
    BY <2>1, SnapshotStep DEF Inv
<1>3. Inv /\ UNCHANGED vars => Inv'
  BY Stutter DEF Inv
<1>. QED
  BY <1>1, <1>2, <1>3, PTL DEF Spec

\* Whoever works on a run owns its row: opening the project neither interrupts
\* a live run nor lets another process resume it
\* (mark_stale_running_interrupted, StoredRun.resumable).
THEOREM WorkersOwnTheirRows ==
  ASSUME Sharing # "any"
  PROVE  Spec => []WorkerOwnsRow
<1>1. Inv => WorkerOwnsRow
  BY DEF Inv, ControlInv
<1>. QED
  BY <1>1, Invariant, PTL

\* Pruning never takes a snapshot that a resume may restore (prune,
\* resumable_snapshot_ids), whatever the retention.
THEOREM ResumeHasSnapshots ==
  ASSUME Sharing # "any"
  PROVE  Spec => []RecoverableHasSnapshots
<1>1. Inv => RecoverableHasSnapshots
  BY DEF Inv, SnapshotInv
<1>. QED
  BY <1>1, Invariant, PTL

-----------------------------------------------------------------------------
(* What the effects in the workspace are, for one run that is never rolled *)
(* back when it ends.  A workspace is explained by a plan and its records  *)
(* when every writing task the plan counts as completed has an effect      *)
(* there, and every effect there has a record.  The invariant says that    *)
(* the workspace is explained by what the process in charge remembers, and *)
(* each snapshot a resume may restore by what the row says next to it.     *)

Explained(r, thePlan, records, there) ==
  /\ \A t \in Writes : thePlan[t] = "completed" =>
       \E n \in 1..MaxTries : <<r, t, n>> \in there
  /\ \A a \in Attempts : <<r, a[1], a[2]>> \in there => a \in records

\* Nothing of the run is there.
Untouched(r, there) == \A a \in Attempts : <<r, a[1], a[2]>> \notin there

\* The attempts that are under way and may have changed something.
UnderWay(p) ==
  {<<t, attempt[p][t]>> : t \in {u \in wave[p] \cap Writes : step[p][u] = "working"}}

\* A writing task is alone in its wave, has been announced in the row before
\* it works, and has left its effect when it is approved.
TaskPart(p) ==
  /\ wave[p] # {} => pc[p] = "wave"
  /\ \A t \in Tasks : step[p][t] # "todo" => t \in wave[p]
  /\ \A t \in wave[p] \cap Writes :
       /\ wave[p] = {t}
       /\ step[p][t] = "working" => MyRow(p).cur # NoTask
       /\ step[p][t] = "approved" => Present(p, t)

\* What a process has when it does not need it: no failure, no plan, nothing
\* to restore; and what it has when it does, a status to store.
RestPart(p) ==
  /\ pc[p] \in {"ending", "finishing"} => outcome[p] # "none"
  /\ raised[p] => pc[p] \in {"ending", "finishing", "pruning"}
  /\ pc[p] \in {"off", "idle"} => \A t \in Tasks : plan[p][t] # "completed"
  /\ target[p] # 0 => pc[p] = "resuming"

\* A ReAct run has no plan.
ModePart(p) ==
  /\ pc[p] \in {"planning", "choose", "wave"} => Mode(p) # "react"
  /\ pc[p] = "react" => Mode(p) = "react"

WorkPart(p) ==
  /\ pc[p] \in {"planning", "choose", "wave"} =>
       Explained(job[p], plan[p], known[p] \cup UnderWay(p), ws)
  /\ prior[p] # 0 => Explained(job[p], plan[p], known[p], saved[prior[p]])

EndPart(p) ==
  pc[p] \in {"ending", "finishing"} /\ Mode(p) # "react" =>
    /\ ~raised[p] => Explained(job[p], plan[p], known[p], ws)
    /\ raised[p] /\ MyRow(p).planned =>
         Explained(job[p], MyRow(p).plan, known[p], ws)

ResumePart(p) ==
  pc[p] = "resuming" =>
    /\ target[p] = 0 /\ Mode(p) # "react" =>
         Explained(job[p], plan[p], known[p], ws)
    /\ target[p] # 0 =>
         /\ target[p] \in kept
         /\ Explained(job[p], plan[p], known[p], saved[target[p]])
         /\ MyRow(p).planned => MyRow(p).cur # NoTask \/ MyRow(p).snap # 0
    /\ Mode(p) = "react" /\ snapping[p] /\ MyRow(p).before # 0 => target[p] # 0

ProcPart(p) ==
  TaskPart(p) /\ RestPart(p) /\ ModePart(p) /\ WorkPart(p) /\ EndPart(p)
    /\ ResumePart(p)

RowPart(r) ==
  /\ row[r].mode = "react" => ~row[r].planned
  /\ row[r].snap <= lastId /\ row[r].before <= lastId
  /\ row[r].planned /\ row[r].snap \in kept =>
       Explained(r, row[r].plan, row[r].known, saved[row[r].snap])
  /\ row[r].planned /\ row[r].cur = NoTask /\ row[r].snap = 0 =>
       Explained(r, row[r].plan, row[r].known, ws)
  /\ row[r].before \in kept => Untouched(r, saved[row[r].before])
  /\ row[r].status = "none" => Untouched(r, ws)

EffectInv ==
  /\ \A p \in Procs : ProcPart(p)
  /\ \A r \in Runs : RowPart(r)
  /\ \A i \in kept : i <= lastId

\* One run, recovered by any number of processes, whose failures neither roll
\* the workspace back nor strike before a restarted plan is stored.
OneRun ==
  /\ \A r, s \in Runs : r = s
  /\ Sharing # "any" /\ Policy = "never" /\ ~EarlyFaults

-----------------------------------------------------------------------------
LEMMA ExplainedBy ==
  ASSUME NEW r, NEW P, NEW K, NEW W, Explained(r, P, K, W),
         NEW Q, NEW L, \A t \in Writes : Q[t] = "completed" => P[t] = "completed",
         K \subseteq L
  PROVE  Explained(r, Q, L, W)
BY DEF Explained

LEMMA ExplainedUntouched ==
  ASSUME NEW r, NEW W, Untouched(r, W),
         NEW Q, NEW L, \A t \in Writes : Q[t] # "completed"
  PROVE  Explained(r, Q, L, W)
BY DEF Explained, Untouched

LEMMA ExplainedMore ==
  ASSUME NEW r, NEW P, NEW K, NEW W, Explained(r, P, K, W),
         NEW t, NEW n, <<t, n>> \in K
  PROVE  Explained(r, P, K, W \cup {<<r, t, n>>})
<1>1. ASSUME NEW a \in Attempts, <<r, a[1], a[2]>> = <<r, t, n>> PROVE a \in K
  <2>1. a = <<a[1], a[2]>>
    BY DEF Attempts
  <2>. QED
    BY <1>1, <2>1
<1>. QED
  BY <1>1 DEF Explained

LEMMA ExplainedDone ==
  ASSUME NEW r, NEW P \in [Tasks -> TaskStatus], NEW K, NEW W,
         Explained(r, P, K, W), NEW t \in Tasks, NEW s \in TaskStatus,
         s = "completed" /\ t \in Writes =>
           \E n \in 1..MaxTries : <<r, t, n>> \in W
  PROVE  Explained(r, [P EXCEPT ![t] = s], K, W)
BY RecoveryParameters DEF Parameters, Explained

\* A process that is not at work keeps its part while others work.
LEMMA RestingStays ==
  ASSUME MemoryInv, SnapshotInv, NEW q \in Procs, ProcPart(q), ~Busy(q),
         pc'[q] = pc[q], wave'[q] = wave[q], step'[q] = step[q],
         raised'[q] = raised[q], plan'[q] = plan[q], target'[q] = target[q],
         prior'[q] = prior[q]
  PROVE  ProcPart(q)'
<1>1. /\ pc[q] \in {"off", "idle", "dead"}
      /\ prior[q] = 0
  BY DEF Busy, SnapshotInv, PriorInv, MemoryInv
<1>2. TaskPart(q)' /\ RestPart(q)'
  BY <1>1 DEF ProcPart, TaskPart, RestPart
<1>3. ModePart(q)' /\ WorkPart(q)' /\ EndPart(q)' /\ ResumePart(q)'
  BY <1>1 DEF ModePart, WorkPart, EndPart, ResumePart
<1>. QED
  BY <1>2, <1>3 DEF ProcPart

\* What the disk says stays when the disk stays.
LEMMA DiskStays ==
  ASSUME EffectInv, UNCHANGED durable
  PROVE  /\ \A r \in Runs : RowPart(r)'
         /\ \A i \in kept' : i <= lastId'
<1>1. UNCHANGED <<row, kept, saved, lastId, ws>>
  BY DEF durable
<1>. QED
  BY <1>1 DEF EffectInv, RowPart

\* A process that does nothing while the disk stays keeps its part.
LEMMA UntouchedStays ==
  ASSUME NEW q \in Procs, ProcPart(q), UNCHANGED durable,
         pc'[q] = pc[q], snapping'[q] = snapping[q], job'[q] = job[q],
         wave'[q] = wave[q], step'[q] = step[q], attempt'[q] = attempt[q],
         raised'[q] = raised[q], plan'[q] = plan[q], known'[q] = known[q],
         target'[q] = target[q], prior'[q] = prior[q], outcome'[q] = outcome[q]
  PROVE  ProcPart(q)'
<1>1. UNCHANGED <<row, kept, saved, lastId, ws>>
  BY DEF durable
<1>2. TaskPart(q)' /\ RestPart(q)' /\ ModePart(q)'
  BY <1>1 DEF ProcPart, TaskPart, RestPart, ModePart, Mode, MyRow, Present
<1>3. UnderWay(q)' = UnderWay(q)
  BY DEF UnderWay
<1>4. WorkPart(q)' /\ EndPart(q)' /\ ResumePart(q)'
  BY <1>1, <1>3 DEF ProcPart, WorkPart, EndPart, ResumePart, Mode, MyRow
<1>. QED
  BY <1>2, <1>4 DEF ProcPart

\* The run of a process at work is the only one, and no one else is at work.
LEMMA AtWork ==
  ASSUME Inv, OneRun, NEW p \in Procs, Busy(p)
  PROVE  /\ job[p] \in Runs /\ \A r \in Runs : r = job[p]
         /\ row[job[p]] \in Row
         /\ \A q \in Procs \ {p} : ~Busy(q)
<1>1. job[p] \in Runs
  BY DEF Inv, ShapeInv, BegunInv
<1>. QED
  BY <1>1 DEF OneRun, Inv, ShapeInv, RowInv, ControlInv, OneBusy

\* A step of one process that leaves the disk alone, while the others rest.
LEMMA InMemory ==
  ASSUME Inv, EffectInv, OneRun, NEW p \in Procs, Busy(p), UNCHANGED durable,
         \A q \in Procs \ {p} :
           /\ pc'[q] = pc[q] /\ wave'[q] = wave[q] /\ step'[q] = step[q]
           /\ raised'[q] = raised[q] /\ plan'[q] = plan[q]
           /\ target'[q] = target[q] /\ prior'[q] = prior[q],
         ProcPart(p)'
  PROVE  EffectInv'
<1>1. \A q \in Procs \ {p} : ProcPart(q)'
  BY AtWork, RestingStays DEF EffectInv, Inv, ShapeInv
<1>2. \A q \in Procs : ProcPart(q)'
  BY <1>1
<1>. QED
  BY <1>2, DiskStays DEF EffectInv

\* The same when the step writes.
LEMMA OnDisk ==
  ASSUME Inv, EffectInv, OneRun, NEW p \in Procs,
         \A q \in Procs \ {p} : ~Busy(q),
         \A q \in Procs \ {p} :
           /\ pc'[q] = pc[q] /\ wave'[q] = wave[q] /\ step'[q] = step[q]
           /\ raised'[q] = raised[q] /\ plan'[q] = plan[q]
           /\ target'[q] = target[q] /\ prior'[q] = prior[q],
         ProcPart(p)', NEW r \in Runs, RowPart(r)',
         \A i \in kept' : i <= lastId'
  PROVE  EffectInv'
<1>1. \A q \in Procs \ {p} : ProcPart(q)'
  BY RestingStays DEF EffectInv, Inv, ShapeInv
<1>2. \A q \in Procs : ProcPart(q)'
  BY <1>1
<1>3. \A s \in Runs : RowPart(s)'
  BY DEF OneRun
<1>. QED
  BY <1>2, <1>3 DEF EffectInv

\* At most the task in question is under way.
LEMMA UnderWayOne ==
  ASSUME NEW p \in Procs, TaskPart(p), NEW t \in wave[p]
  PROVE  /\ UnderWay(p) \subseteq {<<t, attempt[p][t]>>}
         /\ step[p][t] # "working" => UnderWay(p) = {}
BY DEF TaskPart, UnderWay

LEMMA UnderWayNone ==
  ASSUME NEW p \in Procs, TaskPart(p), pc[p] # "wave"
  PROVE  UnderWay(p) = {}
BY DEF TaskPart, UnderWay

\* Between tasks the workspace is explained by what is recorded.
LEMMA NowExplained ==
  ASSUME NEW p \in Procs, ProcPart(p), pc[p] \in {"planning", "choose"}
  PROVE  Explained(job[p], plan[p], known[p], ws)
<1>1. UnderWay(p) = {}
  BY UnderWayNone DEF ProcPart
<1>2. known[p] \cup UnderWay(p) = known[p]
  BY <1>1
<1>. QED
  BY <1>2 DEF ProcPart, WorkPart

\* Once a task's attempt is recorded, so is every effect.
LEMMA ThenExplained ==
  ASSUME NEW p \in Procs, ProcPart(p), pc[p] = "wave", NEW t \in wave[p],
         NEW K, known[p] \subseteq K,
         step[p][t] = "working" => <<t, attempt[p][t]>> \in K
  PROVE  Explained(job[p], plan[p], K, ws)
<1>1. known[p] \cup UnderWay(p) \subseteq K
  BY UnderWayOne DEF ProcPart
<1>2. Explained(job[p], plan[p], known[p] \cup UnderWay(p), ws)
  BY DEF ProcPart, WorkPart
<1>. QED
  BY <1>1, <1>2, ExplainedBy

\* The mode runtime ends: what remains to be shown is what it leaves.
LEMMA EndingParts ==
  ASSUME MemoryInv, NEW p \in Procs, ProcPart(p), NEW s, s # "none",
         Ending(p, s), target' = target,
         pc[p] \in {"planning", "choose", "wave", "react"}, EndPart(p)'
  PROVE  ProcPart(p)'
<1>1. /\ pc'[p] = "ending" /\ wave'[p] = {} /\ prior'[p] = 0 /\ target'[p] = 0
      /\ step'[p] = NoSteps /\ outcome'[p] = s
  BY DEF Ending, ProcPart, RestPart, MemoryInv
<1>2. TaskPart(p)' /\ RestPart(p)'
  BY <1>1 DEF TaskPart, RestPart, NoSteps
<1>3. ModePart(p)' /\ WorkPart(p)' /\ ResumePart(p)'
  BY <1>1 DEF ModePart, WorkPart, ResumePart
<1>. QED
  BY <1>2, <1>3 DEF ProcPart

LEMMA EffectEndings ==
  ASSUME Inv, EffectInv, OneRun, NEW p \in Procs,
         \/ PlanCancelled(p) \/ RunRaises(p) \/ PlanFinished(p)
         \/ \E s \in {"succeeded", "stopped", "failed", "cancelled"} :
              ReactEnds(p, s)
         \/ \E t \in Tasks : PlanHookRaises(p, t)
  PROVE  EffectInv'
<1>0. MemoryInv /\ ProcPart(p)
  BY DEF Inv, ShapeInv, EffectInv
<1>1. CASE PlanCancelled(p)
  <2>1. Explained(job[p], plan[p], known[p], ws)
    BY <1>0, <1>1, NowExplained DEF PlanCancelled
  <2>2. ~raised[p] /\ Busy(p)
    BY <1>0, <1>1 DEF PlanCancelled, ProcPart, RestPart, Busy
  <2>3. /\ Ending(p, "cancelled") /\ target' = target /\ pc[p] = "planning"
        /\ UNCHANGED <<durable, job, plan, known, raised>>
    BY <1>1 DEF PlanCancelled
  <2>4. EndPart(p)'
    BY <2>1, <2>2, <2>3 DEF EndPart, durable
  <2>5. ProcPart(p)'
    BY <1>0, <2>3, <2>4, EndingParts
  <2>. QED
    BY <2>2, <2>3, <2>5, <1>0, InMemory DEF Ending, MemoryInv
<1>2. CASE RunRaises(p)
  <2>1. Explained(job[p], plan[p], known[p], ws) /\ Busy(p)
    BY <1>0, <1>2, NowExplained DEF RunRaises, Busy
  <2>2. /\ Ending(p, "failed") /\ target' = target /\ MayRaise(p)
        /\ pc[p] \in {"planning", "choose"} /\ raised' = [raised EXCEPT ![p] = TRUE]
        /\ UNCHANGED <<durable, job, known>>
        /\ plan' = [plan EXCEPT ![p] = AllPending]
    BY <1>2 DEF RunRaises
  <2>3. Explained(job[p], MyRow(p).plan, known[p], ws)
    BY <2>1, <2>2, ExplainedBy, RecoveryParameters DEF Parameters, MayRaise, OneRun
  <2>4. raised'[p]
    BY <2>2, <1>0 DEF MemoryInv
  <2>5. EndPart(p)'
    BY <2>2, <2>3, <2>4 DEF EndPart, durable, MyRow
  <2>6. ProcPart(p)'
    BY <1>0, <2>2, <2>5, EndingParts
  <2>. QED
    BY <2>1, <2>2, <2>6, <1>0, InMemory DEF Ending, MemoryInv
<1>3. CASE PlanFinished(p)
  <2>1. Explained(job[p], plan[p], known[p], ws)
    BY <1>0, <1>3, NowExplained DEF PlanFinished
  <2>2. ~raised[p] /\ Busy(p)
    BY <1>0, <1>3 DEF PlanFinished, ProcPart, RestPart, Busy
  <2>3. /\ Ending(p, StatusOf(plan[p])) /\ target' = target /\ pc[p] = "choose"
        /\ UNCHANGED <<durable, job, plan, known, raised>>
    BY <1>3 DEF PlanFinished
  <2>4. EndPart(p)'
    BY <2>1, <2>2, <2>3 DEF EndPart, durable
  <2>5. StatusOf(plan[p]) # "none"
    BY DEF StatusOf
  <2>6. ProcPart(p)'
    BY <1>0, <2>3, <2>4, <2>5, EndingParts
  <2>. QED
    BY <2>2, <2>3, <2>6, <1>0, InMemory DEF Ending, MemoryInv
<1>4. ASSUME NEW s \in {"succeeded", "stopped", "failed", "cancelled"},
             ReactEnds(p, s)
      PROVE  EffectInv'
  <2>1. /\ Ending(p, s) /\ target' = target /\ pc[p] = "react" /\ Busy(p)
        /\ UNCHANGED <<durable, job, plan, known, raised>> /\ s # "none"
    BY <1>4 DEF ReactEnds, Busy
  <2>2. Mode(p)' = "react"
    BY <1>0, <2>1 DEF Mode, MyRow, durable, ProcPart, ModePart
  <2>3. EndPart(p)'
    BY <2>2 DEF EndPart
  <2>4. ProcPart(p)'
    BY <1>0, <2>1, <2>3, EndingParts
  <2>. QED
    BY <2>1, <2>4, <1>0, InMemory DEF Ending, MemoryInv
<1>5. ASSUME NEW t \in Tasks, PlanHookRaises(p, t) PROVE EffectInv'
  <2>1. /\ Ending(p, "failed") /\ target' = target /\ MayRaise(p) /\ Busy(p)
        /\ pc[p] = "wave" /\ raised' = [raised EXCEPT ![p] = TRUE]
        /\ UNCHANGED <<durable, job>> /\ t \in wave[p]
        /\ plan' = [plan EXCEPT ![p] = AllPending]
        /\ \/ step[p][t] = "todo" /\ known' = known
           \/ known' = [known EXCEPT ![p] = Recorded(p, t)]
    BY <1>5 DEF PlanHookRaises, Busy
  <2>2. /\ known[p] \subseteq known'[p]
        /\ step[p][t] = "working" => <<t, attempt[p][t]>> \in known'[p]
    BY <1>0, <2>1 DEF MemoryInv, Recorded
  <2>3. Explained(job[p], plan[p], known'[p], ws)
    BY <1>0, <2>1, <2>2, ThenExplained
  <2>4. Explained(job[p], MyRow(p).plan, known'[p], ws)
    BY <2>1, <2>3, ExplainedBy, RecoveryParameters DEF Parameters, MayRaise, OneRun
  <2>5. raised'[p]
    BY <2>1, <1>0 DEF MemoryInv
  <2>6. EndPart(p)'
    BY <2>1, <2>4, <2>5 DEF EndPart, durable, MyRow
  <2>7. ProcPart(p)'
    BY <1>0, <2>1, <2>6, EndingParts
  <2>8. \A q \in Procs \ {p} : known'[q] = known[q] /\ plan'[q] = plan[q]
    BY <1>0, <2>1 DEF MemoryInv
  <2>. QED
    BY <2>1, <2>7, <2>8, <1>0, InMemory DEF Ending, MemoryInv
<1>. QED
  BY <1>1, <1>2, <1>3, <1>4, <1>5

LEMMA OneMember ==
  ASSUME NEW w \in SUBSET Tasks, NEW t \in w, Cardinality(w) <= 1
  PROVE  w = {t}
<1>1. IsFiniteSet(w)
  BY FS_Subset, RecoveryParameters DEF Parameters
<1>2. Cardinality(w) \in Nat /\ Cardinality(w \ {t}) = Cardinality(w) - 1
  BY <1>1, FS_CardinalityType, FS_RemoveElement
<1>3. IsFiniteSet(w \ {t}) /\ Cardinality(w \ {t}) \in Nat
  BY <1>1, FS_RemoveElement, FS_CardinalityType
<1>4. Cardinality(w \ {t}) = 0
  BY <1>2, <1>3
<1>. QED
  BY <1>3, <1>4, FS_EmptySet

\* Waves, skipped tasks and replaced plans change no task that is completed.
LEMMA EffectChoices ==
  ASSUME Inv, EffectInv, OneRun, NEW p \in Procs,
         \/ \E w \in SUBSET Tasks : PickWave(p, w)
         \/ SkipBlocked(p) \/ Replan(p)
  PROVE  EffectInv'
<1>0. MemoryInv /\ ProcPart(p) /\ pc[p] = "choose" /\ Busy(p)
  BY DEF Inv, ShapeInv, EffectInv, PickWave, SkipBlocked, Replan, Busy
<1>1. /\ Explained(job[p], plan[p], known[p], ws) /\ UnderWay(p) = {}
      /\ wave[p] = {} /\ step[p] = NoSteps
  BY <1>0, NowExplained, UnderWayNone DEF ProcPart, TaskPart, NoSteps, MemoryInv
<1>2. ASSUME NEW w \in SUBSET Tasks, PickWave(p, w) PROVE EffectInv'
  <2>1. /\ w \in Waves(p) /\ pc' = [pc EXCEPT ![p] = "wave"]
        /\ wave' = [wave EXCEPT ![p] = w]
        /\ UNCHANGED <<durable, snapping, job, plan, known, step, attempt, prior,
                       target, outcome, raised>>
    BY <1>2 DEF PickWave
  <2>2. ASSUME NEW t \in w \cap Writes PROVE w = {t}
    <3>1. Cardinality(w) <= 1
      BY <2>1 DEF Waves
    <3>. QED
      BY <3>1, OneMember
  <2>3. pc'[p] = "wave" /\ wave'[p] = w
    BY <1>0, <2>1 DEF MemoryInv
  <2>4. TaskPart(p)'
    BY <1>1, <2>1, <2>2, <2>3 DEF TaskPart, NoSteps
  <2>5. UnderWay(p)' = {}
    BY <1>1, <2>1, <2>3 DEF UnderWay, NoSteps
  <2>6. Explained(job[p], plan[p], known[p] \cup UnderWay(p)', ws)
    BY <1>1, <2>5, ExplainedBy
  <2>7. WorkPart(p)'
    BY <1>0, <2>1, <2>6 DEF WorkPart, ProcPart, durable
  <2>8. RestPart(p)' /\ ModePart(p)' /\ EndPart(p)' /\ ResumePart(p)'
    BY <1>0, <2>1, <2>3 DEF RestPart, ModePart, EndPart, ResumePart, ProcPart,
       durable, Mode, MyRow
  <2>9. ProcPart(p)'
    BY <2>4, <2>7, <2>8 DEF ProcPart
  <2>. QED
    BY <1>0, <2>1, <2>9, InMemory DEF MemoryInv
<1>3. ASSUME NEW new \in [Tasks -> TaskStatus],
             \A t \in Tasks : new[t] = "completed" => plan[p][t] = "completed",
             plan' = [plan EXCEPT ![p] = new],
             UNCHANGED <<durable, pc, snapping, job, known, wave, step, attempt,
                         prior, target, outcome, raised>>
      PROVE  EffectInv'
  <2>1. plan'[p] = new
    BY <1>0, <1>3 DEF MemoryInv
  <2>2. TaskPart(p)' /\ RestPart(p)' /\ ModePart(p)' /\ EndPart(p)' /\ ResumePart(p)'
    BY <1>0, <1>3 DEF TaskPart, RestPart, ModePart, EndPart, ResumePart, ProcPart,
       durable, Mode, MyRow, Present
  <2>3. UnderWay(p)' = {}
    BY <1>1, <1>3 DEF UnderWay
  <2>4. Explained(job[p], new, known[p] \cup UnderWay(p)', ws)
    BY <1>1, <1>3, <2>3, ExplainedBy, RecoveryParameters DEF Parameters
  <2>5. prior[p] # 0 => Explained(job[p], new, known[p], saved[prior[p]])
    BY <1>0, <1>3, ExplainedBy, RecoveryParameters DEF Parameters, ProcPart, WorkPart
  <2>6. WorkPart(p)'
    BY <1>3, <2>1, <2>4, <2>5 DEF WorkPart, durable
  <2>7. ProcPart(p)'
    BY <2>2, <2>6 DEF ProcPart
  <2>. QED
    BY <1>0, <1>3, <2>7, InMemory DEF MemoryInv
<1>4. CASE SkipBlocked(p)
  <2>. DEFINE new == [t \in Tasks |->
                    IF t \in Blocked(p) THEN "skipped" ELSE plan[p][t]]
  <2>1. new \in [Tasks -> TaskStatus]
    BY <1>0 DEF MemoryInv, TaskStatus
  <2>2. \A t \in Tasks : new[t] = "completed" => plan[p][t] = "completed"
    OBVIOUS
  <2>3. /\ plan' = [plan EXCEPT ![p] = new]
        /\ UNCHANGED <<durable, pc, snapping, job, known, wave, step, attempt,
                       prior, target, outcome, raised>>
    BY <1>4 DEF SkipBlocked
  <2>. QED
    BY <2>1, <2>2, <2>3, <1>3
<1>5. CASE Replan(p)
  <2>. DEFINE new == [t \in Tasks |->
                    IF plan[p][t] = "completed" THEN "completed" ELSE "pending"]
  <2>1. new \in [Tasks -> TaskStatus]
    BY <1>0 DEF MemoryInv, TaskStatus
  <2>2. \A t \in Tasks : new[t] = "completed" => plan[p][t] = "completed"
    OBVIOUS
  <2>3. /\ plan' = [plan EXCEPT ![p] = new]
        /\ UNCHANGED <<durable, pc, snapping, job, known, wave, step, attempt,
                       prior, target, outcome, raised>>
    BY <1>5 DEF Replan
  <2>. QED
    BY <2>1, <2>2, <2>3, <1>3
<1>. QED
  BY <1>2, <1>4, <1>5

\* A task leaves its wave with its attempt recorded.
LEMMA LeavingParts ==
  ASSUME MemoryInv, NEW p \in Procs, ProcPart(p), pc[p] = "wave",
         NEW t \in wave[p], LeaveWave(p, t),
         UNCHANGED <<job, target, raised, outcome>>, Mode(p)' # "react",
         Explained(job[p], plan'[p], known'[p], ws'),
         prior'[p] # 0 => Explained(job[p], plan'[p], known'[p], saved'[prior'[p]])
  PROVE  ProcPart(p)'
<1>1. /\ pc'[p] \in {"choose", "wave"} /\ wave'[p] = wave[p] \ {t}
      /\ step'[p] = [step[p] EXCEPT ![t] = "todo"]
      /\ wave[p] = {t} => pc'[p] = "choose"
      /\ wave[p] # {t} => pc'[p] = "wave"
      /\ step[p] \in [Tasks -> StepKinds] /\ wave[p] \subseteq Tasks
  BY DEF LeaveWave, MemoryInv
<1>2. wave'[p] \cap Writes = {}
  BY <1>1 DEF ProcPart, TaskPart
<1>3. \A u \in Tasks : step'[p][u] # "todo" => u \in wave'[p]
  BY <1>1 DEF ProcPart, TaskPart
<1>4. TaskPart(p)'
  BY <1>1, <1>2, <1>3 DEF TaskPart
<1>5. UnderWay(p)' = {}
  BY <1>2 DEF UnderWay
<1>6. Explained(job[p], plan'[p], known'[p] \cup UnderWay(p)', ws')
  BY <1>5, ExplainedBy
<1>7. WorkPart(p)'
  BY <1>6 DEF WorkPart
<1>8. RestPart(p)' /\ ModePart(p)' /\ EndPart(p)' /\ ResumePart(p)'
  BY <1>1 DEF RestPart, ModePart, EndPart, ResumePart, ProcPart
<1>. QED
  BY <1>4, <1>7, <1>8 DEF ProcPart

LEMMA EffectTeamHook ==
  ASSUME Inv, EffectInv, OneRun, NEW p \in Procs, NEW t \in Tasks,
         TeamHookRaises(p, t)
  PROVE  EffectInv'
<1>0. MemoryInv /\ ProcPart(p) /\ pc[p] = "wave" /\ Busy(p) /\ t \in wave[p]
  BY DEF Inv, ShapeInv, EffectInv, TeamHookRaises, Busy
<1>1. /\ LeaveWave(p, t) /\ plan' = [plan EXCEPT ![p][t] = "failed"]
      /\ UNCHANGED <<durable, snapping, job, prior, target, outcome, raised>>
      /\ IF step[p][t] = "working"
         THEN known' = [known EXCEPT ![p] = Recorded(p, t)] ELSE known' = known
  BY DEF TeamHookRaises
<1>2. /\ known[p] \subseteq known'[p]
      /\ step[p][t] = "working" => <<t, attempt[p][t]>> \in known'[p]
      /\ plan'[p] = [plan[p] EXCEPT ![t] = "failed"]
  BY <1>0, <1>1 DEF MemoryInv, Recorded
<1>3. Explained(job[p], plan[p], known'[p], ws)
  BY <1>0, <1>2, ThenExplained
<1>4. \A u \in Writes : plan'[p][u] = "completed" => plan[p][u] = "completed"
  BY <1>0, <1>2, RecoveryParameters DEF Parameters, MemoryInv
<1>5. Explained(job[p], plan'[p], known'[p], ws)
  BY <1>2, <1>3, <1>4, ExplainedBy
<1>6. prior[p] # 0 => Explained(job[p], plan'[p], known'[p], saved[prior[p]])
  BY <1>0, <1>2, <1>4, ExplainedBy DEF ProcPart, WorkPart
<1>7. Mode(p)' # "react"
  BY <1>0, <1>1 DEF Mode, MyRow, durable, ProcPart, ModePart
<1>8. ProcPart(p)'
  BY <1>0, <1>1, <1>5, <1>6, <1>7, LeavingParts DEF durable
<1>9. \A q \in Procs \ {p} : plan'[q] = plan[q]
  BY <1>0, <1>1 DEF MemoryInv
<1>. QED
  BY <1>0, <1>1, <1>8, <1>9, InMemory DEF LeaveWave, MemoryInv

-----------------------------------------------------------------------------
LEMMA CheckpointFields ==
  ASSUME RowInv, NEW p \in Procs, job[p] \in Runs,
         NEW thePlan, NEW records, NEW cur, NEW snap,
         Checkpoint(p, thePlan, records, cur, snap)
  PROVE  LET mine == row'[job[p]]
         IN /\ mine.planned /\ mine.plan = thePlan /\ mine.known = records
            /\ mine.cur = cur /\ mine.snap = snap
            /\ mine.mode = row[job[p]].mode /\ mine.status = row[job[p]].status
            /\ mine.before = row[job[p]].before
<1>1. row[job[p]] \in Row
  BY DEF RowInv
<1>2. row'[job[p]] = [row[job[p]] EXCEPT !.planned = TRUE, !.plan = thePlan,
                        !.known = records, !.cur = cur, !.snap = snap]
  BY DEF RowInv, Checkpoint
<1>. QED
  BY <1>1, <1>2 DEF Row

\* A capture takes nothing from the snapshots there are.
LEMMA CaptureKeeps ==
  ASSUME Inv, EffectInv, NEW p \in Procs, Capture(p)
  PROVE  /\ lastId <= lastId' /\ lastId \in Nat /\ lastId' \in Nat
         /\ \A i \in kept' : i <= lastId'
         /\ \A i \in kept : i \in kept' /\ saved'[i] = saved[i]
         /\ \A i \in kept' : i <= lastId => i \in kept
         /\ NewId(p) # 0 => NewId(p) \in kept' /\ saved'[NewId(p)] = ws
         /\ NewId(p) <= lastId' /\ NewId(p) \in Nat
<1>. USE RecoveryParameters DEF Parameters
<1>1. lastId \in Nat /\ lastId <= MaxSnaps
  BY DEF Inv, ShapeInv, StoreInv
<1>2. CASE snapping[p]
  <2>1. /\ lastId' = lastId + 1 /\ kept' = kept \cup {lastId + 1}
        /\ saved' = [saved EXCEPT ![lastId + 1] = ws] /\ NewId(p) = lastId + 1
        /\ lastId < MaxSnaps
    BY <1>2 DEF Capture, NewId
  <2>2. lastId + 1 \in SnapIds
    BY <1>1, <2>1 DEF SnapIds
  <2>3. \A i \in kept : i <= lastId /\ i \in SnapIds /\ i # lastId + 1 /\ i \in Nat
    BY <1>1 DEF EffectInv, Inv, ShapeInv, StoreInv, SnapIds
  <2>4. saved \in [SnapIds -> SUBSET Effects]
    BY DEF Inv, ShapeInv, StoreInv
  <2>5. saved'[lastId + 1] = ws /\ \A i \in kept : saved'[i] = saved[i]
    BY <2>1, <2>2, <2>3, <2>4
  <2>6. /\ \A i \in kept' : i <= lastId'
        /\ \A i \in kept' : i <= lastId => i \in kept
    BY <1>1, <2>1, <2>3
  <2>. QED
    BY <1>1, <2>1, <2>5, <2>6
<1>3. CASE ~snapping[p]
  <2>1. UNCHANGED <<lastId, kept, saved>> /\ NewId(p) = 0
    BY <1>3 DEF Capture, NewId
  <2>. QED
    BY <1>1, <2>1 DEF EffectInv
<1>. QED
  BY <1>2, <1>3

\* No row names the snapshot 0.
LEMMA ZeroNotKept ==
  ASSUME ShapeInv
  PROVE  0 \notin kept
BY DEF ShapeInv, StoreInv, SnapIds

LEMMA EffectPlanReady ==
  ASSUME Inv, EffectInv, OneRun, NEW p \in Procs, PlanReady(p)
  PROVE  EffectInv'
<1>0. /\ MemoryInv /\ RowInv /\ ProcPart(p) /\ pc[p] = "planning" /\ Busy(p)
      /\ job[p] \in Runs /\ RowPart(job[p]) /\ 0 \notin kept
  BY AtWork, ZeroNotKept DEF Inv, ShapeInv, EffectInv, PlanReady, Busy
<1>1. /\ Explained(job[p], plan[p], known[p], ws) /\ Mode(p) # "react"
      /\ UnderWay(p) = {}
  BY <1>0, NowExplained, UnderWayNone DEF ProcPart, ModePart
<1>2. /\ Checkpoint(p, plan[p], known[p], NoTask, 0)
      /\ pc' = [pc EXCEPT ![p] = "choose"]
      /\ UNCHANGED <<kept, saved, lastId, ws, tries, snapping, job, plan, known,
                     wave, step, attempt, prior, target, outcome, raised, replan>>
  BY DEF PlanReady
<1>3. /\ row'[job[p]].planned /\ row'[job[p]].plan = plan[p]
      /\ row'[job[p]].known = known[p] /\ row'[job[p]].cur = NoTask
      /\ row'[job[p]].snap = 0 /\ row'[job[p]].mode = row[job[p]].mode
      /\ row'[job[p]].status = row[job[p]].status
      /\ row'[job[p]].before = row[job[p]].before
  BY <1>0, <1>2, CheckpointFields
<1>4. lastId \in Nat
  BY DEF Inv, ShapeInv, StoreInv
<1>5. RowPart(job[p])'
  BY <1>0, <1>1, <1>2, <1>3, <1>4 DEF RowPart, Mode, MyRow
<1>6. pc'[p] = "choose"
  BY <1>0, <1>2 DEF MemoryInv
<1>7. wave[p] = {}
  BY <1>0 DEF ProcPart, TaskPart
<1>8. TaskPart(p)' /\ RestPart(p)' /\ ModePart(p)' /\ EndPart(p)' /\ ResumePart(p)'
  BY <1>0, <1>1, <1>2, <1>3, <1>6, <1>7 DEF TaskPart, RestPart, ModePart, EndPart,
     ResumePart, ProcPart, Mode, MyRow
<1>9. UnderWay(p)' = {}
  BY <1>2, <1>7 DEF UnderWay
<1>10. WorkPart(p)'
  BY <1>0, <1>1, <1>2, <1>9, ExplainedBy DEF WorkPart, ProcPart
<1>11. ProcPart(p)'
  BY <1>8, <1>10 DEF ProcPart
<1>12. \A i \in kept' : i <= lastId'
  BY <1>2 DEF EffectInv
<1>. QED
  BY <1>0, <1>2, <1>5, <1>11, <1>12, AtWork, OnDisk DEF MemoryInv

LEMMA EffectEndTask ==
  ASSUME Inv, EffectInv, OneRun, NEW p \in Procs, NEW t \in Tasks,
         NEW s \in {"completed", "failed"}, EndTask(p, t, s), t \in wave[p],
         pc[p] = "wave",
         s = "completed" /\ t \in Writes => Present(p, t) /\ step[p][t] # "todo"
  PROVE  EffectInv'
<1>0. /\ MemoryInv /\ RowInv /\ ProcPart(p) /\ Busy(p)
      /\ job[p] \in Runs /\ RowPart(job[p]) /\ 0 \notin kept
  BY AtWork, ZeroNotKept DEF Inv, ShapeInv, EffectInv, Busy
<1>. DEFINE new == [plan[p] EXCEPT ![t] = s]
            records == Recorded(p, t)
<1>1. /\ Checkpoint(p, new, records, NoTask, 0)
      /\ plan' = [plan EXCEPT ![p][t] = s]
      /\ known' = [known EXCEPT ![p] = records]
      /\ prior' = [prior EXCEPT ![p] = 0]
      /\ LeaveWave(p, t)
      /\ UNCHANGED <<kept, saved, lastId, ws, tries, snapping, job, target, outcome,
                     raised>>
  BY DEF EndTask
<1>2. known[p] \subseteq records /\ <<t, attempt[p][t]>> \in records
  BY DEF Recorded
<1>3. plan'[p] = new /\ known'[p] = records /\ prior'[p] = 0
  BY <1>0, <1>1 DEF MemoryInv
<1>. HIDE DEF records
<1>4. Explained(job[p], plan[p], records, ws)
  BY <1>0, <1>2, ThenExplained
<1>5. s = "completed" /\ t \in Writes => \E n \in 1..MaxTries : <<job[p], t, n>> \in ws
  BY DEF Present, Inv, ShapeInv, BegunInv
<1>6. Explained(job[p], new, records, ws)
  <2>1. plan[p] \in [Tasks -> TaskStatus] /\ s \in TaskStatus
    BY <1>0 DEF MemoryInv, TaskStatus
  <2>. QED
    BY <1>4, <1>5, <2>1, ExplainedDone
<1>. HIDE DEF new
<1>7. /\ row'[job[p]].planned /\ row'[job[p]].plan = new
      /\ row'[job[p]].known = records /\ row'[job[p]].cur = NoTask
      /\ row'[job[p]].snap = 0 /\ row'[job[p]].mode = row[job[p]].mode
      /\ row'[job[p]].status = row[job[p]].status
      /\ row'[job[p]].before = row[job[p]].before
  BY <1>0, <1>1, CheckpointFields
<1>8. lastId \in Nat /\ Mode(p) # "react"
  BY <1>0 DEF Inv, ShapeInv, StoreInv, ProcPart, ModePart
<1>9. RowPart(job[p])'
  BY <1>0, <1>1, <1>6, <1>7, <1>8 DEF RowPart, Mode, MyRow
<1>10. Mode(p)' # "react"
  BY <1>1, <1>7, <1>8 DEF Mode, MyRow
<1>11. ProcPart(p)'
  BY <1>0, <1>1, <1>3, <1>6, <1>10, LeavingParts
<1>12. \A i \in kept' : i <= lastId'
  BY <1>1 DEF EffectInv
<1>13. \A q \in Procs \ {p} : plan'[q] = plan[q]
  BY <1>0, <1>1 DEF MemoryInv
<1>. QED
  BY <1>0, <1>1, <1>9, <1>11, <1>12, <1>13, AtWork, OnDisk DEF MemoryInv, LeaveWave

LEMMA EffectTaskEnds ==
  ASSUME Inv, EffectInv, OneRun, NEW p \in Procs, NEW t \in Tasks,
         CompleteTask(p, t) \/ FailTask(p, t)
  PROVE  EffectInv'
<1>0. ProcPart(p)
  BY DEF EffectInv
<1>1. CASE CompleteTask(p, t)
  <2>1. /\ EndTask(p, t, "completed") /\ t \in wave[p] /\ pc[p] = "wave"
        /\ step[p][t] \in {"approved", "working"}
    BY <1>1 DEF CompleteTask, Succeeded
  <2>2. t \in Writes => Present(p, t)
    BY <1>0, <1>1 DEF CompleteTask, Succeeded, ProcPart, TaskPart
  <2>. QED
    BY <2>1, <2>2, EffectEndTask
<1>2. CASE FailTask(p, t)
  <2>1. EndTask(p, t, "failed") /\ t \in wave[p] /\ pc[p] = "wave"
    BY <1>2 DEF FailTask, Failed, Working
  <2>. QED
    BY <2>1, EffectEndTask
<1>. QED
  BY <1>1, <1>2

\* The verdict is stored with the snapshot taken before the task.
LEMMA EffectReview ==
  ASSUME Inv, EffectInv, OneRun, NEW p \in Procs, NEW t \in Tasks,
         NEW v \in {"approved", "retry", "rejected"}, Review(p, t, v)
  PROVE  EffectInv'
<1>0. /\ MemoryInv /\ RowInv /\ ProcPart(p) /\ Busy(p) /\ pc[p] = "wave"
      /\ job[p] \in Runs /\ RowPart(job[p]) /\ 0 \notin kept /\ t \in wave[p]
      /\ step[p][t] = "working"
  BY AtWork, ZeroNotKept DEF Inv, ShapeInv, EffectInv, Busy, Review, Working
<1>. DEFINE records == Recorded(p, t)
<1>1. /\ Checkpoint(p, plan[p], records, t, prior[p])
      /\ step' = [step EXCEPT ![p][t] = v]
      /\ known' = [known EXCEPT ![p] = records]
      /\ t \in Writes => Present(p, t)
      /\ UNCHANGED <<kept, saved, lastId, ws, tries, pc, snapping, job, plan, wave,
                     attempt, prior, target, outcome, raised, replan>>
  BY DEF Review
<1>2. /\ known[p] \subseteq records /\ <<t, attempt[p][t]>> \in records
      /\ known'[p] = records
  BY <1>0, <1>1 DEF Recorded, MemoryInv
<1>. HIDE DEF records
<1>3. Explained(job[p], plan[p], records, ws)
  BY <1>0, <1>2, ThenExplained
<1>4. prior[p] # 0 => /\ Explained(job[p], plan[p], records, saved[prior[p]])
                      /\ prior[p] \in kept
  BY <1>0, <1>2, ExplainedBy DEF ProcPart, WorkPart, Inv, SnapshotInv, PriorInv
<1>5. lastId \in Nat /\ prior[p] <= lastId
  BY <1>4 DEF EffectInv, Inv, ShapeInv, StoreInv
<1>6. t # NoTask
  BY RecoveryParameters DEF Parameters
<1>7. /\ row'[job[p]].planned /\ row'[job[p]].plan = plan[p]
      /\ row'[job[p]].known = records /\ row'[job[p]].cur = t
      /\ row'[job[p]].snap = prior[p] /\ row'[job[p]].mode = row[job[p]].mode
      /\ row'[job[p]].status = row[job[p]].status
      /\ row'[job[p]].before = row[job[p]].before
  BY <1>0, <1>1, CheckpointFields
<1>8. RowPart(job[p])'
  BY <1>0, <1>1, <1>4, <1>5, <1>6, <1>7 DEF RowPart, ProcPart, ModePart, Mode, MyRow
<1>9. /\ step'[p] = [step[p] EXCEPT ![t] = v] /\ v # "working"
      /\ step[p] \in [Tasks -> StepKinds] /\ wave[p] \subseteq Tasks
  BY <1>0, <1>1 DEF MemoryInv
<1>10. TaskPart(p)'
  <2>1. wave'[p] # {} => pc'[p] = "wave"
    BY <1>0, <1>1
  <2>2. \A u \in Tasks : step'[p][u] # "todo" => u \in wave'[p]
    BY <1>0, <1>1, <1>9 DEF ProcPart, TaskPart
  <2>3. ASSUME NEW u \in wave[p] \cap Writes
        PROVE  wave[p] = {u} /\ u = t
    BY <1>0 DEF ProcPart, TaskPart
  <2>4. Present(p, t)' <=> Present(p, t)
    BY <1>1 DEF Present
  <2>5. step'[p][t] # "working"
    BY <1>9
  <2>6. ASSUME NEW u \in (wave[p] \cap Writes)'
        PROVE  wave'[p] = {u} /\ u = t /\ u \in Writes
    BY <1>1, <2>3
  <2>. QED
    BY <1>1, <2>1, <2>2, <2>4, <2>5, <2>6 DEF TaskPart
<1>11. UnderWay(p)' = {}
  <2>1. ASSUME NEW u \in wave[p] \cap Writes PROVE step'[p][u] # "working"
    BY <1>0, <1>9 DEF ProcPart, TaskPart
  <2>. QED
    BY <1>1, <2>1 DEF UnderWay
<1>12. Explained(job[p], plan[p], records \cup UnderWay(p)', ws)
  BY <1>3, <1>11, ExplainedBy
<1>13. WorkPart(p)'
  BY <1>1, <1>2, <1>4, <1>12 DEF WorkPart
<1>14. RestPart(p)' /\ ModePart(p)' /\ EndPart(p)' /\ ResumePart(p)'
  BY <1>0, <1>1, <1>7 DEF RestPart, ModePart, EndPart, ResumePart, ProcPart,
     Mode, MyRow
<1>15. ProcPart(p)'
  BY <1>10, <1>13, <1>14 DEF ProcPart
<1>16. \A i \in kept' : i <= lastId'
  BY <1>1 DEF EffectInv
<1>17. \A q \in Procs \ {p} : step'[q] = step[q]
  BY <1>0, <1>1 DEF MemoryInv
<1>. QED
  BY <1>0, <1>1, <1>8, <1>15, <1>16, <1>17, AtWork, OnDisk

\* The checkpoint before a task names the snapshot of the workspace as it is.
LEMMA EffectBeforeTask ==
  ASSUME Inv, EffectInv, OneRun, NEW p \in Procs, NEW t \in Tasks,
         BeforeTask(p, t)
  PROVE  EffectInv'
<1>0. /\ MemoryInv /\ RowInv /\ ProcPart(p) /\ Busy(p) /\ pc[p] = "wave"
      /\ job[p] \in Runs /\ RowPart(job[p]) /\ 0 \notin kept /\ t \in wave[p]
      /\ step[p][t] \in {"todo", "retry"}
  BY AtWork, ZeroNotKept DEF Inv, ShapeInv, EffectInv, Busy, BeforeTask
<1>. DEFINE snap == IF t \in Writes THEN NewId(p) ELSE 0
<1>1. /\ prior' = [prior EXCEPT ![p] = snap]
      /\ Checkpoint(p, plan[p], known[p], t, snap)
      /\ plan' = [plan EXCEPT ![p][t] = "running"]
      /\ step' = [step EXCEPT ![p][t] = "working"]
      /\ UNCHANGED <<ws, pc, snapping, job, known, wave, target, outcome, raised,
                     replan>>
      /\ attempt' = [attempt EXCEPT ![p][t] = tries[job[p]] + 1]
  BY DEF BeforeTask
<1>2. /\ lastId <= lastId' /\ lastId \in Nat /\ lastId' \in Nat
      /\ \A i \in kept' : i <= lastId'
      /\ \A i \in kept : i \in kept' /\ saved'[i] = saved[i]
      /\ \A i \in kept' : i <= lastId => i \in kept
      /\ snap # 0 => snap \in kept' /\ saved'[snap] = ws
      /\ snap <= lastId' /\ snap \in Nat
  <2>1. CASE t \in Writes
    <3>1. Capture(p) /\ snap = NewId(p)
      BY <2>1 DEF BeforeTask
    <3>. QED
      BY <3>1, CaptureKeeps
  <2>2. CASE t \notin Writes
    <3>1. UNCHANGED <<lastId, kept, saved>> /\ snap = 0
      BY <2>2 DEF BeforeTask
    <3>. QED
      BY <3>1 DEF EffectInv, Inv, ShapeInv, StoreInv
  <2>. QED
    BY <2>1, <2>2
<1>. HIDE DEF snap
<1>3. Explained(job[p], plan[p], known[p], ws)
  BY <1>0, ThenExplained
<1>4. t # NoTask
  BY RecoveryParameters DEF Parameters
<1>5. /\ row'[job[p]].planned /\ row'[job[p]].plan = plan[p]
      /\ row'[job[p]].known = known[p] /\ row'[job[p]].cur = t
      /\ row'[job[p]].snap = snap /\ row'[job[p]].mode = row[job[p]].mode
      /\ row'[job[p]].status = row[job[p]].status
      /\ row'[job[p]].before = row[job[p]].before
      /\ row[job[p]].before \in Nat
  <2>1. row[job[p]].before \in Nat
    BY <1>0 DEF RowInv, Row, SnapIds
  <2>. QED
    BY <1>0, <1>1, <2>1, CheckpointFields
<1>6. 0 \notin kept'
  BY <1>0, <1>2
<1>7. RowPart(job[p])'
  <2>1. row'[job[p]].mode # "react"
    BY <1>0, <1>5 DEF ProcPart, ModePart, Mode, MyRow
  <2>2. row'[job[p]].snap <= lastId' /\ row'[job[p]].before <= lastId'
    BY <1>0, <1>2, <1>5 DEF RowPart
  <2>3. row'[job[p]].snap \in kept' =>
          Explained(job[p], plan[p], known[p], saved'[row'[job[p]].snap])
    BY <1>2, <1>3, <1>5, <1>6
  <2>4. row'[job[p]].before \in kept' =>
          Untouched(job[p], saved'[row'[job[p]].before])
    BY <1>0, <1>2, <1>5 DEF RowPart
  <2>5. row'[job[p]].status = "none" => Untouched(job[p], ws)
    BY <1>0, <1>5 DEF RowPart
  <2>. QED
    BY <1>1, <1>4, <1>5, <2>1, <2>2, <2>3, <2>4, <2>5 DEF RowPart
<1>8. /\ step'[p] = [step[p] EXCEPT ![t] = "working"]
      /\ step[p] \in [Tasks -> StepKinds] /\ wave[p] \subseteq Tasks
      /\ plan'[p] = [plan[p] EXCEPT ![t] = "running"]
      /\ plan[p] \in [Tasks -> TaskStatus]
      /\ prior'[p] = snap
  BY <1>0, <1>1 DEF MemoryInv
<1>9. TaskPart(p)'
  <2>1. wave'[p] # {} => pc'[p] = "wave"
    BY <1>0, <1>1
  <2>2. \A u \in Tasks : step'[p][u] # "todo" => u \in wave'[p]
    BY <1>0, <1>1, <1>8 DEF ProcPart, TaskPart
  <2>3. ASSUME NEW u \in (wave[p] \cap Writes)'
        PROVE  wave'[p] = {u} /\ u = t /\ u \in Writes
    BY <1>0, <1>1 DEF ProcPart, TaskPart
  <2>4. step'[p][t] = "working" /\ MyRow(p)'.cur # NoTask
    BY <1>1, <1>4, <1>5, <1>8 DEF MyRow
  <2>. QED
    BY <2>1, <2>2, <2>3, <2>4 DEF TaskPart
<1>10. \A u \in Writes : plan'[p][u] = "completed" => plan[p][u] = "completed"
  BY <1>8, RecoveryParameters DEF Parameters
<1>11. /\ Explained(job[p], plan'[p], known[p] \cup UnderWay(p)', ws)
       /\ Explained(job[p], plan'[p], known[p], ws)
  BY <1>3, <1>10, ExplainedBy
<1>12. WorkPart(p)'
  BY <1>1, <1>2, <1>8, <1>11 DEF WorkPart
<1>13. RestPart(p)' /\ ModePart(p)' /\ EndPart(p)' /\ ResumePart(p)'
  BY <1>0, <1>1, <1>5 DEF RestPart, ModePart, EndPart, ResumePart, ProcPart,
     Mode, MyRow
<1>14. ProcPart(p)'
  BY <1>9, <1>12, <1>13 DEF ProcPart
<1>15. \A q \in Procs \ {p} : step'[q] = step[q] /\ plan'[q] = plan[q]
                                /\ prior'[q] = prior[q]
  BY <1>0, <1>1 DEF MemoryInv
<1>. QED
  BY <1>0, <1>1, <1>2, <1>7, <1>14, <1>15, AtWork, OnDisk

\* An effect belongs to the attempt that is under way.
LEMMA EffectWrite ==
  ASSUME Inv, EffectInv, OneRun, NEW p \in Procs, NEW t \in Tasks,
         WriteEffect(p, t)
  PROVE  EffectInv'
<1>0. /\ ProcPart(p) /\ Busy(p) /\ pc[p] = "wave" /\ MyRow(p).status = "running"
      /\ job[p] \in Runs /\ RowPart(job[p]) /\ t \in wave[p] \cap Writes
      /\ step[p][t] = "working"
  BY AtWork DEF Inv, EffectInv, Busy, WriteEffect, Working, ControlInv, WorkerOwnsRow,
     InRun
<1>1. /\ ws' = ws \cup {<<job[p], t, attempt[p][t]>>}
      /\ UNCHANGED <<row, kept, saved, lastId, tries, memory>>
  BY DEF WriteEffect
<1>2. UNCHANGED <<pc, snapping, job, plan, known, wave, step, attempt, prior,
                  target, outcome, raised, replan>>
  BY <1>1 DEF memory
<1>3. MyRow(p).cur # NoTask
  BY <1>0 DEF ProcPart, TaskPart
<1>4. RowPart(job[p])'
  BY <1>0, <1>1, <1>2, <1>3 DEF RowPart, MyRow
<1>5. <<t, attempt[p][t]>> \in known[p] \cup UnderWay(p) /\ UnderWay(p)' = UnderWay(p)
  BY <1>0, <1>2 DEF UnderWay
<1>6. Explained(job[p], plan[p], known[p] \cup UnderWay(p), ws')
  BY <1>0, <1>1, <1>5, ExplainedMore DEF ProcPart, WorkPart
<1>7. WorkPart(p)'
  BY <1>0, <1>1, <1>2, <1>5, <1>6 DEF WorkPart, ProcPart
<1>8. TaskPart(p)' /\ RestPart(p)' /\ ModePart(p)' /\ EndPart(p)' /\ ResumePart(p)'
  BY <1>0, <1>1, <1>2 DEF TaskPart, RestPart, ModePart, EndPart, ResumePart,
     ProcPart, Mode, MyRow, Present
<1>9. ProcPart(p)'
  BY <1>7, <1>8 DEF ProcPart
<1>10. \A i \in kept' : i <= lastId'
  BY <1>1 DEF EffectInv
<1>. QED
  BY <1>0, <1>1, <1>2, <1>4, <1>9, <1>10, AtWork, OnDisk

LEMMA EffectReact ==
  ASSUME Inv, EffectInv, OneRun, NEW p \in Procs, ReactEffect(p)
  PROVE  EffectInv'
<1>0. /\ ProcPart(p) /\ Busy(p) /\ pc[p] = "react" /\ MyRow(p).status = "running"
      /\ job[p] \in Runs /\ RowPart(job[p])
  BY AtWork DEF Inv, EffectInv, Busy, ReactEffect, ControlInv, WorkerOwnsRow, InRun
<1>1. UNCHANGED <<row, kept, saved, lastId, memory>>
  BY DEF ReactEffect
<1>2. UNCHANGED <<pc, snapping, job, plan, known, wave, step, attempt, prior,
                  target, outcome, raised, replan>>
  BY <1>1 DEF memory
<1>3. ~MyRow(p).planned /\ wave[p] = {}
  BY <1>0 DEF ProcPart, ModePart, TaskPart, Mode, MyRow, RowPart
<1>4. RowPart(job[p])'
  BY <1>0, <1>1, <1>2, <1>3 DEF RowPart, MyRow
<1>5. WorkPart(p)'
  BY <1>0, <1>1, <1>2 DEF WorkPart, ProcPart
<1>6. TaskPart(p)' /\ RestPart(p)' /\ ModePart(p)' /\ EndPart(p)' /\ ResumePart(p)'
  BY <1>0, <1>1, <1>2, <1>3 DEF TaskPart, RestPart, ModePart, EndPart, ResumePart,
     ProcPart, Mode, MyRow
<1>7. ProcPart(p)'
  BY <1>5, <1>6 DEF ProcPart
<1>8. \A i \in kept' : i <= lastId'
  BY <1>1 DEF EffectInv
<1>. QED
  BY <1>0, <1>1, <1>2, <1>4, <1>7, <1>8, AtWork, OnDisk

-----------------------------------------------------------------------------
\* While files are restored, what the resume will find is the snapshot.
LEMMA EffectRestore ==
  ASSUME Inv, EffectInv, OneRun, NEW p \in Procs, NEW e \in Effects,
         RestoreFile(p, e)
  PROVE  EffectInv'
<1>0. /\ ProcPart(p) /\ Busy(p) /\ pc[p] = "resuming" /\ target[p] # 0
      /\ job[p] \in Runs /\ RowPart(job[p])
  BY AtWork DEF Inv, EffectInv, Busy, RestoreFile, ProcPart, RestPart
<1>1. UNCHANGED <<row, kept, saved, lastId, memory>>
  BY DEF RestoreFile
<1>2. UNCHANGED <<pc, snapping, job, plan, known, wave, step, attempt, prior,
                  target, outcome, raised, replan>>
  BY <1>1 DEF memory
<1>3. /\ MyRow(p).planned => MyRow(p).cur # NoTask \/ MyRow(p).snap # 0
      /\ MyRow(p).status # "none" /\ wave[p] = {}
  BY <1>0 DEF ProcPart, ResumePart, TaskPart, Inv, ControlInv, Transitions, Resumable
<1>4. RowPart(job[p])'
  BY <1>0, <1>1, <1>2, <1>3 DEF RowPart, MyRow
<1>5. WorkPart(p)' /\ ResumePart(p)'
  BY <1>0, <1>1, <1>2 DEF WorkPart, ResumePart, ProcPart, Mode, MyRow
<1>6. TaskPart(p)' /\ RestPart(p)' /\ ModePart(p)' /\ EndPart(p)'
  BY <1>0, <1>1, <1>2, <1>3 DEF TaskPart, RestPart, ModePart, EndPart, ProcPart,
     Mode, MyRow
<1>7. ProcPart(p)'
  BY <1>5, <1>6 DEF ProcPart
<1>8. \A i \in kept' : i <= lastId'
  BY <1>1 DEF EffectInv
<1>. QED
  BY <1>0, <1>1, <1>2, <1>4, <1>7, <1>8, AtWork, OnDisk

\* A process that dies takes only its memory with it.
LEMMA EffectCrash ==
  ASSUME Inv, EffectInv, NEW p \in Procs, Crash(p)
  PROVE  EffectInv'
<1>0. MemoryInv
  BY DEF Inv, ShapeInv
<1>1. Forget(p, "dead") /\ UNCHANGED durable
      /\ snapping' = [snapping EXCEPT ![p] = FALSE]
  BY DEF Crash
<1>2. /\ pc'[p] = "dead" /\ wave'[p] = {} /\ step'[p] = NoSteps
      /\ raised'[p] = FALSE /\ prior'[p] = 0 /\ target'[p] = 0
  BY <1>0, <1>1 DEF Forget, MemoryInv
<1>3. ProcPart(p)'
  BY <1>2 DEF ProcPart, TaskPart, RestPart, ModePart, WorkPart, EndPart, ResumePart,
     NoSteps
<1>4. ASSUME NEW q \in Procs \ {p} PROVE ProcPart(q)'
  <2>1. ProcPart(q)
    BY DEF EffectInv
  <2>. QED
    BY <1>0, <1>1, <2>1, UntouchedStays DEF Forget, MemoryInv
<1>5. \A q \in Procs : ProcPart(q)'
  BY <1>3, <1>4
<1>. QED
  BY <1>1, <1>5, DiskStays DEF EffectInv

\* Opening the project changes who works on which run, and nothing a resume uses.
LEMMA EffectOpen ==
  ASSUME Inv, EffectInv, NEW p \in Procs, NEW s \in BOOLEAN, Open(p, s)
  PROVE  EffectInv'
<1>0. MemoryInv /\ RowInv
  BY DEF Inv, ShapeInv
<1>1. /\ pc[p] = "off" /\ pc' = [pc EXCEPT ![p] = "idle"]
      /\ snapping' = [snapping EXCEPT ![p] = s]
      /\ UNCHANGED <<kept, saved, lastId, ws, tries, job, plan, known, wave, step,
                     attempt, prior, target, outcome, raised, replan>>
  BY DEF Open
<1>2. ASSUME NEW r \in Runs
      PROVE  /\ row'[r].mode = row[r].mode /\ row'[r].planned = row[r].planned
             /\ row'[r].plan = row[r].plan /\ row'[r].known = row[r].known
             /\ row'[r].cur = row[r].cur /\ row'[r].snap = row[r].snap
             /\ row'[r].before = row[r].before
             /\ row'[r].status = "none" => row[r].status = "none"
  <2>1. row[r] \in Row
    BY <1>0 DEF RowInv
  <2>2. row'[r] = IF Stale(r)
                  THEN [row[r] EXCEPT !.status = "interrupted", !.owner = NoProc]
                  ELSE row[r]
    BY DEF Open
  <2>3. CASE Stale(r)
    BY <2>1, <2>2, <2>3 DEF Row
  <2>4. CASE ~Stale(r)
    BY <2>2, <2>4
  <2>. QED
    BY <2>3, <2>4
<1>3. ASSUME NEW r \in Runs PROVE RowPart(r)'
  <2>1. RowPart(r)
    BY DEF EffectInv
  <2>. QED
    BY <1>1, <1>2, <2>1 DEF RowPart
<1>4. ASSUME NEW q \in Procs \ {p} PROVE ProcPart(q)'
  <2>1. ProcPart(q) /\ pc'[q] = pc[q] /\ snapping'[q] = snapping[q]
    BY <1>0, <1>1 DEF EffectInv, MemoryInv
  <2>2. Busy(q) => job[q] \in Runs
    BY DEF Inv, ShapeInv, BegunInv
  <2>3. CASE Busy(q)
    <3>1. /\ Mode(q)' = Mode(q) /\ MyRow(q)'.cur = MyRow(q).cur
          /\ MyRow(q)'.planned = MyRow(q).planned
          /\ MyRow(q)'.plan = MyRow(q).plan /\ MyRow(q)'.snap = MyRow(q).snap
          /\ MyRow(q)'.before = MyRow(q).before
      BY <1>1, <1>2, <2>2, <2>3 DEF Mode, MyRow
    <3>2. TaskPart(q)'
      BY <1>1, <2>1, <3>1 DEF ProcPart, TaskPart, Present
    <3>3. RestPart(q)' /\ ModePart(q)'
      BY <1>1, <2>1, <3>1 DEF ProcPart, RestPart, ModePart
    <3>4. UnderWay(q)' = UnderWay(q)
      BY <1>1 DEF UnderWay
    <3>5. WorkPart(q)'
      BY <1>1, <2>1, <3>4 DEF ProcPart, WorkPart
    <3>6. EndPart(q)' /\ ResumePart(q)'
      BY <1>1, <2>1, <3>1 DEF ProcPart, EndPart, ResumePart
    <3>. QED
      BY <3>2, <3>3, <3>5, <3>6 DEF ProcPart
  <2>4. CASE ~Busy(q)
    BY <1>0, <1>1, <2>1, <2>4, RestingStays DEF Inv
  <2>. QED
    BY <2>3, <2>4
<1>5. ProcPart(p)'
  <2>1. ProcPart(p) /\ pc'[p] = "idle" /\ ~Busy(p)
    BY <1>0, <1>1 DEF EffectInv, MemoryInv, Busy
  <2>2. prior[p] = 0
    BY <2>1 DEF Inv, SnapshotInv, PriorInv
  <2>3. \A t \in Tasks : plan[p][t] # "completed"
    BY <1>1, <2>1 DEF ProcPart, RestPart
  <2>. QED
    BY <1>1, <2>1, <2>2, <2>3 DEF ProcPart, TaskPart, RestPart, ModePart, WorkPart,
       EndPart, ResumePart
<1>6. \A q \in Procs : ProcPart(q)'
  BY <1>4, <1>5
<1>7. \A i \in kept' : i <= lastId'
  BY <1>1 DEF EffectInv
<1>. QED
  BY <1>3, <1>6, <1>7 DEF EffectInv

\* A new run has changed nothing yet, so its BEFORE snapshot holds none of it.
LEMMA EffectExecute ==
  ASSUME Inv, EffectInv, OneRun, NEW p \in Procs, NEW r \in Runs, NEW m \in Modes,
         Execute(p, r, m)
  PROVE  EffectInv'
<1>0. /\ MemoryInv /\ RowInv /\ ProcPart(p) /\ ~Busy(p) /\ pc[p] = "idle"
      /\ RowPart(r) /\ 0 \notin kept /\ Untouched(r, ws)
      /\ \A q \in Procs : ~Busy(q)
  BY ZeroNotKept, StartsAlone DEF Inv, ShapeInv, EffectInv, Busy, Execute, OneRun,
     RowPart
<1>1. /\ Capture(p)
      /\ row' = [row EXCEPT ![r] = [NoRow EXCEPT !.mode = m, !.status = "running",
                                             !.owner = p, !.before = NewId(p)]]
      /\ pc' = [pc EXCEPT ![p] = IF m = "react" THEN "react" ELSE "planning"]
      /\ job' = [job EXCEPT ![p] = r]
      /\ UNCHANGED <<ws, tries, snapping, plan, known, wave, step, attempt, prior,
                     target, outcome, raised, replan>>
  BY DEF Execute
<1>2. /\ row'[r].mode = m /\ ~row'[r].planned /\ row'[r].snap = 0
      /\ row'[r].before = NewId(p) /\ row'[r].status = "running"
  BY <1>0, <1>1 DEF RowInv, NoRow
<1>3. /\ lastId' \in Nat /\ \A i \in kept' : i <= lastId'
      /\ NewId(p) # 0 => saved'[NewId(p)] = ws
      /\ NewId(p) <= lastId'
  BY <1>1, CaptureKeeps
<1>4. 0 \notin kept'
  <2>1. kept' \subseteq SnapIds
    BY <1>1, CaptureType DEF Inv
  <2>. QED
    BY <2>1 DEF SnapIds
<1>5. RowPart(r)'
  BY <1>0, <1>1, <1>2, <1>3, <1>4 DEF RowPart
<1>6. /\ pc'[p] = (IF m = "react" THEN "react" ELSE "planning") /\ job'[p] = r
      /\ wave[p] = {} /\ prior[p] = 0 /\ ~raised[p] /\ target[p] = 0
      /\ \A t \in Tasks : plan[p][t] # "completed"
  BY <1>0, <1>1 DEF MemoryInv, ProcPart, TaskPart, RestPart, Inv, SnapshotInv, PriorInv
<1>7. Explained(r, plan[p], known[p] \cup UnderWay(p)', ws)
  BY <1>0, <1>6, ExplainedUntouched, RecoveryParameters DEF Parameters
<1>8. TaskPart(p)' /\ RestPart(p)'
  BY <1>0, <1>1, <1>6 DEF TaskPart, RestPart, ProcPart
<1>9. ModePart(p)' /\ WorkPart(p)' /\ EndPart(p)' /\ ResumePart(p)'
  BY <1>1, <1>2, <1>6, <1>7 DEF ModePart, WorkPart, EndPart, ResumePart, Mode, MyRow
<1>10. ProcPart(p)'
  BY <1>8, <1>9 DEF ProcPart
<1>. QED
  BY <1>0, <1>1, <1>3, <1>5, <1>10, OnDisk DEF MemoryInv

\* What a resume loads explains what it restores, or the workspace as it is.
LEMMA EffectLoad ==
  ASSUME Inv, EffectInv, OneRun, NEW p \in Procs, NEW r \in Runs,
         NEW snap \in SnapIds \cup {0}, NEW thePlan \in [Tasks -> TaskStatus],
         NEW records \in SUBSET Attempts, Load(p, r, snap, thePlan, records),
         snap = 0 /\ row[r].mode # "react" => Explained(r, thePlan, records, ws),
         snap # 0 => Explained(r, thePlan, records, saved[snap]),
         snap # 0 =>
           (row[r].planned => row[r].cur # NoTask \/ row[r].snap # 0),
         row[r].mode = "react" /\ snapping[p] /\ row[r].before # 0 => snap # 0
  PROVE  EffectInv'
<1>0. /\ MemoryInv /\ ProcPart(p) /\ pc[p] = "idle"
      /\ \A q \in Procs : ~Busy(q)
  BY StartsAlone DEF Inv, ShapeInv, EffectInv, Load, OneRun
<1>1. /\ snap # 0 => snap \in kept
      /\ pc' = [pc EXCEPT ![p] = "resuming"]
      /\ job' = [job EXCEPT ![p] = r]
      /\ target' = [target EXCEPT ![p] = snap]
      /\ plan' = [plan EXCEPT ![p] = thePlan]
      /\ known' = [known EXCEPT ![p] = records]
      /\ UNCHANGED <<durable, snapping, wave, step, attempt, prior, outcome,
                     raised, replan>>
  BY DEF Load
<1>2. /\ pc'[p] = "resuming" /\ job'[p] = r /\ target'[p] = snap
      /\ plan'[p] = thePlan /\ known'[p] = records
      /\ prior[p] = 0 /\ wave[p] = {} /\ ~raised[p]
  BY <1>0, <1>1 DEF MemoryInv, Inv, SnapshotInv, PriorInv, ProcPart, TaskPart, RestPart
<1>3. UNCHANGED <<row, kept, saved, lastId, ws>>
  BY <1>1 DEF durable
<1>4. TaskPart(p)' /\ RestPart(p)'
  BY <1>0, <1>1, <1>2 DEF TaskPart, RestPart, ProcPart
<1>5. ModePart(p)' /\ WorkPart(p)' /\ EndPart(p)'
  BY <1>1, <1>2 DEF ModePart, WorkPart, EndPart
<1>6. ResumePart(p)'
  BY <1>1, <1>2, <1>3 DEF ResumePart, Mode, MyRow
<1>7. ProcPart(p)'
  BY <1>4, <1>5, <1>6 DEF ProcPart
<1>8. \A i \in kept' : i <= lastId'
  BY <1>3 DEF EffectInv
<1>9. RowPart(r)'
  BY <1>1, DiskStays
<1>. QED
  BY <1>0, <1>1, <1>7, <1>8, <1>9, OnDisk DEF MemoryInv

LEMMA EffectResumes ==
  ASSUME Inv, EffectInv, OneRun, NEW p \in Procs, NEW r \in Runs,
         \/ ResumeReact(p, r) \/ ResumeTask(p, r)
         \/ ResumeWhole(p, r) \/ ResumeBetweenTasks(p, r)
  PROVE  EffectInv'
<1>0. /\ RowPart(r) /\ row[r] \in Row /\ 0 \notin kept
      /\ RunningReset(r) \in [Tasks -> TaskStatus]
      /\ AllPending \in [Tasks -> TaskStatus]
      /\ \A t \in Tasks : RunningReset(r)[t] = "completed"
                            => row[r].plan[t] = "completed"
      /\ \A t \in Tasks : AllPending[t] # "completed"
      /\ Writes \subseteq Tasks
  BY ZeroNotKept, ResetType, RecoveryParameters DEF Parameters, Inv, ShapeInv, RowInv,
     EffectInv, RunningReset, AllPending, TaskStatus
<1>1. /\ row[r].before \in SnapIds \cup {0} /\ row[r].snap \in SnapIds \cup {0}
      /\ row[r].known \in SUBSET Attempts
  BY <1>0 DEF Row
<1>2. row[r].before \in kept =>
        Explained(r, AllPending, {}, saved[row[r].before])
  BY <1>0, ExplainedUntouched DEF RowPart
<1>3. CASE ResumeReact(p, r)
  <2>. DEFINE snap == IF snapping[p] THEN row[r].before ELSE 0
  <2>1. row[r].mode = "react" /\ Load(p, r, snap, AllPending, {})
    BY <1>3 DEF ResumeReact
  <2>2. /\ snap # 0 => snap \in kept /\ snap = row[r].before
        /\ snap \in SnapIds \cup {0} /\ ~row[r].planned
        /\ snapping[p] /\ row[r].before # 0 => snap # 0
    BY <1>0, <1>1, <2>1 DEF Load, RowPart
  <2>. HIDE DEF snap
  <2>. QED
    BY <1>0, <1>2, <2>1, <2>2, EffectLoad
<1>4. CASE ResumeTask(p, r)
  <2>1. /\ row[r].planned /\ row[r].snap # 0
        /\ Load(p, r, row[r].snap, RunningReset(r), row[r].known)
    BY <1>4 DEF ResumeTask
  <2>2. row[r].snap \in kept
    BY <2>1 DEF Load
  <2>3. Explained(r, RunningReset(r), row[r].known, saved[row[r].snap])
    BY <1>0, <2>1, <2>2, ExplainedBy DEF RowPart
  <2>4. row[r].mode # "react"
    BY <1>0, <2>1 DEF RowPart
  <2>. QED
    BY <1>0, <1>1, <2>1, <2>3, <2>4, EffectLoad
<1>5. CASE ResumeWhole(p, r)
  <2>1. /\ row[r].planned /\ row[r].cur # NoTask /\ row[r].before # 0
        /\ Load(p, r, row[r].before, AllPending, {})
    BY <1>5 DEF ResumeWhole
  <2>2. row[r].before \in kept
    BY <2>1 DEF Load
  <2>3. row[r].mode # "react"
    BY <1>0, <2>1 DEF RowPart
  <2>. QED
    BY <1>0, <1>1, <1>2, <2>1, <2>2, <2>3, EffectLoad
<1>6. CASE ResumeBetweenTasks(p, r)
  <2>1. /\ row[r].planned /\ row[r].cur = NoTask /\ row[r].snap = 0
        /\ Load(p, r, 0, RunningReset(r), row[r].known)
    BY <1>6 DEF ResumeBetweenTasks
  <2>2. Explained(r, RunningReset(r), row[r].known, ws)
    BY <1>0, <2>1, ExplainedBy DEF RowPart
  <2>3. row[r].mode # "react"
    BY <1>0, <2>1 DEF RowPart
  <2>. QED
    BY <1>0, <1>1, <2>1, <2>2, <2>3, EffectLoad
<1>. QED
  BY <1>3, <1>4, <1>5, <1>6

\* The resumed run starts on the workspace that was restored.
LEMMA EffectMark ==
  ASSUME Inv, EffectInv, OneRun, NEW p \in Procs, MarkRunning(p)
  PROVE  EffectInv'
<1>0. /\ MemoryInv /\ RowInv /\ ProcPart(p) /\ Busy(p) /\ pc[p] = "resuming"
      /\ job[p] \in Runs /\ RowPart(job[p]) /\ row[job[p]] \in Row
  BY AtWork DEF Inv, ShapeInv, EffectInv, Busy, MarkRunning
<1>1. /\ Restored(p)
      /\ row' = [row EXCEPT ![job[p]] = [@ EXCEPT !.status = "running", !.owner = p]]
      /\ pc' = [pc EXCEPT ![p] = IF Mode(p) = "react" THEN "react"
                               ELSE IF Mode(p) = "team" THEN "planning"
                               ELSE "choose"]
      /\ target' = [target EXCEPT ![p] = 0]
      /\ UNCHANGED <<kept, saved, lastId, ws, tries, snapping, job, plan, known,
                     wave, step, attempt, prior, outcome, raised, replan>>
  BY DEF MarkRunning
<1>2. /\ row'[job[p]].mode = row[job[p]].mode
      /\ row'[job[p]].planned = row[job[p]].planned
      /\ row'[job[p]].plan = row[job[p]].plan
      /\ row'[job[p]].known = row[job[p]].known
      /\ row'[job[p]].cur = row[job[p]].cur /\ row'[job[p]].snap = row[job[p]].snap
      /\ row'[job[p]].before = row[job[p]].before
      /\ row'[job[p]].status = "running"
  BY <1>0, <1>1 DEF RowInv, Row
<1>3. RowPart(job[p])'
  BY <1>0, <1>1, <1>2 DEF RowPart
<1>4. /\ Mode(p)' = Mode(p)
      /\ Mode(p) = "react" => pc'[p] = "react"
      /\ Mode(p) # "react" => pc'[p] \in {"planning", "choose"}
      /\ target'[p] = 0 /\ wave[p] = {} /\ ~raised[p]
  BY <1>0, <1>1, <1>2 DEF MemoryInv, Mode, MyRow, ProcPart, TaskPart, RestPart
<1>5. Mode(p) # "react" => Explained(job[p], plan[p], known[p], ws)
  BY <1>0, <1>1 DEF Restored, ProcPart, ResumePart
<1>6. Mode(p) # "react" => Explained(job[p], plan[p], known[p] \cup UnderWay(p)', ws)
  BY <1>5, ExplainedBy
<1>7. TaskPart(p)' /\ RestPart(p)'
  BY <1>0, <1>1, <1>4 DEF TaskPart, RestPart, ProcPart
<1>8. ModePart(p)' /\ WorkPart(p)' /\ EndPart(p)' /\ ResumePart(p)'
  BY <1>0, <1>1, <1>4, <1>6 DEF ModePart, WorkPart, EndPart, ResumePart, ProcPart
<1>9. ProcPart(p)'
  BY <1>7, <1>8 DEF ProcPart
<1>10. \A i \in kept' : i <= lastId'
  BY <1>1 DEF EffectInv
<1>. QED
  BY <1>0, <1>1, <1>3, <1>9, <1>10, AtWork, OnDisk DEF MemoryInv

\* What a run stores at its end explains the workspace it leaves.
LEMMA EffectFinish ==
  ASSUME Inv, EffectInv, OneRun, NEW p \in Procs, Finish(p)
  PROVE  EffectInv'
<1>0. /\ MemoryInv /\ RowInv /\ ProcPart(p) /\ Busy(p) /\ pc[p] = "finishing"
      /\ job[p] \in Runs /\ RowPart(job[p]) /\ row[job[p]] \in Row
  BY AtWork DEF Inv, ShapeInv, EffectInv, Busy, Finish
<1>1. /\ Capture(p)
      /\ row' = [row EXCEPT ![job[p]] =
                  [@ EXCEPT !.status = outcome[p], !.owner = NoProc,
                            !.planned = MyRow(p).planned
                                          \/ (Mode(p) # "react" /\ ~raised[p]),
                            !.plan = IF raised[p] THEN MyRow(p).plan ELSE plan[p],
                            !.known = known[p], !.cur = NoTask, !.snap = 0,
                            !.after = NewId(p), !.rolledBack = target[p] # 0]]
      /\ pc' = [pc EXCEPT ![p] = "pruning"]
      /\ UNCHANGED <<ws, tries, snapping, job, plan, known, wave, step, attempt,
                     prior, target, outcome, raised, replan>>
  BY DEF Finish
<1>2. /\ row'[job[p]].mode = row[job[p]].mode
      /\ row'[job[p]].planned <=> (row[job[p]].planned
                                     \/ (Mode(p) # "react" /\ ~raised[p]))
      /\ row'[job[p]].plan = IF raised[p] THEN row[job[p]].plan ELSE plan[p]
      /\ row'[job[p]].known = known[p]
      /\ row'[job[p]].snap = 0
      /\ row'[job[p]].before = row[job[p]].before
      /\ row'[job[p]].status = outcome[p]
  BY <1>0, <1>1 DEF RowInv, Row, MyRow
<1>3. /\ lastId <= lastId' /\ lastId \in Nat /\ lastId' \in Nat
      /\ \A i \in kept' : i <= lastId'
      /\ \A i \in kept : i \in kept' /\ saved'[i] = saved[i]
      /\ \A i \in kept' : i <= lastId => i \in kept
  BY <1>1, CaptureKeeps
<1>4. 0 \notin kept' /\ row[job[p]].before \in Nat
  <2>1. kept' \subseteq SnapIds
    BY <1>1, CaptureType DEF Inv
  <2>. QED
    BY <1>0, <2>1 DEF SnapIds, Row
<1>5. row'[job[p]].planned =>
        Explained(job[p], row'[job[p]].plan, known[p], ws)
  <2>1. ASSUME row'[job[p]].planned PROVE Mode(p) # "react"
    BY <1>0, <1>2, <2>1 DEF RowPart, Mode, MyRow
  <2>2. CASE raised[p]
    BY <1>0, <1>2, <2>1, <2>2 DEF ProcPart, EndPart, MyRow
  <2>3. CASE ~raised[p]
    BY <1>0, <1>2, <2>1, <2>3 DEF ProcPart, EndPart
  <2>. QED
    BY <2>2, <2>3
<1>6. RowPart(job[p])'
  <2>1. row'[job[p]].mode = "react" => ~row'[job[p]].planned
    BY <1>0, <1>2 DEF RowPart, Mode, MyRow
  <2>2. row'[job[p]].snap <= lastId' /\ row'[job[p]].before <= lastId'
    BY <1>0, <1>2, <1>3, <1>4 DEF RowPart
  <2>3. row'[job[p]].before \in kept' =>
          Untouched(job[p], saved'[row'[job[p]].before])
    BY <1>0, <1>2, <1>3 DEF RowPart
  <2>4. row'[job[p]].status # "none"
    BY <1>0, <1>2 DEF ProcPart, RestPart
  <2>. QED
    BY <1>1, <1>2, <1>4, <1>5, <2>1, <2>2, <2>3, <2>4 DEF RowPart
<1>7. /\ pc'[p] = "pruning" /\ wave[p] = {} /\ target[p] = 0
      /\ prior[p] # 0 => prior[p] \in kept
  BY <1>0, <1>1 DEF MemoryInv, ProcPart, TaskPart, RestPart, Inv, SnapshotInv, PriorInv
<1>8. TaskPart(p)' /\ RestPart(p)'
  BY <1>0, <1>1, <1>7 DEF TaskPart, RestPart, ProcPart
<1>9. ModePart(p)' /\ EndPart(p)' /\ ResumePart(p)'
  BY <1>7 DEF ModePart, EndPart, ResumePart
<1>10. WorkPart(p)'
  BY <1>0, <1>1, <1>3, <1>7 DEF WorkPart, ProcPart
<1>11. ProcPart(p)'
  BY <1>8, <1>9, <1>10 DEF ProcPart
<1>. QED
  BY <1>0, <1>1, <1>3, <1>6, <1>11, AtWork, OnDisk DEF MemoryInv

\* The snapshots that stay are as they were.
LEMMA EffectPrune ==
  ASSUME Inv, EffectInv, OneRun, NEW p \in Procs, Prune(p)
  PROVE  EffectInv'
<1>0. /\ MemoryInv /\ ProcPart(p) /\ Busy(p) /\ kept \subseteq SnapIds
      /\ job[p] \in Runs /\ RowPart(job[p])
  BY AtWork DEF Inv, ShapeInv, StoreInv, EffectInv, Busy, Prune
<1>. DEFINE stay == IF snapping[p] THEN kept \cap Protected(p) ELSE kept
<1>1. /\ kept' = stay
      /\ saved' = [i \in SnapIds |-> IF i \in stay THEN saved[i] ELSE {}]
      /\ Forget(p, "idle") /\ UNCHANGED <<row, lastId, ws, tries, snapping>>
  BY DEF Prune
<1>2. stay \subseteq kept
  OBVIOUS
<1>. HIDE DEF stay
<1>3. /\ kept' \subseteq kept /\ \A i \in kept' : saved'[i] = saved[i]
      /\ \A i \in kept' : i <= lastId'
  BY <1>0, <1>1, <1>2 DEF EffectInv
<1>4. ASSUME NEW r \in Runs PROVE RowPart(r)'
  <2>1. RowPart(r) /\ UNCHANGED <<row, lastId, ws>>
    BY <1>1 DEF EffectInv
  <2>. QED
    BY <1>3, <2>1 DEF RowPart
<1>5. /\ pc'[p] = "idle" /\ wave'[p] = {} /\ prior'[p] = 0 /\ target'[p] = 0
      /\ step'[p] = NoSteps /\ ~raised'[p] /\ plan'[p] = AllPending
  BY <1>0, <1>1 DEF MemoryInv, Forget
<1>6. TaskPart(p)' /\ RestPart(p)'
  BY <1>5 DEF TaskPart, RestPart, NoSteps, AllPending
<1>7. ModePart(p)' /\ WorkPart(p)' /\ EndPart(p)' /\ ResumePart(p)'
  BY <1>5 DEF ModePart, WorkPart, EndPart, ResumePart
<1>8. ProcPart(p)'
  BY <1>6, <1>7 DEF ProcPart
<1>9. PICK r \in Runs : r = job[p]
  BY <1>0
<1>. QED
  BY <1>0, <1>1, <1>3, <1>4, <1>8, <1>9, AtWork, OnDisk DEF MemoryInv, Forget

\* Nothing is rolled back at the end of a run under this policy.
LEMMA EffectKeep ==
  ASSUME Inv, EffectInv, OneRun, NEW p \in Procs, RollBack(p) \/ KeepWorkspace(p)
  PROVE  EffectInv'
<1>0. /\ MemoryInv /\ ProcPart(p) /\ Busy(p) /\ pc[p] = "ending"
  BY DEF Inv, ShapeInv, EffectInv, Busy, RollBack, KeepWorkspace
<1>1. /\ pc' = [pc EXCEPT ![p] = "finishing"]
      /\ UNCHANGED <<durable, snapping, job, plan, known, wave, step, attempt,
                     prior, target, outcome, raised, replan>>
  BY DEF OneRun, RollBack, MayRollBack, KeepWorkspace
<1>2. pc'[p] = "finishing" /\ UNCHANGED <<row, kept, saved, lastId, ws>>
  BY <1>0, <1>1 DEF MemoryInv, durable
<1>3. TaskPart(p)' /\ RestPart(p)' /\ ModePart(p)' /\ ResumePart(p)'
  BY <1>0, <1>1, <1>2 DEF TaskPart, RestPart, ModePart, ResumePart, ProcPart
<1>4. WorkPart(p)' /\ EndPart(p)'
  BY <1>0, <1>1, <1>2 DEF WorkPart, EndPart, ProcPart, Mode, MyRow
<1>5. ProcPart(p)'
  BY <1>3, <1>4 DEF ProcPart
<1>. QED
  BY <1>0, <1>1, <1>5, InMemory DEF MemoryInv

LEMMA EffectStep ==
  ASSUME Inv, EffectInv, OneRun, Next
  PROVE  EffectInv'
<1>1. PICK p \in Procs :
        \/ \E s \in SnapshotModes : Open(p, s)
        \/ Crash(p)
        \/ \E r \in Runs, m \in Modes : Execute(p, r, m)
        \/ PlanReady(p) \/ PlanCancelled(p) \/ RunRaises(p)
        \/ ReactEffect(p)
        \/ \E s \in {"succeeded", "stopped", "failed", "cancelled"} : ReactEnds(p, s)
        \/ \E w \in SUBSET Tasks : PickWave(p, w)
        \/ SkipBlocked(p) \/ Replan(p) \/ PlanFinished(p)
        \/ \E t \in Tasks : TaskStep(p, t)
        \/ RollBack(p) \/ KeepWorkspace(p)
        \/ \E e \in Effects : RestoreFile(p, e)
        \/ Finish(p) \/ Prune(p)
        \/ \E r \in Runs : \/ ResumeReact(p, r) \/ ResumeTask(p, r)
                           \/ ResumeWhole(p, r) \/ ResumeBetweenTasks(p, r)
        \/ MarkRunning(p)
  BY DEF Next
<1>2. CASE \E s \in SnapshotModes : Open(p, s)
  BY <1>2, EffectOpen, RecoveryParameters DEF Parameters
<1>3. CASE \E r \in Runs, m \in Modes : Execute(p, r, m)
  BY <1>3, EffectExecute
<1>4. CASE Crash(p) \/ PlanReady(p) \/ ReactEffect(p)
  BY <1>4, EffectCrash, EffectPlanReady, EffectReact
<1>5. CASE \/ PlanCancelled(p) \/ RunRaises(p) \/ PlanFinished(p)
           \/ \E s \in {"succeeded", "stopped", "failed", "cancelled"} :
                ReactEnds(p, s)
  BY <1>5, EffectEndings
<1>6. CASE \/ \E w \in SUBSET Tasks : PickWave(p, w)
           \/ SkipBlocked(p) \/ Replan(p)
  BY <1>6, EffectChoices
<1>7. ASSUME NEW t \in Tasks, TaskStep(p, t) PROVE EffectInv'
  BY <1>7, EffectBeforeTask, EffectWrite, EffectTaskEnds, EffectReview, EffectEndings,
     EffectTeamHook DEF TaskStep
<1>8. CASE RollBack(p) \/ KeepWorkspace(p)
  BY <1>8, EffectKeep
<1>9. CASE \E e \in Effects : RestoreFile(p, e)
  BY <1>9, EffectRestore
<1>10. CASE Finish(p) \/ Prune(p) \/ MarkRunning(p)
  BY <1>10, EffectFinish, EffectPrune, EffectMark
<1>11. CASE \E r \in Runs : \/ ResumeReact(p, r) \/ ResumeTask(p, r)
                            \/ ResumeWhole(p, r) \/ ResumeBetweenTasks(p, r)
  BY <1>11, EffectResumes
<1>. QED
  BY <1>1, <1>2, <1>3, <1>4, <1>5, <1>6, <1>7, <1>8, <1>9, <1>10, <1>11

LEMMA EffectStutter ==
  ASSUME EffectInv, UNCHANGED vars
  PROVE  EffectInv'
<1>1. UNCHANGED durable /\ UNCHANGED memory
  BY DEF vars
<1>2. UNCHANGED <<pc, snapping, job, plan, known, wave, step, attempt, prior,
                  target, outcome, raised, replan>>
  BY <1>1 DEF memory
<1>3. \A q \in Procs : ProcPart(q)'
  BY <1>1, <1>2, UntouchedStays DEF EffectInv
<1>. QED
  BY <1>1, <1>3, DiskStays DEF EffectInv

LEMMA EffectInit == Init => EffectInv
<1>. SUFFICES ASSUME Init PROVE EffectInv
  OBVIOUS
<1>1. ASSUME NEW p \in Procs PROVE ProcPart(p)
  BY DEF Init, ProcPart, TaskPart, RestPart, ModePart, WorkPart, EndPart, ResumePart,
     NoSteps, AllPending
<1>2. ASSUME NEW r \in Runs PROVE RowPart(r)
  <2>1. /\ row[r].mode = "react" /\ ~row[r].planned /\ row[r].snap = 0
        /\ row[r].before = 0 /\ kept = {} /\ lastId = 0 /\ ws = {}
    BY DEF Init, NoRow
  <2>. QED
    BY <2>1 DEF RowPart, Untouched
<1>3. kept = {}
  BY DEF Init
<1>. QED
  BY <1>1, <1>2, <1>3 DEF EffectInv

\* The inductive invariant of one run: what a snapshot, the workspace and the
\* memory of the process in charge hold fits together after every step.
THEOREM EffectInvariant ==
  ASSUME OneRun
  PROVE  Spec => [](Inv /\ EffectInv)
<1>0. Sharing # "any"
  BY DEF OneRun
<1>1. Spec => []Inv
  BY <1>0, Invariant
<1>2. Init => EffectInv
  BY EffectInit
<1>3. Inv /\ EffectInv /\ [Next]_vars => EffectInv'
  BY EffectStep, EffectStutter
<1>. QED
  BY <1>1, <1>2, <1>3, PTL DEF Spec

\* What the plan of the process in charge counts as completed is in the
\* workspace, through any series of crashes and resumes of the run.
THEOREM CompletedStay ==
  ASSUME OneRun
  PROVE  Spec => []CompletedEffectsPresent
<1>1. Inv /\ EffectInv => CompletedEffectsPresent
  BY DEF EffectInv, ProcPart, WorkPart, Explained, CompletedEffectsPresent
<1>. QED
  BY <1>1, EffectInvariant, PTL

\* Only before_task starts an attempt, only mark_running restarts a ReAct run.
LEMMA WhoStarts ==
  ASSUME Inv, Next, NEW p \in Procs
  PROVE  /\ StartsReact(p) => MarkRunning(p)
         /\ \A t \in Tasks : Starts(p, t) => BeforeTask(p, t)
<1>. DEFINE Calm == /\ pc'[p] = "react" => pc[p] # "resuming"
                    /\ \A t \in Tasks : step'[p][t] = "working" => step[p][t] = "working"
<1>0. MemoryInv
  BY DEF Inv, ShapeInv
<1>1. ASSUME NEW q \in Procs,
             \/ \E s \in SnapshotModes : Open(q, s)
             \/ \E r \in Runs, m \in Modes : Execute(q, r, m)
             \/ PlanReady(q)
             \/ ReactEffect(q)
             \/ \E w \in SUBSET Tasks : PickWave(q, w)
             \/ SkipBlocked(q) \/ Replan(q)
      PROVE  Calm
  BY <1>0, <1>1 DEF MemoryInv, Open, Execute, PlanReady, ReactEffect, PickWave,
     SkipBlocked, Replan, memory
<1>2. ASSUME NEW q \in Procs, NEW s, Ending(q, s) PROVE Calm
  BY <1>0, <1>2 DEF MemoryInv, Ending, NoSteps
<1>3. ASSUME NEW q \in Procs, NEW t \in Tasks, LeaveWave(q, t) PROVE Calm
  BY <1>0, <1>3 DEF MemoryInv, LeaveWave
<1>4. ASSUME NEW q \in Procs, NEW s \in {"idle", "dead"}, Forget(q, s) PROVE Calm
  BY <1>0, <1>4 DEF MemoryInv, Forget, NoSteps
<1>5. ASSUME NEW q \in Procs,
             \/ PlanCancelled(q) \/ RunRaises(q) \/ PlanFinished(q)
             \/ \E s \in {"succeeded", "stopped", "failed", "cancelled"} :
                  ReactEnds(q, s)
             \/ \E t \in Tasks : PlanHookRaises(q, t)
      PROVE  Calm
  BY <1>2, <1>5 DEF PlanCancelled, RunRaises, PlanFinished, ReactEnds, PlanHookRaises
<1>6. ASSUME NEW q \in Procs, NEW t \in Tasks,
             CompleteTask(q, t) \/ FailTask(q, t) \/ TeamHookRaises(q, t)
      PROVE  Calm
  BY <1>3, <1>6 DEF CompleteTask, FailTask, EndTask, TeamHookRaises
<1>7. ASSUME NEW q \in Procs, NEW t \in Tasks,
             WriteEffect(q, t) \/ \E v \in {"approved", "retry", "rejected"} : Review(q, t, v)
      PROVE  Calm
  <2>1. CASE WriteEffect(q, t)
    BY <1>0, <2>1 DEF MemoryInv, WriteEffect, memory
  <2>2. ASSUME NEW v \in {"approved", "retry", "rejected"}, Review(q, t, v)
        PROVE  Calm
    <3>1. pc' = pc /\ step' = [step EXCEPT ![q][t] = v]
      BY <2>2 DEF Review
    <3>. QED
      BY <1>0, <3>1 DEF MemoryInv
  <2>. QED
    BY <1>7, <2>1, <2>2
<1>8. ASSUME NEW q \in Procs, Crash(q) \/ Prune(q) PROVE Calm
  BY <1>4, <1>8 DEF Crash, Prune
<1>9. ASSUME NEW q \in Procs,
             \/ RollBack(q) \/ KeepWorkspace(q)
             \/ \E e \in Effects : RestoreFile(q, e)
             \/ Finish(q)
      PROVE  Calm
  BY <1>0, <1>9 DEF MemoryInv, RollBack, KeepWorkspace, RestoreFile, Finish, memory
<1>10. ASSUME NEW q \in Procs, NEW r \in Runs,
             \/ ResumeReact(q, r) \/ ResumeTask(q, r)
             \/ ResumeWhole(q, r) \/ ResumeBetweenTasks(q, r)
      PROVE  Calm
  <2>1. pc' = [pc EXCEPT ![q] = "resuming"] /\ step' = step
    BY <1>10 DEF ResumeReact, ResumeTask, ResumeWhole, ResumeBetweenTasks, Load
  <2>. QED
    BY <1>0, <2>1 DEF MemoryInv
<1>11. ASSUME NEW q \in Procs, MarkRunning(q)
      PROVE  /\ StartsReact(p) => MarkRunning(p)
             /\ \A t \in Tasks : Starts(p, t) => BeforeTask(p, t)
  <2>1. step' = step /\ (p # q => pc'[p] = pc[p])
    BY <1>0, <1>11 DEF MemoryInv, MarkRunning
  <2>. QED
    BY <1>11, <2>1 DEF StartsReact, Starts
<1>12. ASSUME NEW q \in Procs, NEW u \in Tasks, BeforeTask(q, u)
      PROVE  /\ StartsReact(p) => MarkRunning(p)
             /\ \A t \in Tasks : Starts(p, t) => BeforeTask(p, t)
  <2>1. pc' = pc /\ step' = [step EXCEPT ![q][u] = "working"]
    BY <1>12 DEF BeforeTask
  <2>2. ASSUME NEW t \in Tasks, Starts(p, t) PROVE p = q /\ t = u
    BY <1>0, <2>1, <2>2 DEF Starts, MemoryInv
  <2>. QED
    BY <1>12, <2>1, <2>2 DEF StartsReact
<1>13. Calm => /\ ~StartsReact(p)
               /\ \A t \in Tasks : ~Starts(p, t)
  BY DEF StartsReact, Starts
<1>. HIDE DEF Calm
<1>. QED
  BY <1>1, <1>5, <1>6, <1>7, <1>8, <1>9, <1>10, <1>11, <1>12, <1>13
     DEF Next, TaskStep

\* When a task attempt starts, or a ReAct prompt starts again from a restored
\* snapshot, every effect of the run that is in the workspace belongs to an
\* attempt whose outcome is recorded: nothing uncertain is built on or repeated
\* (before_task, _prepare_resume).  Nothing is claimed of a ReAct run resumed
\* without a snapshot: _prepare_resume restores nothing for it.
THEOREM NothingUncertain ==
  ASSUME OneRun
  PROVE  Spec => NoUncertainEffect
<1>. DEFINE Certain == \A p \in Procs :
              /\ \A t \in Tasks :
                   Starts(p, t) => OwnEffects(job[p]) \subseteq known[p]
              /\ StartsReact(p) =>
                   RestartsUnrestored(p) \/ OwnEffects(job[p]) \subseteq known[p]
<1>1. ASSUME Inv, NEW r \in Runs, NEW K, NEW P, Explained(r, P, K, ws)
      PROVE  OwnEffects(r) \subseteq K
  <2>1. ASSUME NEW e \in ws, e[1] = r PROVE <<e[2], e[3]>> \in K
    <3>1. e \in Effects
      BY <1>1 DEF Inv, ShapeInv, StoreInv
    <3>2. PICK s \in Runs, a \in Attempts : e = <<s, a[1], a[2]>>
      BY <3>1 DEF Effects
    <3>3. a = <<a[1], a[2]>> /\ s = r
      BY <2>1, <3>2 DEF Attempts
    <3>. QED
      BY <1>1, <3>2, <3>3 DEF Explained
  <2>. QED
    BY <2>1 DEF OwnEffects
<1>2. Inv /\ EffectInv /\ [Next]_vars => [Certain]_vars
  <2>. SUFFICES ASSUME Inv, EffectInv, Next, NEW p \in Procs
                PROVE  /\ \A t \in Tasks :
                            Starts(p, t) => OwnEffects(job[p]) \subseteq known[p]
                       /\ StartsReact(p) =>
                            \/ RestartsUnrestored(p)
                            \/ OwnEffects(job[p]) \subseteq known[p]
    OBVIOUS
  <2>1. ProcPart(p)
    BY DEF EffectInv
  <2>2. ASSUME StartsReact(p), ~RestartsUnrestored(p)
        PROVE  OwnEffects(job[p]) \subseteq known[p]
    <3>1. MarkRunning(p) /\ pc[p] = "resuming" /\ job[p] \in Runs
      BY <2>2, WhoStarts DEF MarkRunning, Inv, ShapeInv, BegunInv, Busy
    <3>2. Mode(p) = "react" /\ snapping[p] /\ MyRow(p).before # 0
      BY <2>2, <3>1 DEF StartsReact, RestartsUnrestored, MarkRunning, Inv, ShapeInv,
         MemoryInv
    <3>3. target[p] # 0 /\ ws = saved[target[p]]
      BY <2>1, <3>1, <3>2 DEF ProcPart, ResumePart, MarkRunning, Restored
    <3>4. Explained(job[p], plan[p], known[p], ws)
      BY <2>1, <3>1, <3>3 DEF ProcPart, ResumePart
    <3>. QED
      BY <1>1, <3>1, <3>4
  <2>3. ASSUME NEW t \in Tasks, Starts(p, t) PROVE OwnEffects(job[p]) \subseteq known[p]
    <3>1. BeforeTask(p, t)
      BY <2>3, WhoStarts
    <3>2. pc[p] = "wave" /\ t \in wave[p] /\ step[p][t] # "working" /\ job[p] \in Runs
      BY <3>1 DEF BeforeTask, Inv, ShapeInv, BegunInv, Busy
    <3>3. Explained(job[p], plan[p], known[p], ws)
      BY <2>1, <3>2, ThenExplained
    <3>. QED
      BY <1>1, <3>2, <3>3
  <2>. QED
    BY <2>2, <2>3
<1>. QED
  BY <1>2, EffectInvariant, PTL DEF Spec, NoUncertainEffect
=============================================================================
