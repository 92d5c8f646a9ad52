---------------------------- MODULE DurableTasks ----------------------------
(***************************************************************************)
(* paicli/runtime.py, DurableTaskManager: background tasks run by a thread *)
(* pool, every status change written to a JSON file under one lock, events *)
(* sent to a listener outside the lock.  The actors are the caller         *)
(* (submit, cancel, close), the pool threads (_run), the listener, and a   *)
(* crash of the process followed by a restart that loads the file.         *)
(*                                                                         *)
(* A critical section takes two steps: the memory is changed when the lock *)
(* is taken, the whole table is written to disk when it is released.  An   *)
(* event also takes two: _emit reads the status, then calls the listener.  *)
(***************************************************************************)
EXTENDS Naturals, Sequences, FiniteSets

CONSTANTS Tasks,       \* the ids submit may create
          MaxWorkers,  \* threads of the pool (max_workers)
          Subscribed,  \* a listener is subscribed (subscribe)
          MaxCrashes,  \* bound: crashes of the process
          MaxFaults    \* bound: failed writes and raising listeners

ASSUME Bounds == /\ MaxWorkers \in Nat \ {0}
                 /\ Subscribed \in BOOLEAN
                 /\ MaxCrashes \in Nat
                 /\ MaxFaults \in Nat

Unfinished == {"queued", "running"}
Terminal   == {"succeeded", "failed", "cancelled"}
TaskStatus == Unfinished \cup Terminal
Emitters   == {"submit", "cancel", "worker"}
Sections   == {"submit", "cancel", "start", "finish"}

VARIABLES
  mode,     \* "up", "closed" (executor shut down) or "down" (crashed)
  status,   \* _tasks in memory, "absent" for an id not in it
  disk,     \* the task table in the JSON store
  token,    \* CancellationToken: cancelled or not
  future,   \* _futures: "none", "pending", "running", "done", "cancelled"
  queue,    \* work queue of the executor
  section,  \* the critical section a task is in, "none" outside the lock
  pc,       \* where the pool thread running _run(task) stands
  outcome,  \* the status _run is about to record
  emit,     \* pending calls of _emit: "none", "due" or the status read
  seen,     \* the statuses the listener received
  issued,   \* history: the ids handed out (a uuid is never handed out twice)
  runs,     \* history: calls of the runner for this task, over all lives
  early,    \* history: tasks cancelled while still queued
  crashes, faults

memory == <<status, token, future, queue, section, pc, outcome, emit>>
vars   == <<mode, memory, disk, seen, issued, runs, early, crashes, faults>>

-----------------------------------------------------------------------------
NoEmit == [e \in Emitters |-> "none"]

Init ==
  /\ mode = "up"
  /\ status = [t \in Tasks |-> "absent"]
  /\ disk = [t \in Tasks |-> "absent"]
  /\ token = [t \in Tasks |-> FALSE]
  /\ future = [t \in Tasks |-> "none"]
  /\ queue = <<>>
  /\ section = [t \in Tasks |-> "none"]
  /\ pc = [t \in Tasks |-> "idle"]
  /\ outcome = [t \in Tasks |-> "failed"]
  /\ emit = [t \in Tasks |-> NoEmit]
  /\ seen = [t \in Tasks |-> {}]
  /\ issued = {}
  /\ runs = [t \in Tasks |-> 0]
  /\ early = {}
  /\ crashes = 0
  /\ faults = 0

Busy == {t \in Tasks : pc[t] # "idle"}

LockFree == \A t \in Tasks : section[t] = "none"

Enter(t, s) == LockFree /\ section' = [section EXCEPT ![t] = s]
Leave(t) == section' = [section EXCEPT ![t] = "none"]

\* Mutant: the table is not written before the lock is released.
LeaveWithoutWrite(t) == disk' = disk /\ Leave(t)

\* _persist: the whole table replaces the file in one rename.
PersistAndLeave(t) == disk' = status /\ Leave(t)

-----------------------------------------------------------------------------
(* submit(): the task enters the table, the table is written, the work     *)
(* item is queued.  After close() the executor refuses the item: the task  *)
(* stays in the table, queued, and the caller gets a RuntimeError.         *)
Submit(t) ==
  /\ mode # "down" /\ t \notin issued
  /\ issued' = issued \cup {t}
  /\ status' = [status EXCEPT ![t] = "queued"]
  /\ Enter(t, "submit")
  /\ UNCHANGED <<mode, token, future, queue, pc, outcome, emit>>
  /\ UNCHANGED <<disk, seen, runs, early, crashes, faults>>

\* Mutant: an item submitted while another one waits is lost.
SubmitPersistLosesItem(t) ==
  /\ section[t] = "submit" /\ mode = "up"
  /\ PersistAndLeave(t)
  /\ future' = [future EXCEPT ![t] = "pending"]
  /\ queue' = IF queue = <<>> THEN <<t>> ELSE queue
  /\ emit' = [emit EXCEPT ![t]["submit"] = "due"]
  /\ UNCHANGED <<mode, status, token, pc, outcome>>
  /\ UNCHANGED <<issued, seen, runs, early, crashes, faults>>

SubmitPersist(t) ==
  /\ section[t] = "submit" /\ mode = "up"
  /\ PersistAndLeave(t)
  /\ future' = [future EXCEPT ![t] = "pending"]
  /\ queue' = Append(queue, t)
  /\ emit' = [emit EXCEPT ![t]["submit"] = "due"]
  /\ UNCHANGED <<mode, status, token, pc, outcome>>
  /\ UNCHANGED <<issued, seen, runs, early, crashes, faults>>

SubmitRefused(t) ==
  /\ section[t] = "submit" /\ mode = "closed"
  /\ PersistAndLeave(t)
  /\ UNCHANGED <<mode, status, token, future, queue, pc, outcome, emit>>
  /\ UNCHANGED <<issued, seen, runs, early, crashes, faults>>

(* cancel(): an unfinished task is recorded as cancelled at once; a work   *)
(* item no thread has taken is cancelled with it.                          *)
CancelFuture(t) ==
  future' = IF future[t] = "pending"
            THEN [future EXCEPT ![t] = "cancelled"] ELSE future

Cancel(t) ==
  /\ mode # "down" /\ status[t] \in Unfinished
  /\ token' = [token EXCEPT ![t] = TRUE]
  /\ CancelFuture(t)
  /\ status' = [status EXCEPT ![t] = "cancelled"]
  /\ early' = IF status[t] = "queued" THEN early \cup {t} ELSE early
  /\ Enter(t, "cancel")
  /\ UNCHANGED <<mode, queue, pc, outcome, emit, disk, seen, runs>>
  /\ UNCHANGED <<issued, crashes, faults>>

\* Mutant: cancel does not announce the new status.
CancelPersistSilently(t) ==
  /\ section[t] = "cancel"
  /\ PersistAndLeave(t)
  /\ UNCHANGED <<mode, status, token, future, queue, pc, outcome, emit>>
  /\ UNCHANGED <<issued, seen, runs, early, crashes, faults>>

CancelPersist(t) ==
  /\ section[t] = "cancel"
  /\ PersistAndLeave(t)
  /\ emit' = [emit EXCEPT ![t]["cancel"] = "due"]
  /\ UNCHANGED <<mode, status, token, future, queue, pc, outcome>>
  /\ UNCHANGED <<issued, seen, runs, early, crashes, faults>>

\* close(): shutdown(wait=True, cancel_futures=True); no status changes.
Close ==
  /\ mode = "up"
  /\ mode' = "closed"
  /\ queue' = <<>>
  /\ future' = [t \in Tasks |->
                  IF future[t] = "pending" THEN "cancelled" ELSE future[t]]
  /\ UNCHANGED <<status, token, section, pc, outcome, emit, disk, seen, runs>>
  /\ UNCHANGED <<issued, early, crashes, faults>>

-----------------------------------------------------------------------------
(* A pool thread takes the next work item; one whose future is cancelled   *)
(* is dropped.                                                             *)
NextItem(t) ==
  /\ queue # <<>> /\ t = Head(queue)
  /\ Cardinality(Busy) < MaxWorkers
  /\ queue' = Tail(queue)
  /\ UNCHANGED <<mode, status, token, section, outcome, emit, disk, seen>>
  /\ UNCHANGED <<issued, runs, early, crashes, faults>>

DropItem(t) ==
  /\ NextItem(t)
  /\ future[t] = "cancelled"
  /\ UNCHANGED <<future, pc>>

TakeItem(t) ==
  /\ NextItem(t)
  /\ future[t] # "cancelled"
  /\ future' = [future EXCEPT ![t] = "running"]
  /\ pc' = [pc EXCEPT ![t] = "called"]

\* Mutant: _run does not look at the status before it starts.
StartRegardless(t) ==
  /\ pc[t] = "called"
  /\ status' = [status EXCEPT ![t] = "running"]
  /\ Enter(t, "start")
  /\ UNCHANGED <<mode, token, future, queue, pc, outcome, emit, disk, seen>>
  /\ UNCHANGED <<issued, runs, early, crashes, faults>>

\* _run, first critical section: a task cancelled meanwhile is not started.
Start(t) ==
  /\ pc[t] = "called" /\ status[t] # "cancelled"
  /\ status' = [status EXCEPT ![t] = "running"]
  /\ Enter(t, "start")
  /\ UNCHANGED <<mode, token, future, queue, pc, outcome, emit, disk, seen>>
  /\ UNCHANGED <<issued, runs, early, crashes, faults>>

\* The pool thread leaves _run, by a return or an exception.
EndOfRun(t) ==
  /\ pc' = [pc EXCEPT ![t] = "idle"]
  /\ future' = [future EXCEPT ![t] = "done"]

SkipCancelled(t) ==
  /\ pc[t] = "called" /\ LockFree /\ status[t] = "cancelled"
  /\ EndOfRun(t)
  /\ UNCHANGED <<mode, status, token, queue, section, outcome, emit, disk>>
  /\ UNCHANGED <<issued, seen, runs, early, crashes, faults>>

StartPersist(t) ==
  /\ section[t] = "start"
  /\ PersistAndLeave(t)
  /\ pc' = [pc EXCEPT ![t] = "announce"]
  /\ emit' = [emit EXCEPT ![t]["worker"] = "due"]
  /\ UNCHANGED <<mode, status, token, future, queue, outcome>>
  /\ UNCHANGED <<issued, seen, runs, early, crashes, faults>>

(* The runner returns, raises CancelledError at a checkpoint of its own,   *)
(* or raises anything else.                                                *)
Decide(t, result) ==
  /\ outcome' = [outcome EXCEPT ![t] = result]
  /\ pc' = [pc EXCEPT ![t] = "decided"]
  /\ UNCHANGED <<mode, status, token, future, queue, section, emit, disk>>
  /\ UNCHANGED <<issued, seen, runs, early, crashes, faults>>

RunnerReturns(t) ==
  /\ pc[t] = "runner"
  /\ pc' = [pc EXCEPT ![t] = "returned"]
  /\ UNCHANGED <<mode, status, token, future, queue, section, outcome, emit>>
  /\ UNCHANGED <<issued, disk, seen, runs, early, crashes, faults>>

RunnerCancelled(t) == pc[t] = "runner" /\ token[t] /\ Decide(t, "cancelled")

RunnerRaises(t) == pc[t] = "runner" /\ Decide(t, "failed")

\* Mutant: an unfinished status is recorded as the outcome.
CheckTokenKeepsStatus(t) ==
  /\ pc[t] = "returned"
  /\ Decide(t, IF token[t] THEN "cancelled" ELSE status[t])

\* The last token.check(), made without the lock.
CheckToken(t) ==
  /\ pc[t] = "returned"
  /\ Decide(t, IF token[t] THEN "cancelled" ELSE "succeeded")

\* _run, second critical section: the outcome is written unconditionally.
Finish(t) ==
  /\ pc[t] = "decided"
  /\ status' = [status EXCEPT ![t] = outcome[t]]
  /\ Enter(t, "finish")
  /\ UNCHANGED <<mode, token, future, queue, pc, outcome, emit, disk, seen>>
  /\ UNCHANGED <<issued, runs, early, crashes, faults>>

FinishPersist(t) ==
  /\ section[t] = "finish"
  /\ PersistAndLeave(t)
  /\ pc' = [pc EXCEPT ![t] = "report"]
  /\ emit' = [emit EXCEPT ![t]["worker"] = "due"]
  /\ UNCHANGED <<mode, status, token, future, queue, outcome>>
  /\ UNCHANGED <<issued, seen, runs, early, crashes, faults>>

-----------------------------------------------------------------------------
\* _emit reads the status of the shared task object without the lock.
BuildEvent(t, e) ==
  /\ emit[t][e] = "due"
  /\ emit' = [emit EXCEPT ![t][e] = status[t]]
  /\ UNCHANGED <<mode, status, token, future, queue, section, pc, outcome>>
  /\ UNCHANGED <<issued, disk, seen, runs, early, crashes, faults>>

\* The listener is called with the event.
Receive(t, e) ==
  /\ emit[t][e] \in TaskStatus
  /\ seen' = IF Subscribed THEN [seen EXCEPT ![t] = @ \cup {emit[t][e]}]
                           ELSE seen
  /\ emit' = [emit EXCEPT ![t][e] = "none"]
  /\ UNCHANGED <<mode, status, token, queue, section, outcome, disk>>
  /\ UNCHANGED <<issued, early, crashes, faults>>

Deliver(t, e) ==
  /\ e # "worker"
  /\ Receive(t, e)
  /\ UNCHANGED <<pc, runs, future>>

\* After the first event _run calls the runner, after the second it returns.
CallRunner(t) ==
  /\ pc[t] = "announce"
  /\ Receive(t, "worker")
  /\ pc' = [pc EXCEPT ![t] = "runner"]
  /\ runs' = [runs EXCEPT ![t] = @ + 1]
  /\ UNCHANGED future

Return(t) ==
  /\ pc[t] = "report"
  /\ Receive(t, "worker")
  /\ EndOfRun(t)
  /\ UNCHANGED runs

(* The listener raises: the exception leaves submit or cancel, or _run.    *)
Raise(t, e) ==
  /\ Subscribed /\ faults < MaxFaults
  /\ emit[t][e] \in TaskStatus
  /\ emit' = [emit EXCEPT ![t][e] = "none"]
  /\ faults' = faults + 1
  /\ UNCHANGED <<mode, status, token, queue, section, outcome, disk, seen>>
  /\ UNCHANGED <<issued, runs, early, crashes>>

ListenerRaises(t, e) == e # "worker" /\ Raise(t, e) /\ UNCHANGED <<pc, future>>

ListenerEndsRun(t) == Raise(t, "worker") /\ EndOfRun(t)

(* _persist raises: the lock is released, the memory keeps the change, and *)
(* the exception leaves submit or cancel, or _run.                         *)
WriteFails(t) ==
  /\ faults < MaxFaults
  /\ Leave(t)
  /\ faults' = faults + 1
  /\ UNCHANGED <<mode, status, token, queue, outcome, emit, disk, seen, runs>>
  /\ UNCHANGED <<issued, early, crashes>>

PersistFails(t) ==
  section[t] \in {"submit", "cancel"} /\ WriteFails(t) /\ UNCHANGED <<pc, future>>

PersistEndsRun(t) ==
  section[t] \in {"start", "finish"} /\ WriteFails(t) /\ EndOfRun(t)

-----------------------------------------------------------------------------
Crash ==
  /\ mode # "down" /\ crashes < MaxCrashes
  /\ mode' = "down"
  /\ crashes' = crashes + 1
  /\ status' = [t \in Tasks |-> "absent"]
  /\ token' = [t \in Tasks |-> FALSE]
  /\ future' = [t \in Tasks |-> "none"]
  /\ queue' = <<>>
  /\ section' = [t \in Tasks |-> "none"]
  /\ pc' = [t \in Tasks |-> "idle"]
  /\ outcome' = [t \in Tasks |-> "failed"]
  /\ emit' = [t \in Tasks |-> NoEmit]
  /\ UNCHANGED <<issued, disk, seen, runs, early, faults>>

\* _load: what was unfinished is failed, in memory only, and not retried.
Loaded(s) == IF s \in Unfinished THEN "failed" ELSE s

\* Mutant: unfinished tasks are submitted again.
RestartRetries ==
  /\ mode = "down"
  /\ mode' = "up"
  /\ status' = [t \in Tasks |->
                  IF disk[t] \in Unfinished THEN "queued" ELSE disk[t]]
  /\ \E t \in Tasks : /\ disk[t] \in Unfinished
                      /\ queue' = <<t>>
                      /\ future' = [future EXCEPT ![t] = "pending"]
  /\ UNCHANGED <<token, section, pc, outcome, emit, disk, seen>>
  /\ UNCHANGED <<issued, runs, early, crashes, faults>>

\* Mutant: the table starts empty, so the next write drops what was stored.
RestartEmpty ==
  /\ mode = "down"
  /\ mode' = "up"
  /\ UNCHANGED <<memory, disk, seen, issued, runs, early, crashes, faults>>

Restart ==
  /\ mode = "down"
  /\ mode' = "up"
  /\ status' = [t \in Tasks |-> Loaded(disk[t])]
  /\ UNCHANGED <<token, future, queue, section, pc, outcome, emit, disk, seen>>
  /\ UNCHANGED <<issued, runs, early, crashes, faults>>

-----------------------------------------------------------------------------
Worker(t) ==
  \/ DropItem(t) \/ TakeItem(t)
  \/ SkipCancelled(t) \/ Start(t) \/ StartPersist(t) \/ CallRunner(t)
  \/ RunnerReturns(t) \/ RunnerCancelled(t) \/ RunnerRaises(t)
  \/ CheckToken(t) \/ Finish(t) \/ FinishPersist(t) \/ Return(t)
  \/ BuildEvent(t, "worker")

Caller(t) ==
  \/ Submit(t) \/ SubmitPersist(t) \/ SubmitRefused(t)
  \/ Cancel(t) \/ CancelPersist(t)

Event(t, e) == e # "worker" /\ (BuildEvent(t, e) \/ Deliver(t, e))

Fault(t) ==
  \/ \E e \in Emitters : ListenerRaises(t, e)
  \/ ListenerEndsRun(t) \/ PersistFails(t) \/ PersistEndsRun(t)

Next ==
  \/ \E t \in Tasks : Worker(t) \/ Caller(t) \/ Fault(t)
  \/ \E t \in Tasks, e \in Emitters : Event(t, e)
  \/ Close \/ Crash \/ Restart

Spec == Init /\ [][Next]_vars

(* Threads that run are scheduled; a critical section that was entered is  *)
(* left; the runner returns (an agent run has an iteration budget).        *)
Fairness ==
  \A t \in Tasks :
       /\ WF_vars(Worker(t))
       /\ WF_vars(SubmitPersist(t)) /\ WF_vars(CancelPersist(t))
       /\ \A e \in Emitters : WF_vars(Event(t, e))

FairSpec == Spec /\ Fairness

-----------------------------------------------------------------------------
\* The shape of the state.
TypeOK ==
  /\ mode \in {"up", "closed", "down"}
  /\ status \in [Tasks -> TaskStatus \cup {"absent"}]
  /\ disk \in [Tasks -> TaskStatus \cup {"absent"}]
  /\ token \in [Tasks -> BOOLEAN]
  /\ future \in [Tasks -> {"none", "pending", "running", "done", "cancelled"}]
  /\ queue \in Seq(Tasks)
  /\ section \in [Tasks -> Sections \cup {"none"}]
  /\ pc \in [Tasks -> {"idle", "called", "announce", "runner", "returned",
                       "decided", "report"}]
  /\ outcome \in [Tasks -> Terminal]
  /\ emit \in [Tasks -> [Emitters -> TaskStatus \cup {"none", "due", "absent"}]]
  /\ seen \in [Tasks -> SUBSET TaskStatus]
  /\ issued \in SUBSET Tasks
  /\ runs \in [Tasks -> Nat]
  /\ early \in SUBSET Tasks
  /\ crashes \in 0..MaxCrashes
  /\ faults \in 0..MaxFaults

(* When nobody holds the lock the file says what the memory says, except   *)
(* that a task loaded as failed may still be unfinished on disk.  (Every   *)
(* status change is persisted before the lock is released; a write that    *)
(* failed is the one excuse.)                                              *)
FileMatchesMemory ==
  mode # "down" /\ LockFree /\ faults = 0 =>
    \A t \in Tasks : status[t] \in {disk[t], Loaded(disk[t])}

(* The runner is called at most once for a task, over crashes, restarts,   *)
(* failed writes and raising listeners: unfinished tasks are not retried.  *)
AtMostOnce == \A t \in Tasks : runs[t] <= 1

\* A task cancelled while it was queued is never handed to the runner, even
\* when a pool thread had already taken its work item.
CancelledInQueueNeverRuns == \A t \in early : runs[t] = 0

(* Once the pool is done with a task of this life and no event is pending, *)
(* the listener has been told its final status.  (Not necessarily last: an *)
(* event built earlier may be delivered after it.)                         *)
Settled(t) ==
  /\ status[t] \in Terminal /\ future[t] \in {"done", "cancelled"}
  /\ LockFree /\ emit[t] = NoEmit
FinalStatusAnnounced ==
  Subscribed /\ faults = 0 => \A t \in Tasks : Settled(t) => status[t] \in seen[t]

(* The file never loses a task, and a task finished on disk stays finished *)
(* there: no rewrite by a later critical section or life reopens it.       *)
DiskOnlyAdvances ==
  [][\A t \in Tasks : /\ disk[t] # "absent" => disk'[t] # "absent"
                      /\ disk[t] \in Terminal => disk'[t] \in Terminal]_vars

(* What the comment at runtime.py:202 promises: a cancel that was accepted *)
(* is not recorded as a success.                                           *)
CancelNeverBecomesSuccess ==
  [][\A t \in Tasks : status[t] = "cancelled" => status'[t] # "succeeded"]_vars

(* A submitted task reaches a final status unless the manager was closed   *)
(* or the process died.                                                    *)
SubmittedSettles ==
  \A t \in Tasks : status[t] \in Unfinished ~>
                     (status[t] \in Terminal \/ mode # "up")
=============================================================================
