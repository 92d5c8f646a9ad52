------------------------- MODULE DurableTasksProofs -------------------------
(***************************************************************************)
(* What DurableTasks keeps for every set of tasks, pool size and number of *)
(* crashes and faults.                                                     *)
(***************************************************************************)
EXTENDS DurableTasks, TLAPS

Queued(t) == \E i \in DOMAIN queue : queue[i] = t

\* At most one critical section is open; each belongs to the matching step.
LockInv ==
  /\ \A t, u \in Tasks : section[t] # "none" /\ section[u] # "none" => t = u
  /\ \A t \in Tasks :
       /\ section[t] = "submit" => status[t] = "queued" /\ future[t] = "none"
       /\ section[t] = "start" => pc[t] = "called" /\ status[t] = "running"
       /\ section[t] = "finish" => pc[t] = "decided"
       /\ emit[t]["worker"] # "none" => pc[t] \in {"announce", "report"}
       /\ mode = "down" => section[t] = "none"

\* A task id that was never handed out has left no trace.
FreshInv ==
  \A t \in Tasks : t \notin issued =>
    status[t] = "absent" /\ disk[t] = "absent" /\ runs[t] = 0
      /\ future[t] = "none"

\* A work item is queued once, and only while no thread works on it.
QueueInv ==
  /\ \A i, j \in DOMAIN queue : queue[i] = queue[j] => i = j
  /\ \A i \in DOMAIN queue : future[queue[i]] \in {"pending", "cancelled"}
  /\ \A t \in Tasks : pc[t] # "idle" => future[t] = "running"

\* Nothing that can still reach the runner has reached it before.
RunInv ==
  \A t \in Tasks :
    /\ runs[t] <= 1
    /\ pc[t] \in {"called", "announce"} \/ future[t] = "pending"
         \/ status[t] = "queued" => runs[t] = 0
    /\ future[t] = "pending" => pc[t] = "idle" /\ status[t] = "queued"
    /\ status[t] = "queued" => pc[t] \in {"idle", "called"}
    /\ pc[t] = "called" =>
         status[t] \in {"queued", "cancelled"} \/ section[t] = "start"

\* A task cancelled in the queue can only be dropped by _run.
EarlyInv ==
  \A t \in early :
    /\ runs[t] = 0
    /\ future[t] # "pending"
    /\ status[t] # "queued"
    /\ t \in issued
    /\ pc[t] = "idle" \/ (pc[t] = "called" /\ status[t] = "cancelled")

\* The memory is never behind the file.
DiskInv ==
  /\ mode = "down" => \A t \in Tasks :
       status[t] = "absent" /\ future[t] = "none"
  /\ mode # "down" => \A t \in Tasks :
       /\ disk[t] # "absent" => status[t] # "absent"
       /\ disk[t] \in Terminal => status[t] \in Terminal

\* Outside critical sections the file agrees with the memory.
FileInv ==
  mode # "down" /\ faults = 0 => \A t \in Tasks :
    section[t] # "none" \/ status[t] \in {disk[t], Loaded(disk[t])}

\* While nothing failed, the listener has been told of a task that ended in
\* this life, or an event or the open critical section is still to tell it.
AnnounceInv ==
  Subscribed /\ faults = 0 => \A t \in Tasks :
    status[t] \in Terminal /\ future[t] # "none" =>
      \/ status[t] \in seen[t]
      \/ \E e \in Emitters : emit[t][e] \in {"due", status[t]}
      \/ section[t] \in {"cancel", "finish"}

Inv ==
  /\ TypeOK /\ LockInv /\ FreshInv /\ QueueInv
  /\ RunInv /\ EarlyInv /\ DiskInv /\ FileInv /\ AnnounceInv

-----------------------------------------------------------------------------

\* A pool thread works on tasks of this life, and not on queued items.
LEMMA Working ==
  ASSUME Inv, NEW t \in Tasks, pc[t] # "idle"
  PROVE  mode # "down" /\ t \in issued /\ future[t] = "running" /\ ~Queued(t)
<1>1. future[t] = "running"
  BY DEF Inv, QueueInv
<1>2. mode # "down" /\ t \in issued
  BY <1>1 DEF Inv, DiskInv, FreshInv
<1>3. ~Queued(t)
  BY <1>1 DEF Inv, QueueInv, Queued
<1>. QED
  BY <1>1, <1>2, <1>3

\* Every step keeps the shape of the state.
LEMMA TypeStep ==
  ASSUME TypeOK, [Next]_vars
  PROVE  TypeOK'
<1>. USE DEF TypeOK, Terminal, Unfinished, TaskStatus, Emitters, Sections
<1>1. ASSUME NEW t \in Tasks, DropItem(t) PROVE TypeOK'
  BY <1>1, Bounds DEF DropItem, NextItem
<1>2. ASSUME NEW t \in Tasks, TakeItem(t) PROVE TypeOK'
  BY <1>2, Bounds DEF TakeItem, NextItem
<1>3. ASSUME NEW t \in Tasks, SkipCancelled(t) PROVE TypeOK'
  BY <1>3, Bounds DEF SkipCancelled, EndOfRun, LockFree
<1>4. ASSUME NEW t \in Tasks, Start(t) PROVE TypeOK'
  BY <1>4, Bounds DEF Start, Enter, LockFree
<1>5. ASSUME NEW t \in Tasks, StartPersist(t) PROVE TypeOK'
  BY <1>5, Bounds DEF StartPersist, PersistAndLeave, Leave
<1>6. ASSUME NEW t \in Tasks, CallRunner(t) PROVE TypeOK'
  BY <1>6, Bounds DEF CallRunner, Receive
<1>7. ASSUME NEW t \in Tasks, RunnerReturns(t) PROVE TypeOK'
  BY <1>7, Bounds DEF RunnerReturns
<1>8. ASSUME NEW t \in Tasks, RunnerCancelled(t) PROVE TypeOK'
  BY <1>8, Bounds DEF RunnerCancelled, Decide
<1>9. ASSUME NEW t \in Tasks, RunnerRaises(t) PROVE TypeOK'
  BY <1>9, Bounds DEF RunnerRaises, Decide
<1>10. ASSUME NEW t \in Tasks, CheckToken(t) PROVE TypeOK'
  BY <1>10, Bounds DEF CheckToken, Decide
<1>11. ASSUME NEW t \in Tasks, Finish(t) PROVE TypeOK'
  BY <1>11, Bounds DEF Finish, Enter, LockFree
<1>12. ASSUME NEW t \in Tasks, FinishPersist(t) PROVE TypeOK'
  BY <1>12, Bounds DEF FinishPersist, PersistAndLeave, Leave
<1>13. ASSUME NEW t \in Tasks, Return(t) PROVE TypeOK'
  BY <1>13, Bounds DEF Return, Receive, EndOfRun
<1>14. ASSUME NEW t \in Tasks, Submit(t) PROVE TypeOK'
  BY <1>14, Bounds DEF Submit, Enter, LockFree
<1>15. ASSUME NEW t \in Tasks, SubmitPersist(t) PROVE TypeOK'
  BY <1>15, Bounds DEF SubmitPersist, PersistAndLeave, Leave
<1>16. ASSUME NEW t \in Tasks, SubmitRefused(t) PROVE TypeOK'
  BY <1>16, Bounds DEF SubmitRefused, PersistAndLeave, Leave
<1>17. ASSUME NEW t \in Tasks, Cancel(t) PROVE TypeOK'
  BY <1>17, Bounds DEF Cancel, Enter, LockFree, CancelFuture
<1>18. ASSUME NEW t \in Tasks, CancelPersist(t) PROVE TypeOK'
  BY <1>18, Bounds DEF CancelPersist, PersistAndLeave, Leave
<1>19. ASSUME NEW t \in Tasks, ListenerEndsRun(t) PROVE TypeOK'
  BY <1>19, Bounds DEF ListenerEndsRun, Raise, EndOfRun
<1>20. ASSUME NEW t \in Tasks, PersistFails(t) PROVE TypeOK'
  BY <1>20, Bounds DEF PersistFails, WriteFails, Leave
<1>21. ASSUME NEW t \in Tasks, PersistEndsRun(t) PROVE TypeOK'
  BY <1>21, Bounds DEF PersistEndsRun, WriteFails, Leave, EndOfRun
<1>22. ASSUME NEW t \in Tasks, NEW e \in Emitters, BuildEvent(t, e) PROVE
     TypeOK'
  BY <1>22, Bounds DEF BuildEvent
<1>23. ASSUME NEW t \in Tasks, NEW e \in Emitters, Deliver(t, e) PROVE TypeOK'
  BY <1>23, Bounds DEF Deliver, Receive
<1>24. ASSUME NEW t \in Tasks, NEW e \in Emitters, ListenerRaises(t, e) PROVE
     TypeOK'
  BY <1>24, Bounds DEF ListenerRaises, Raise
<1>25. CASE Close
  BY <1>25, Bounds DEF Close
<1>26. CASE Crash
  BY <1>26, Bounds DEF Crash, NoEmit
<1>27. CASE Restart
  BY <1>27, Bounds DEF Restart, Loaded
<1>28. CASE UNCHANGED vars
  BY <1>28 DEF vars, memory
<1>. HIDE DEF TypeOK, Terminal, Unfinished, TaskStatus, Emitters, Sections
<1>. QED
  BY <1>1, <1>2, <1>3, <1>4, <1>5, <1>6, <1>7, <1>8, <1>9, <1>10, <1>11, <1>12,
       <1>13, <1>14, <1>15, <1>16, <1>17, <1>18, <1>19, <1>20, <1>21, <1>22,
       <1>23, <1>24, <1>25, <1>26, <1>27, <1>28 DEF Next, Worker, Caller,
       Event, Fault, Emitters

\* Every step keeps LockInv.
LEMMA LockStep ==
  ASSUME Inv, [Next]_vars
  PROVE  LockInv'
<1>. USE DEF Inv, TaskStatus, Terminal, Unfinished, Queued, TypeOK, LockInv,
     FreshInv, DiskInv, Emitters, Sections, QueueInv, RunInv
<1>1. ASSUME NEW t \in Tasks, DropItem(t) PROVE LockInv'
  BY <1>1, Working DEF DropItem, NextItem
<1>2. ASSUME NEW t \in Tasks, TakeItem(t) PROVE LockInv'
  BY <1>2, Working DEF TakeItem, NextItem
<1>3. ASSUME NEW t \in Tasks, SkipCancelled(t) PROVE LockInv'
  BY <1>3, Working DEF SkipCancelled, EndOfRun, LockFree
<1>4. ASSUME NEW t \in Tasks, Start(t) PROVE LockInv'
  BY <1>4, Working DEF Start, Enter, LockFree
<1>5. ASSUME NEW t \in Tasks, StartPersist(t) PROVE LockInv'
  BY <1>5, Working DEF StartPersist, PersistAndLeave, Leave
<1>6. ASSUME NEW t \in Tasks, CallRunner(t) PROVE LockInv'
  BY <1>6, Working DEF CallRunner, Receive
<1>7. ASSUME NEW t \in Tasks, RunnerReturns(t) PROVE LockInv'
  BY <1>7, Working DEF RunnerReturns
<1>8. ASSUME NEW t \in Tasks, RunnerCancelled(t) PROVE LockInv'
  BY <1>8, Working DEF RunnerCancelled, Decide
<1>9. ASSUME NEW t \in Tasks, RunnerRaises(t) PROVE LockInv'
  BY <1>9, Working DEF RunnerRaises, Decide
<1>10. ASSUME NEW t \in Tasks, CheckToken(t) PROVE LockInv'
  BY <1>10, Working DEF CheckToken, Decide
<1>11. ASSUME NEW t \in Tasks, Finish(t) PROVE LockInv'
  BY <1>11, Working DEF Finish, Enter, LockFree
<1>12. ASSUME NEW t \in Tasks, FinishPersist(t) PROVE LockInv'
  BY <1>12, Working DEF FinishPersist, PersistAndLeave, Leave
<1>13. ASSUME NEW t \in Tasks, Return(t) PROVE LockInv'
  BY <1>13, Working DEF Return, Receive, EndOfRun
<1>14. ASSUME NEW t \in Tasks, Submit(t) PROVE LockInv'
  BY <1>14, Working DEF Submit, Enter, LockFree
<1>15. ASSUME NEW t \in Tasks, SubmitPersist(t) PROVE LockInv'
  BY <1>15, Working DEF SubmitPersist, PersistAndLeave, Leave
<1>16. ASSUME NEW t \in Tasks, SubmitRefused(t) PROVE LockInv'
  BY <1>16, Working DEF SubmitRefused, PersistAndLeave, Leave
<1>17. ASSUME NEW t \in Tasks, Cancel(t) PROVE LockInv'
  BY <1>17, Working DEF Cancel, Enter, LockFree, CancelFuture
<1>18. ASSUME NEW t \in Tasks, CancelPersist(t) PROVE LockInv'
  BY <1>18, Working DEF CancelPersist, PersistAndLeave, Leave
<1>19. ASSUME NEW t \in Tasks, ListenerEndsRun(t) PROVE LockInv'
  BY <1>19, Working DEF ListenerEndsRun, Raise, EndOfRun
<1>20. ASSUME NEW t \in Tasks, PersistFails(t) PROVE LockInv'
  BY <1>20, Working DEF PersistFails, WriteFails, Leave
<1>21. ASSUME NEW t \in Tasks, PersistEndsRun(t) PROVE LockInv'
  BY <1>21, Working DEF PersistEndsRun, WriteFails, Leave, EndOfRun
<1>22. ASSUME NEW t \in Tasks, NEW e \in Emitters, BuildEvent(t, e) PROVE
     LockInv'
  BY <1>22, Working DEF BuildEvent
<1>23. ASSUME NEW t \in Tasks, NEW e \in Emitters, Deliver(t, e) PROVE LockInv'
  BY <1>23, Working DEF Deliver, Receive
<1>24. ASSUME NEW t \in Tasks, NEW e \in Emitters, ListenerRaises(t, e) PROVE
     LockInv'
  BY <1>24, Working DEF ListenerRaises, Raise
<1>25. CASE Close
  BY <1>25, Working DEF Close
<1>26. CASE Crash
  BY <1>26, Working DEF Crash, NoEmit
<1>27. CASE Restart
  BY <1>27, Working DEF Restart, Loaded
<1>28. CASE UNCHANGED vars
  BY <1>28 DEF vars, memory
<1>. HIDE DEF Inv, TaskStatus, Terminal, Unfinished, Queued, TypeOK, LockInv,
     FreshInv, DiskInv, Emitters, Sections, QueueInv, RunInv
<1>. QED
  BY <1>1, <1>2, <1>3, <1>4, <1>5, <1>6, <1>7, <1>8, <1>9, <1>10, <1>11, <1>12,
       <1>13, <1>14, <1>15, <1>16, <1>17, <1>18, <1>19, <1>20, <1>21, <1>22,
       <1>23, <1>24, <1>25, <1>26, <1>27, <1>28 DEF Next, Worker, Caller,
       Event, Fault, Emitters

\* Every step keeps FreshInv.
LEMMA FreshStep ==
  ASSUME Inv, [Next]_vars
  PROVE  FreshInv'
<1>. USE DEF Inv, TaskStatus, Terminal, Unfinished, Queued, Emitters, RunInv,
     TypeOK, FreshInv, LockInv, QueueInv, DiskInv
<1>1. ASSUME NEW t \in Tasks, DropItem(t) PROVE FreshInv'
  BY <1>1, Working DEF DropItem, NextItem
<1>2. ASSUME NEW t \in Tasks, TakeItem(t) PROVE FreshInv'
  BY <1>2, Working DEF TakeItem, NextItem
<1>3. ASSUME NEW t \in Tasks, SkipCancelled(t) PROVE FreshInv'
  BY <1>3, Working DEF SkipCancelled, EndOfRun, LockFree
<1>4. ASSUME NEW t \in Tasks, Start(t) PROVE FreshInv'
  BY <1>4, Working DEF Start, Enter, LockFree
<1>5. ASSUME NEW t \in Tasks, StartPersist(t) PROVE FreshInv'
  BY <1>5, Working DEF StartPersist, PersistAndLeave, Leave
<1>6. ASSUME NEW t \in Tasks, CallRunner(t) PROVE FreshInv'
  BY <1>6, Working DEF CallRunner, Receive
<1>7. ASSUME NEW t \in Tasks, RunnerReturns(t) PROVE FreshInv'
  BY <1>7, Working DEF RunnerReturns
<1>8. ASSUME NEW t \in Tasks, RunnerCancelled(t) PROVE FreshInv'
  BY <1>8, Working DEF RunnerCancelled, Decide
<1>9. ASSUME NEW t \in Tasks, RunnerRaises(t) PROVE FreshInv'
  BY <1>9, Working DEF RunnerRaises, Decide
<1>10. ASSUME NEW t \in Tasks, CheckToken(t) PROVE FreshInv'
  BY <1>10, Working DEF CheckToken, Decide
<1>11. ASSUME NEW t \in Tasks, Finish(t) PROVE FreshInv'
  BY <1>11, Working DEF Finish, Enter, LockFree
<1>12. ASSUME NEW t \in Tasks, FinishPersist(t) PROVE FreshInv'
  BY <1>12, Working DEF FinishPersist, PersistAndLeave, Leave
<1>13. ASSUME NEW t \in Tasks, Return(t) PROVE FreshInv'
  BY <1>13, Working DEF Return, Receive, EndOfRun
<1>14. ASSUME NEW t \in Tasks, Submit(t) PROVE FreshInv'
  BY <1>14, Working DEF Submit, Enter, LockFree
<1>15. ASSUME NEW t \in Tasks, SubmitPersist(t) PROVE FreshInv'
  BY <1>15, Working DEF SubmitPersist, PersistAndLeave, Leave
<1>16. ASSUME NEW t \in Tasks, SubmitRefused(t) PROVE FreshInv'
  BY <1>16, Working DEF SubmitRefused, PersistAndLeave, Leave
<1>17. ASSUME NEW t \in Tasks, Cancel(t) PROVE FreshInv'
  BY <1>17, Working DEF Cancel, Enter, LockFree, CancelFuture
<1>18. ASSUME NEW t \in Tasks, CancelPersist(t) PROVE FreshInv'
  BY <1>18, Working DEF CancelPersist, PersistAndLeave, Leave
<1>19. ASSUME NEW t \in Tasks, ListenerEndsRun(t) PROVE FreshInv'
  <2>1. pc[t] # "idle"
    BY <1>19 DEF ListenerEndsRun, Raise
  <2>. QED
    BY <1>19, <2>1, Working DEF ListenerEndsRun, Raise, EndOfRun
<1>20. ASSUME NEW t \in Tasks, PersistFails(t) PROVE FreshInv'
  BY <1>20, Working DEF PersistFails, WriteFails, Leave
<1>21. ASSUME NEW t \in Tasks, PersistEndsRun(t) PROVE FreshInv'
  BY <1>21, Working DEF PersistEndsRun, WriteFails, Leave, EndOfRun
<1>22. ASSUME NEW t \in Tasks, NEW e \in Emitters, BuildEvent(t, e) PROVE
     FreshInv'
  BY <1>22, Working DEF BuildEvent
<1>23. ASSUME NEW t \in Tasks, NEW e \in Emitters, Deliver(t, e) PROVE
     FreshInv'
  BY <1>23, Working DEF Deliver, Receive
<1>24. ASSUME NEW t \in Tasks, NEW e \in Emitters, ListenerRaises(t, e) PROVE
     FreshInv'
  BY <1>24, Working DEF ListenerRaises, Raise
<1>25. CASE Close
  BY <1>25, Working DEF Close
<1>26. CASE Crash
  BY <1>26, Working DEF Crash, NoEmit
<1>27. CASE Restart
  BY <1>27, Working DEF Restart, Loaded
<1>28. CASE UNCHANGED vars
  BY <1>28 DEF vars, memory
<1>. HIDE DEF Inv, TaskStatus, Terminal, Unfinished, Queued, Emitters, RunInv,
     TypeOK, FreshInv, LockInv, QueueInv, DiskInv
<1>. QED
  BY <1>1, <1>2, <1>3, <1>4, <1>5, <1>6, <1>7, <1>8, <1>9, <1>10, <1>11, <1>12,
       <1>13, <1>14, <1>15, <1>16, <1>17, <1>18, <1>19, <1>20, <1>21, <1>22,
       <1>23, <1>24, <1>25, <1>26, <1>27, <1>28 DEF Next, Worker, Caller,
       Event, Fault, Emitters

\* Every step keeps QueueInv.
LEMMA QueueStep ==
  ASSUME Inv, [Next]_vars
  PROVE  QueueInv'
<1>. USE DEF Inv, TaskStatus, Terminal, Unfinished, Queued, DiskInv, Emitters,
     TypeOK, QueueInv, LockInv, FreshInv, RunInv
<1>1. ASSUME NEW t \in Tasks, DropItem(t) PROVE QueueInv'
  <2>1. /\ DOMAIN queue' = 1..(Len(queue) - 1)
        /\ \A i \in DOMAIN queue' : queue'[i] = queue[i + 1] /\ i + 1 \in
             DOMAIN queue
    BY <1>1 DEF DropItem, NextItem, Inv, TypeOK
  <2>2. UNCHANGED <<future, pc>>
    BY <1>1 DEF DropItem
  <2>. QED
    BY <2>1, <2>2 DEF Inv, QueueInv, TypeOK
<1>2. ASSUME NEW t \in Tasks, TakeItem(t) PROVE QueueInv'
  <2>1. /\ DOMAIN queue' = 1..(Len(queue) - 1)
        /\ \A i \in DOMAIN queue' : queue'[i] = queue[i + 1] /\ i + 1 \in
             DOMAIN queue
        /\ 1 \in DOMAIN queue /\ t = queue[1]
    BY <1>2 DEF TakeItem, NextItem, Inv, TypeOK
  <2>2. /\ future' = [future EXCEPT ![t] = "running"]
        /\ pc' = [pc EXCEPT ![t] = "called"]
    BY <1>2 DEF TakeItem
  <2>3. \A i \in DOMAIN queue' : queue'[i] # t
    BY <2>1 DEF Inv, QueueInv
  <2>4. \A i, j \in DOMAIN queue' : queue'[i] = queue'[j] => i = j
    BY <2>1 DEF Inv, QueueInv
  <2>. QED
    BY <2>1, <2>2, <2>3, <2>4 DEF Inv, QueueInv, TypeOK
<1>3. ASSUME NEW t \in Tasks, SkipCancelled(t) PROVE QueueInv'
  BY <1>3, Working DEF SkipCancelled, EndOfRun, LockFree
<1>4. ASSUME NEW t \in Tasks, Start(t) PROVE QueueInv'
  BY <1>4, Working DEF Start, Enter, LockFree
<1>5. ASSUME NEW t \in Tasks, StartPersist(t) PROVE QueueInv'
  BY <1>5, Working DEF StartPersist, PersistAndLeave, Leave
<1>6. ASSUME NEW t \in Tasks, CallRunner(t) PROVE QueueInv'
  BY <1>6, Working DEF CallRunner, Receive
<1>7. ASSUME NEW t \in Tasks, RunnerReturns(t) PROVE QueueInv'
  BY <1>7, Working DEF RunnerReturns
<1>8. ASSUME NEW t \in Tasks, RunnerCancelled(t) PROVE QueueInv'
  BY <1>8, Working DEF RunnerCancelled, Decide
<1>9. ASSUME NEW t \in Tasks, RunnerRaises(t) PROVE QueueInv'
  BY <1>9, Working DEF RunnerRaises, Decide
<1>10. ASSUME NEW t \in Tasks, CheckToken(t) PROVE QueueInv'
  BY <1>10, Working DEF CheckToken, Decide
<1>11. ASSUME NEW t \in Tasks, Finish(t) PROVE QueueInv'
  BY <1>11, Working DEF Finish, Enter, LockFree
<1>12. ASSUME NEW t \in Tasks, FinishPersist(t) PROVE QueueInv'
  BY <1>12, Working DEF FinishPersist, PersistAndLeave, Leave
<1>13. ASSUME NEW t \in Tasks, Return(t) PROVE QueueInv'
  BY <1>13, Working DEF Return, Receive, EndOfRun
<1>14. ASSUME NEW t \in Tasks, Submit(t) PROVE QueueInv'
  BY <1>14, Working DEF Submit, Enter, LockFree
<1>15. ASSUME NEW t \in Tasks, SubmitPersist(t) PROVE QueueInv'
  BY <1>15, Working DEF SubmitPersist, PersistAndLeave, Leave
<1>16. ASSUME NEW t \in Tasks, SubmitRefused(t) PROVE QueueInv'
  BY <1>16, Working DEF SubmitRefused, PersistAndLeave, Leave
<1>17. ASSUME NEW t \in Tasks, Cancel(t) PROVE QueueInv'
  BY <1>17, Working DEF Cancel, Enter, LockFree, CancelFuture
<1>18. ASSUME NEW t \in Tasks, CancelPersist(t) PROVE QueueInv'
  BY <1>18, Working DEF CancelPersist, PersistAndLeave, Leave
<1>19. ASSUME NEW t \in Tasks, ListenerEndsRun(t) PROVE QueueInv'
  <2>1. pc[t] # "idle"
    BY <1>19 DEF ListenerEndsRun, Raise
  <2>. QED
    BY <1>19, <2>1, Working DEF ListenerEndsRun, Raise, EndOfRun
<1>20. ASSUME NEW t \in Tasks, PersistFails(t) PROVE QueueInv'
  BY <1>20, Working DEF PersistFails, WriteFails, Leave
<1>21. ASSUME NEW t \in Tasks, PersistEndsRun(t) PROVE QueueInv'
  <2>1. /\ pc[t] # "idle" /\ queue' = queue
        /\ pc' = [pc EXCEPT ![t] = "idle"]
        /\ future' = [future EXCEPT ![t] = "done"]
    BY <1>21 DEF PersistEndsRun, WriteFails, EndOfRun
  <2>2. ~Queued(t)
    BY <2>1, Working
  <2>. QED
    BY <2>1, <2>2
<1>22. ASSUME NEW t \in Tasks, NEW e \in Emitters, BuildEvent(t, e) PROVE
     QueueInv'
  BY <1>22, Working DEF BuildEvent
<1>23. ASSUME NEW t \in Tasks, NEW e \in Emitters, Deliver(t, e) PROVE
     QueueInv'
  BY <1>23, Working DEF Deliver, Receive
<1>24. ASSUME NEW t \in Tasks, NEW e \in Emitters, ListenerRaises(t, e) PROVE
     QueueInv'
  BY <1>24, Working DEF ListenerRaises, Raise
<1>25. CASE Close
  BY <1>25, Working DEF Close
<1>26. CASE Crash
  BY <1>26, Working DEF Crash, NoEmit
<1>27. CASE Restart
  BY <1>27, Working DEF Restart, Loaded
<1>28. CASE UNCHANGED vars
  BY <1>28 DEF vars, memory
<1>. HIDE DEF Inv, TaskStatus, Terminal, Unfinished, Queued, DiskInv, Emitters,
     TypeOK, QueueInv, LockInv, FreshInv, RunInv
<1>. QED
  BY <1>1, <1>2, <1>3, <1>4, <1>5, <1>6, <1>7, <1>8, <1>9, <1>10, <1>11, <1>12,
       <1>13, <1>14, <1>15, <1>16, <1>17, <1>18, <1>19, <1>20, <1>21, <1>22,
       <1>23, <1>24, <1>25, <1>26, <1>27, <1>28 DEF Next, Worker, Caller,
       Event, Fault, Emitters

\* Every step keeps RunInv.
LEMMA RunStep ==
  ASSUME Inv, [Next]_vars
  PROVE  RunInv'
<1>. USE DEF Inv, DiskInv, Emitters, TypeOK, QueueInv, RunInv, LockInv,
     FreshInv, Terminal, Unfinished
<1>1. ASSUME NEW t \in Tasks, DropItem(t) PROVE RunInv'
  BY <1>1, Working DEF DropItem, NextItem
<1>2. ASSUME NEW t \in Tasks, TakeItem(t) PROVE RunInv'
  BY <1>2, Working DEF TakeItem, NextItem
<1>3. ASSUME NEW t \in Tasks, SkipCancelled(t) PROVE RunInv'
  BY <1>3, Working DEF SkipCancelled, EndOfRun, LockFree
<1>4. ASSUME NEW t \in Tasks, Start(t) PROVE RunInv'
  BY <1>4, Working DEF Start, Enter, LockFree
<1>5. ASSUME NEW t \in Tasks, StartPersist(t) PROVE RunInv'
  BY <1>5, Working DEF StartPersist, PersistAndLeave, Leave
<1>6. ASSUME NEW t \in Tasks, CallRunner(t) PROVE RunInv'
  BY <1>6, Working DEF CallRunner, Receive
<1>7. ASSUME NEW t \in Tasks, RunnerReturns(t) PROVE RunInv'
  BY <1>7, Working DEF RunnerReturns
<1>8. ASSUME NEW t \in Tasks, RunnerCancelled(t) PROVE RunInv'
  BY <1>8, Working DEF RunnerCancelled, Decide
<1>9. ASSUME NEW t \in Tasks, RunnerRaises(t) PROVE RunInv'
  BY <1>9, Working DEF RunnerRaises, Decide
<1>10. ASSUME NEW t \in Tasks, CheckToken(t) PROVE RunInv'
  BY <1>10, Working DEF CheckToken, Decide
<1>11. ASSUME NEW t \in Tasks, Finish(t) PROVE RunInv'
  <2>1. /\ status' = [status EXCEPT ![t] = outcome[t]] /\ outcome[t] \in Terminal
        /\ UNCHANGED <<pc, future, runs>> /\ pc[t] = "decided"
        /\ \A u \in Tasks : section[u] = "none"
    BY <1>11 DEF Finish, Enter, LockFree, Inv, TypeOK
  <2>. QED
    BY <2>1 DEF Inv, TypeOK, RunInv, Terminal
<1>12. ASSUME NEW t \in Tasks, FinishPersist(t) PROVE RunInv'
  BY <1>12, Working DEF FinishPersist, PersistAndLeave, Leave
<1>13. ASSUME NEW t \in Tasks, Return(t) PROVE RunInv'
  BY <1>13, Working DEF Return, Receive, EndOfRun
<1>14. ASSUME NEW t \in Tasks, Submit(t) PROVE RunInv'
  BY <1>14, Working DEF Submit, Enter, LockFree
<1>15. ASSUME NEW t \in Tasks, SubmitPersist(t) PROVE RunInv'
  BY <1>15, Working DEF SubmitPersist, PersistAndLeave, Leave
<1>16. ASSUME NEW t \in Tasks, SubmitRefused(t) PROVE RunInv'
  BY <1>16, Working DEF SubmitRefused, PersistAndLeave, Leave
<1>17. ASSUME NEW t \in Tasks, Cancel(t) PROVE RunInv'
  BY <1>17, Working DEF Cancel, Enter, LockFree, CancelFuture
<1>18. ASSUME NEW t \in Tasks, CancelPersist(t) PROVE RunInv'
  BY <1>18, Working DEF CancelPersist, PersistAndLeave, Leave
<1>19. ASSUME NEW t \in Tasks, ListenerEndsRun(t) PROVE RunInv'
  BY <1>19, Working DEF ListenerEndsRun, Raise, EndOfRun
<1>20. ASSUME NEW t \in Tasks, PersistFails(t) PROVE RunInv'
  BY <1>20, Working DEF PersistFails, WriteFails, Leave
<1>21. ASSUME NEW t \in Tasks, PersistEndsRun(t) PROVE RunInv'
  BY <1>21, Working DEF PersistEndsRun, WriteFails, Leave, EndOfRun
<1>22. ASSUME NEW t \in Tasks, NEW e \in Emitters, BuildEvent(t, e) PROVE
     RunInv'
  BY <1>22, Working DEF BuildEvent
<1>23. ASSUME NEW t \in Tasks, NEW e \in Emitters, Deliver(t, e) PROVE RunInv'
  BY <1>23, Working DEF Deliver, Receive
<1>24. ASSUME NEW t \in Tasks, NEW e \in Emitters, ListenerRaises(t, e) PROVE
     RunInv'
  BY <1>24, Working DEF ListenerRaises, Raise
<1>25. CASE Close
  BY <1>25, Working DEF Close
<1>26. CASE Crash
  BY <1>26, Working DEF Crash, NoEmit
<1>27. CASE Restart
  BY <1>27, Working DEF Restart, Loaded
<1>28. CASE UNCHANGED vars
  BY <1>28 DEF vars, memory
<1>. HIDE DEF Inv, DiskInv, Emitters, TypeOK, QueueInv, RunInv, LockInv,
     FreshInv, Terminal, Unfinished
<1>. QED
  BY <1>1, <1>2, <1>3, <1>4, <1>5, <1>6, <1>7, <1>8, <1>9, <1>10, <1>11, <1>12,
       <1>13, <1>14, <1>15, <1>16, <1>17, <1>18, <1>19, <1>20, <1>21, <1>22,
       <1>23, <1>24, <1>25, <1>26, <1>27, <1>28 DEF Next, Worker, Caller,
       Event, Fault, Emitters

\* Every step keeps EarlyInv.
LEMMA EarlyStep ==
  ASSUME Inv, [Next]_vars
  PROVE  EarlyInv'
<1>. USE DEF Inv, DiskInv, TypeOK, EarlyInv, LockInv, FreshInv, RunInv,
     QueueInv, Unfinished, Terminal
<1>1. ASSUME NEW t \in Tasks, DropItem(t) PROVE EarlyInv'
  BY <1>1, Working DEF DropItem, NextItem
<1>2. ASSUME NEW t \in Tasks, TakeItem(t) PROVE EarlyInv'
  BY <1>2, Working DEF TakeItem, NextItem
<1>3. ASSUME NEW t \in Tasks, SkipCancelled(t) PROVE EarlyInv'
  BY <1>3, Working DEF SkipCancelled, EndOfRun, LockFree
<1>4. ASSUME NEW t \in Tasks, Start(t) PROVE EarlyInv'
  BY <1>4, Working DEF Start, Enter, LockFree
<1>5. ASSUME NEW t \in Tasks, StartPersist(t) PROVE EarlyInv'
  BY <1>5, Working DEF StartPersist, PersistAndLeave, Leave
<1>6. ASSUME NEW t \in Tasks, CallRunner(t) PROVE EarlyInv'
  BY <1>6, Working DEF CallRunner, Receive
<1>7. ASSUME NEW t \in Tasks, RunnerReturns(t) PROVE EarlyInv'
  BY <1>7, Working DEF RunnerReturns
<1>8. ASSUME NEW t \in Tasks, RunnerCancelled(t) PROVE EarlyInv'
  BY <1>8, Working DEF RunnerCancelled, Decide
<1>9. ASSUME NEW t \in Tasks, RunnerRaises(t) PROVE EarlyInv'
  BY <1>9, Working DEF RunnerRaises, Decide
<1>10. ASSUME NEW t \in Tasks, CheckToken(t) PROVE EarlyInv'
  BY <1>10, Working DEF CheckToken, Decide
<1>11. ASSUME NEW t \in Tasks, Finish(t) PROVE EarlyInv'
  BY <1>11, Working DEF Finish, Enter, LockFree
<1>12. ASSUME NEW t \in Tasks, FinishPersist(t) PROVE EarlyInv'
  BY <1>12, Working DEF FinishPersist, PersistAndLeave, Leave
<1>13. ASSUME NEW t \in Tasks, Return(t) PROVE EarlyInv'
  BY <1>13, Working DEF Return, Receive, EndOfRun
<1>14. ASSUME NEW t \in Tasks, Submit(t) PROVE EarlyInv'
  BY <1>14, Working DEF Submit, Enter, LockFree
<1>15. ASSUME NEW t \in Tasks, SubmitPersist(t) PROVE EarlyInv'
  BY <1>15, Working DEF SubmitPersist, PersistAndLeave, Leave
<1>16. ASSUME NEW t \in Tasks, SubmitRefused(t) PROVE EarlyInv'
  BY <1>16, Working DEF SubmitRefused, PersistAndLeave, Leave
<1>17. ASSUME NEW t \in Tasks, Cancel(t) PROVE EarlyInv'
  BY <1>17, Working DEF Cancel, Enter, LockFree, CancelFuture
<1>18. ASSUME NEW t \in Tasks, CancelPersist(t) PROVE EarlyInv'
  BY <1>18, Working DEF CancelPersist, PersistAndLeave, Leave
<1>19. ASSUME NEW t \in Tasks, ListenerEndsRun(t) PROVE EarlyInv'
  BY <1>19, Working DEF ListenerEndsRun, Raise, EndOfRun
<1>20. ASSUME NEW t \in Tasks, PersistFails(t) PROVE EarlyInv'
  BY <1>20, Working DEF PersistFails, WriteFails, Leave
<1>21. ASSUME NEW t \in Tasks, PersistEndsRun(t) PROVE EarlyInv'
  BY <1>21, Working DEF PersistEndsRun, WriteFails, Leave, EndOfRun
<1>22. ASSUME NEW t \in Tasks, NEW e \in Emitters, BuildEvent(t, e) PROVE
     EarlyInv'
  BY <1>22, Working DEF BuildEvent
<1>23. ASSUME NEW t \in Tasks, NEW e \in Emitters, Deliver(t, e) PROVE
     EarlyInv'
  BY <1>23, Working DEF Deliver, Receive
<1>24. ASSUME NEW t \in Tasks, NEW e \in Emitters, ListenerRaises(t, e) PROVE
     EarlyInv'
  BY <1>24, Working DEF ListenerRaises, Raise
<1>25. CASE Close
  BY <1>25, Working DEF Close
<1>26. CASE Crash
  BY <1>26, Working DEF Crash, NoEmit
<1>27. CASE Restart
  BY <1>27, Working DEF Restart, Loaded
<1>28. CASE UNCHANGED vars
  BY <1>28 DEF vars, memory
<1>. HIDE DEF Inv, DiskInv, TypeOK, EarlyInv, LockInv, FreshInv, RunInv,
     QueueInv, Unfinished, Terminal
<1>. QED
  BY <1>1, <1>2, <1>3, <1>4, <1>5, <1>6, <1>7, <1>8, <1>9, <1>10, <1>11, <1>12,
       <1>13, <1>14, <1>15, <1>16, <1>17, <1>18, <1>19, <1>20, <1>21, <1>22,
       <1>23, <1>24, <1>25, <1>26, <1>27, <1>28 DEF Next, Worker, Caller,
       Event, Fault, Emitters

\* Every step keeps DiskInv.
LEMMA DiskStep ==
  ASSUME Inv, [Next]_vars
  PROVE  DiskInv'
<1>. USE DEF Inv, TaskStatus, Terminal, Unfinished, Queued, TypeOK, DiskInv,
     LockInv, FreshInv, RunInv, QueueInv
<1>1. ASSUME NEW t \in Tasks, DropItem(t) PROVE DiskInv'
  BY <1>1, Working DEF DropItem, NextItem
<1>2. ASSUME NEW t \in Tasks, TakeItem(t) PROVE DiskInv'
  BY <1>2, Working DEF TakeItem, NextItem
<1>3. ASSUME NEW t \in Tasks, SkipCancelled(t) PROVE DiskInv'
  BY <1>3, Working DEF SkipCancelled, EndOfRun, LockFree
<1>4. ASSUME NEW t \in Tasks, Start(t) PROVE DiskInv'
  <2>1. /\ mode # "down" /\ mode' = mode /\ disk' = disk
        /\ status[t] \in {"queued", "cancelled"} /\ status[t] # "cancelled"
        /\ status' = [status EXCEPT ![t] = "running"] /\ future' = future
    BY <1>4, Working DEF Start, Enter, LockFree
  <2>. QED
    BY <2>1
<1>5. ASSUME NEW t \in Tasks, StartPersist(t) PROVE DiskInv'
  BY <1>5, Working DEF StartPersist, PersistAndLeave, Leave
<1>6. ASSUME NEW t \in Tasks, CallRunner(t) PROVE DiskInv'
  BY <1>6, Working DEF CallRunner, Receive
<1>7. ASSUME NEW t \in Tasks, RunnerReturns(t) PROVE DiskInv'
  BY <1>7, Working DEF RunnerReturns
<1>8. ASSUME NEW t \in Tasks, RunnerCancelled(t) PROVE DiskInv'
  BY <1>8, Working DEF RunnerCancelled, Decide
<1>9. ASSUME NEW t \in Tasks, RunnerRaises(t) PROVE DiskInv'
  BY <1>9, Working DEF RunnerRaises, Decide
<1>10. ASSUME NEW t \in Tasks, CheckToken(t) PROVE DiskInv'
  BY <1>10, Working DEF CheckToken, Decide
<1>11. ASSUME NEW t \in Tasks, Finish(t) PROVE DiskInv'
  BY <1>11, Working DEF Finish, Enter, LockFree
<1>12. ASSUME NEW t \in Tasks, FinishPersist(t) PROVE DiskInv'
  BY <1>12, Working DEF FinishPersist, PersistAndLeave, Leave
<1>13. ASSUME NEW t \in Tasks, Return(t) PROVE DiskInv'
  BY <1>13, Working DEF Return, Receive, EndOfRun
<1>14. ASSUME NEW t \in Tasks, Submit(t) PROVE DiskInv'
  BY <1>14, Working DEF Submit, Enter, LockFree
<1>15. ASSUME NEW t \in Tasks, SubmitPersist(t) PROVE DiskInv'
  BY <1>15, Working DEF SubmitPersist, PersistAndLeave, Leave
<1>16. ASSUME NEW t \in Tasks, SubmitRefused(t) PROVE DiskInv'
  BY <1>16, Working DEF SubmitRefused, PersistAndLeave, Leave
<1>17. ASSUME NEW t \in Tasks, Cancel(t) PROVE DiskInv'
  BY <1>17, Working DEF Cancel, Enter, LockFree, CancelFuture
<1>18. ASSUME NEW t \in Tasks, CancelPersist(t) PROVE DiskInv'
  BY <1>18, Working DEF CancelPersist, PersistAndLeave, Leave
<1>19. ASSUME NEW t \in Tasks, ListenerEndsRun(t) PROVE DiskInv'
  BY <1>19, Working DEF ListenerEndsRun, Raise, EndOfRun
<1>20. ASSUME NEW t \in Tasks, PersistFails(t) PROVE DiskInv'
  BY <1>20, Working DEF PersistFails, WriteFails, Leave
<1>21. ASSUME NEW t \in Tasks, PersistEndsRun(t) PROVE DiskInv'
  BY <1>21, Working DEF PersistEndsRun, WriteFails, Leave, EndOfRun
<1>22. ASSUME NEW t \in Tasks, NEW e \in Emitters, BuildEvent(t, e) PROVE
     DiskInv'
  BY <1>22, Working DEF BuildEvent
<1>23. ASSUME NEW t \in Tasks, NEW e \in Emitters, Deliver(t, e) PROVE DiskInv'
  BY <1>23, Working DEF Deliver, Receive
<1>24. ASSUME NEW t \in Tasks, NEW e \in Emitters, ListenerRaises(t, e) PROVE
     DiskInv'
  BY <1>24, Working DEF ListenerRaises, Raise
<1>25. CASE Close
  BY <1>25, Working DEF Close
<1>26. CASE Crash
  BY <1>26, Working DEF Crash, NoEmit
<1>27. CASE Restart
  BY <1>27, Working DEF Restart, Loaded
<1>28. CASE UNCHANGED vars
  BY <1>28 DEF vars, memory
<1>. HIDE DEF Inv, TaskStatus, Terminal, Unfinished, Queued, TypeOK, DiskInv,
     LockInv, FreshInv, RunInv, QueueInv
<1>. QED
  BY <1>1, <1>2, <1>3, <1>4, <1>5, <1>6, <1>7, <1>8, <1>9, <1>10, <1>11, <1>12,
       <1>13, <1>14, <1>15, <1>16, <1>17, <1>18, <1>19, <1>20, <1>21, <1>22,
       <1>23, <1>24, <1>25, <1>26, <1>27, <1>28 DEF Next, Worker, Caller,
       Event, Fault, Emitters

\* Every step keeps FileInv.
LEMMA FileStep ==
  ASSUME Inv, [Next]_vars
  PROVE  FileInv'
<1>. USE DEF Inv, TypeOK, LockInv, FileInv, DiskInv
<1>1. ASSUME NEW t \in Tasks, DropItem(t) PROVE FileInv'
  BY <1>1, Working DEF DropItem, NextItem
<1>2. ASSUME NEW t \in Tasks, TakeItem(t) PROVE FileInv'
  BY <1>2, Working DEF TakeItem, NextItem
<1>3. ASSUME NEW t \in Tasks, SkipCancelled(t) PROVE FileInv'
  BY <1>3, Working DEF SkipCancelled, EndOfRun, LockFree
<1>4. ASSUME NEW t \in Tasks, Start(t) PROVE FileInv'
  BY <1>4, Working DEF Start, Enter, LockFree
<1>5. ASSUME NEW t \in Tasks, StartPersist(t) PROVE FileInv'
  BY <1>5, Working DEF StartPersist, PersistAndLeave, Leave
<1>6. ASSUME NEW t \in Tasks, CallRunner(t) PROVE FileInv'
  BY <1>6, Working DEF CallRunner, Receive
<1>7. ASSUME NEW t \in Tasks, RunnerReturns(t) PROVE FileInv'
  BY <1>7, Working DEF RunnerReturns
<1>8. ASSUME NEW t \in Tasks, RunnerCancelled(t) PROVE FileInv'
  BY <1>8, Working DEF RunnerCancelled, Decide
<1>9. ASSUME NEW t \in Tasks, RunnerRaises(t) PROVE FileInv'
  BY <1>9, Working DEF RunnerRaises, Decide
<1>10. ASSUME NEW t \in Tasks, CheckToken(t) PROVE FileInv'
  BY <1>10, Working DEF CheckToken, Decide
<1>11. ASSUME NEW t \in Tasks, Finish(t) PROVE FileInv'
  BY <1>11, Working DEF Finish, Enter, LockFree
<1>12. ASSUME NEW t \in Tasks, FinishPersist(t) PROVE FileInv'
  BY <1>12, Working DEF FinishPersist, PersistAndLeave, Leave
<1>13. ASSUME NEW t \in Tasks, Return(t) PROVE FileInv'
  BY <1>13, Working DEF Return, Receive, EndOfRun
<1>14. ASSUME NEW t \in Tasks, Submit(t) PROVE FileInv'
  BY <1>14, Working DEF Submit, Enter, LockFree
<1>15. ASSUME NEW t \in Tasks, SubmitPersist(t) PROVE FileInv'
  BY <1>15, Working DEF SubmitPersist, PersistAndLeave, Leave
<1>16. ASSUME NEW t \in Tasks, SubmitRefused(t) PROVE FileInv'
  BY <1>16, Working DEF SubmitRefused, PersistAndLeave, Leave
<1>17. ASSUME NEW t \in Tasks, Cancel(t) PROVE FileInv'
  BY <1>17, Working DEF Cancel, Enter, LockFree, CancelFuture
<1>18. ASSUME NEW t \in Tasks, CancelPersist(t) PROVE FileInv'
  BY <1>18, Working DEF CancelPersist, PersistAndLeave, Leave
<1>19. ASSUME NEW t \in Tasks, ListenerEndsRun(t) PROVE FileInv'
  BY <1>19, Working DEF ListenerEndsRun, Raise, EndOfRun
<1>20. ASSUME NEW t \in Tasks, PersistFails(t) PROVE FileInv'
  BY <1>20, Working DEF PersistFails, WriteFails, Leave
<1>21. ASSUME NEW t \in Tasks, PersistEndsRun(t) PROVE FileInv'
  BY <1>21, Working DEF PersistEndsRun, WriteFails, Leave, EndOfRun
<1>22. ASSUME NEW t \in Tasks, NEW e \in Emitters, BuildEvent(t, e) PROVE
     FileInv'
  BY <1>22, Working DEF BuildEvent
<1>23. ASSUME NEW t \in Tasks, NEW e \in Emitters, Deliver(t, e) PROVE FileInv'
  BY <1>23, Working DEF Deliver, Receive
<1>24. ASSUME NEW t \in Tasks, NEW e \in Emitters, ListenerRaises(t, e) PROVE
     FileInv'
  BY <1>24, Working DEF ListenerRaises, Raise
<1>25. CASE Close
  BY <1>25, Working DEF Close
<1>26. CASE Crash
  BY <1>26, Working DEF Crash, NoEmit
<1>27. CASE Restart
  BY <1>27, Working DEF Restart, Loaded
<1>28. CASE UNCHANGED vars
  BY <1>28 DEF vars, memory
<1>. HIDE DEF Inv, TypeOK, LockInv, FileInv, DiskInv
<1>. QED
  BY <1>1, <1>2, <1>3, <1>4, <1>5, <1>6, <1>7, <1>8, <1>9, <1>10, <1>11, <1>12,
       <1>13, <1>14, <1>15, <1>16, <1>17, <1>18, <1>19, <1>20, <1>21, <1>22,
       <1>23, <1>24, <1>25, <1>26, <1>27, <1>28 DEF Next, Worker, Caller,
       Event, Fault, Emitters

\* Every step keeps AnnounceInv.
LEMMA AnnounceStep ==
  ASSUME Inv, [Next]_vars
  PROVE  AnnounceInv'
<1>. USE DEF Inv, TypeOK, LockInv, QueueInv, AnnounceInv, TaskStatus,
     Terminal, Unfinished, Emitters, Sections
<1>1. ASSUME NEW t \in Tasks, DropItem(t) PROVE AnnounceInv'
  BY <1>1, Working DEF DropItem, NextItem
<1>2. ASSUME NEW t \in Tasks, TakeItem(t) PROVE AnnounceInv'
  BY <1>2, Working DEF TakeItem, NextItem
<1>3. ASSUME NEW t \in Tasks, SkipCancelled(t) PROVE AnnounceInv'
  <2>1. pc[t] # "idle" /\ future[t] # "none"
    BY <1>3 DEF SkipCancelled
  <2>2. /\ future' = [future EXCEPT ![t] = "done"]
        /\ UNCHANGED <<status, section, faults, seen, emit>>
    BY <1>3 DEF SkipCancelled, EndOfRun
  <2>. QED
    BY <2>1, <2>2
<1>4. ASSUME NEW t \in Tasks, Start(t) PROVE AnnounceInv'
  BY <1>4, Working DEF Start, Enter, LockFree
<1>5. ASSUME NEW t \in Tasks, StartPersist(t) PROVE AnnounceInv'
  BY <1>5, Working DEF StartPersist, PersistAndLeave, Leave
<1>6. ASSUME NEW t \in Tasks, CallRunner(t) PROVE AnnounceInv'
  BY <1>6, Working DEF CallRunner, Receive
<1>7. ASSUME NEW t \in Tasks, RunnerReturns(t) PROVE AnnounceInv'
  BY <1>7, Working DEF RunnerReturns
<1>8. ASSUME NEW t \in Tasks, RunnerCancelled(t) PROVE AnnounceInv'
  BY <1>8, Working DEF RunnerCancelled, Decide
<1>9. ASSUME NEW t \in Tasks, RunnerRaises(t) PROVE AnnounceInv'
  BY <1>9, Working DEF RunnerRaises, Decide
<1>10. ASSUME NEW t \in Tasks, CheckToken(t) PROVE AnnounceInv'
  BY <1>10, Working DEF CheckToken, Decide
<1>11. ASSUME NEW t \in Tasks, Finish(t) PROVE AnnounceInv'
  BY <1>11, Working DEF Finish, Enter, LockFree
<1>12. ASSUME NEW t \in Tasks, FinishPersist(t) PROVE AnnounceInv'
  BY <1>12, Working DEF FinishPersist, PersistAndLeave, Leave
<1>13. ASSUME NEW t \in Tasks, Return(t) PROVE AnnounceInv'
  <2>1. pc[t] # "idle" /\ future[t] # "none"
    BY <1>13 DEF Return
  <2>2. /\ future' = [future EXCEPT ![t] = "done"]
        /\ UNCHANGED <<status, section, faults>>
        /\ emit' = [emit EXCEPT ![t]["worker"] = "none"]
        /\ Subscribed => seen' = [seen EXCEPT ![t] = @ \cup {emit[t]["worker"]}]
        /\ emit[t]["worker"] # "due"
    BY <1>13 DEF Return, Receive, EndOfRun
  <2>. QED
    BY <2>1, <2>2
<1>14. ASSUME NEW t \in Tasks, Submit(t) PROVE AnnounceInv'
  BY <1>14, Working DEF Submit, Enter, LockFree
<1>15. ASSUME NEW t \in Tasks, SubmitPersist(t) PROVE AnnounceInv'
  BY <1>15, Working DEF SubmitPersist, PersistAndLeave, Leave
<1>16. ASSUME NEW t \in Tasks, SubmitRefused(t) PROVE AnnounceInv'
  BY <1>16, Working DEF SubmitRefused, PersistAndLeave, Leave
<1>17. ASSUME NEW t \in Tasks, Cancel(t) PROVE AnnounceInv'
  BY <1>17, Working DEF Cancel, Enter, LockFree, CancelFuture
<1>18. ASSUME NEW t \in Tasks, CancelPersist(t) PROVE AnnounceInv'
  BY <1>18, Working DEF CancelPersist, PersistAndLeave, Leave
<1>19. ASSUME NEW t \in Tasks, ListenerEndsRun(t) PROVE AnnounceInv'
  BY <1>19, Working DEF ListenerEndsRun, Raise, EndOfRun
<1>20. ASSUME NEW t \in Tasks, PersistFails(t) PROVE AnnounceInv'
  BY <1>20, Working DEF PersistFails, WriteFails, Leave
<1>21. ASSUME NEW t \in Tasks, PersistEndsRun(t) PROVE AnnounceInv'
  BY <1>21, Working DEF PersistEndsRun, WriteFails, Leave, EndOfRun
<1>22. ASSUME NEW t \in Tasks, NEW e \in Emitters, BuildEvent(t, e) PROVE
     AnnounceInv'
  BY <1>22, Working DEF BuildEvent
<1>23. ASSUME NEW t \in Tasks, NEW e \in Emitters, Deliver(t, e) PROVE AnnounceInv'
  BY <1>23, Working DEF Deliver, Receive
<1>24. ASSUME NEW t \in Tasks, NEW e \in Emitters, ListenerRaises(t, e) PROVE
     AnnounceInv'
  BY <1>24, Working DEF ListenerRaises, Raise
<1>25. CASE Close
  BY <1>25, Working DEF Close
<1>26. CASE Crash
  BY <1>26, Working DEF Crash, NoEmit
<1>27. CASE Restart
  BY <1>27 DEF Restart, DiskInv
<1>28. CASE UNCHANGED vars
  BY <1>28 DEF vars, memory
<1>. HIDE DEF Inv, TypeOK, LockInv, QueueInv, AnnounceInv, TaskStatus,
     Terminal, Unfinished, Emitters, Sections
<1>. QED
  BY <1>1, <1>2, <1>3, <1>4, <1>5, <1>6, <1>7, <1>8, <1>9, <1>10, <1>11, <1>12,
       <1>13, <1>14, <1>15, <1>16, <1>17, <1>18, <1>19, <1>20, <1>21, <1>22,
       <1>23, <1>24, <1>25, <1>26, <1>27, <1>28 DEF Next, Worker, Caller,
       Event, Fault, Emitters

\* The file changes only to what the memory of a live process holds.
LEMMA DiskChange ==
  ASSUME Inv, [Next]_vars
  PROVE  disk' = disk \/ (disk' = status /\ mode # "down")
<1>. USE DEF Inv, TypeOK, LockInv
<1>1. ASSUME NEW t \in Tasks, DropItem(t) PROVE disk' = disk \/ (disk' = status
     /\ mode # "down")
  BY <1>1, Working DEF DropItem, NextItem
<1>2. ASSUME NEW t \in Tasks, TakeItem(t) PROVE disk' = disk \/ (disk' = status
     /\ mode # "down")
  BY <1>2, Working DEF TakeItem, NextItem
<1>3. ASSUME NEW t \in Tasks, SkipCancelled(t) PROVE disk' = disk \/ (disk' =
     status /\ mode # "down")
  BY <1>3, Working DEF SkipCancelled, EndOfRun, LockFree
<1>4. ASSUME NEW t \in Tasks, Start(t) PROVE disk' = disk \/ (disk' = status /\
     mode # "down")
  BY <1>4, Working DEF Start, Enter, LockFree
<1>5. ASSUME NEW t \in Tasks, StartPersist(t) PROVE disk' = disk \/ (disk' =
     status /\ mode # "down")
  BY <1>5, Working DEF StartPersist, PersistAndLeave, Leave
<1>6. ASSUME NEW t \in Tasks, CallRunner(t) PROVE disk' = disk \/ (disk' =
     status /\ mode # "down")
  BY <1>6, Working DEF CallRunner, Receive
<1>7. ASSUME NEW t \in Tasks, RunnerReturns(t) PROVE disk' = disk \/ (disk' =
     status /\ mode # "down")
  BY <1>7, Working DEF RunnerReturns
<1>8. ASSUME NEW t \in Tasks, RunnerCancelled(t) PROVE disk' = disk \/ (disk' =
     status /\ mode # "down")
  BY <1>8, Working DEF RunnerCancelled, Decide
<1>9. ASSUME NEW t \in Tasks, RunnerRaises(t) PROVE disk' = disk \/ (disk' =
     status /\ mode # "down")
  BY <1>9, Working DEF RunnerRaises, Decide
<1>10. ASSUME NEW t \in Tasks, CheckToken(t) PROVE disk' = disk \/ (disk' =
     status /\ mode # "down")
  BY <1>10, Working DEF CheckToken, Decide
<1>11. ASSUME NEW t \in Tasks, Finish(t) PROVE disk' = disk \/ (disk' = status
     /\ mode # "down")
  BY <1>11, Working DEF Finish, Enter, LockFree
<1>12. ASSUME NEW t \in Tasks, FinishPersist(t) PROVE disk' = disk \/ (disk' =
     status /\ mode # "down")
  BY <1>12, Working DEF FinishPersist, PersistAndLeave, Leave
<1>13. ASSUME NEW t \in Tasks, Return(t) PROVE disk' = disk \/ (disk' = status
     /\ mode # "down")
  BY <1>13, Working DEF Return, Receive, EndOfRun
<1>14. ASSUME NEW t \in Tasks, Submit(t) PROVE disk' = disk \/ (disk' = status
     /\ mode # "down")
  BY <1>14, Working DEF Submit, Enter, LockFree
<1>15. ASSUME NEW t \in Tasks, SubmitPersist(t) PROVE disk' = disk \/ (disk' =
     status /\ mode # "down")
  BY <1>15, Working DEF SubmitPersist, PersistAndLeave, Leave
<1>16. ASSUME NEW t \in Tasks, SubmitRefused(t) PROVE disk' = disk \/ (disk' =
     status /\ mode # "down")
  BY <1>16, Working DEF SubmitRefused, PersistAndLeave, Leave
<1>17. ASSUME NEW t \in Tasks, Cancel(t) PROVE disk' = disk \/ (disk' = status
     /\ mode # "down")
  BY <1>17, Working DEF Cancel, Enter, LockFree, CancelFuture
<1>18. ASSUME NEW t \in Tasks, CancelPersist(t) PROVE disk' = disk \/ (disk' =
     status /\ mode # "down")
  BY <1>18, Working DEF CancelPersist, PersistAndLeave, Leave
<1>19. ASSUME NEW t \in Tasks, ListenerEndsRun(t) PROVE disk' = disk \/ (disk'
     = status /\ mode # "down")
  BY <1>19, Working DEF ListenerEndsRun, Raise, EndOfRun
<1>20. ASSUME NEW t \in Tasks, PersistFails(t) PROVE disk' = disk \/ (disk' =
     status /\ mode # "down")
  BY <1>20, Working DEF PersistFails, WriteFails, Leave
<1>21. ASSUME NEW t \in Tasks, PersistEndsRun(t) PROVE disk' = disk \/ (disk' =
     status /\ mode # "down")
  BY <1>21, Working DEF PersistEndsRun, WriteFails, Leave, EndOfRun
<1>22. ASSUME NEW t \in Tasks, NEW e \in Emitters, BuildEvent(t, e) PROVE disk'
     = disk \/ (disk' = status /\ mode # "down")
  BY <1>22, Working DEF BuildEvent
<1>23. ASSUME NEW t \in Tasks, NEW e \in Emitters, Deliver(t, e) PROVE disk' =
     disk \/ (disk' = status /\ mode # "down")
  BY <1>23, Working DEF Deliver, Receive
<1>24. ASSUME NEW t \in Tasks, NEW e \in Emitters, ListenerRaises(t, e) PROVE
     disk' = disk \/ (disk' = status /\ mode # "down")
  BY <1>24, Working DEF ListenerRaises, Raise
<1>25. CASE Close
  BY <1>25, Working DEF Close
<1>26. CASE Crash
  BY <1>26, Working DEF Crash, NoEmit
<1>27. CASE Restart
  BY <1>27, Working DEF Restart, Loaded
<1>28. CASE UNCHANGED vars
  BY <1>28 DEF vars, memory
<1>. HIDE DEF Inv, TypeOK, LockInv
<1>. QED
  BY <1>1, <1>2, <1>3, <1>4, <1>5, <1>6, <1>7, <1>8, <1>9, <1>10, <1>11, <1>12,
       <1>13, <1>14, <1>15, <1>16, <1>17, <1>18, <1>19, <1>20, <1>21, <1>22,
       <1>23, <1>24, <1>25, <1>26, <1>27, <1>28 DEF Next, Worker, Caller,
       Event, Fault, Emitters

-----------------------------------------------------------------------------
\* The invariant holds initially.
LEMMA InvInit == Init => Inv
<1>. SUFFICES ASSUME Init PROVE Inv
  OBVIOUS
<1>1. TypeOK
  BY Bounds DEF Init, TypeOK, NoEmit, Emitters, Terminal
<1>2. LockInv /\ FreshInv /\ QueueInv /\ RunInv /\ EarlyInv
  BY DEF Init, LockInv, FreshInv, QueueInv, RunInv, EarlyInv, NoEmit, Emitters
<1>3. DiskInv /\ FileInv /\ AnnounceInv
  BY DEF Init, DiskInv, FileInv, AnnounceInv, Terminal
<1>. QED
  BY <1>1, <1>2, <1>3 DEF Inv

\* Inv is an inductive invariant of the specification.
LEMMA Invariance == Spec => []Inv
<1>1. Inv /\ [Next]_vars => Inv'
  <2>. SUFFICES ASSUME Inv, [Next]_vars PROVE Inv'
    OBVIOUS
  <2>1. TypeOK'
    BY TypeStep DEF Inv
  <2>. QED
    BY <2>1, LockStep, FreshStep, QueueStep, RunStep, EarlyStep, DiskStep,
       FileStep, AnnounceStep DEF Inv
<1>. QED
  BY InvInit, <1>1, PTL DEF Spec

\* The state keeps its shape (all of DurableTaskManager's fields).
THEOREM TypeCorrect == Spec => []TypeOK
<1>1. Inv => TypeOK
  BY DEF Inv
<1>. QED
  BY <1>1, Invariance, PTL

\* The runner is called at most once for a task, over any number of crashes,
\* failed writes and raising listeners.
THEOREM RunsAtMostOnce == Spec => []AtMostOnce
<1>1. Inv => AtMostOnce
  BY DEF Inv, RunInv, AtMostOnce
<1>. QED
  BY <1>1, Invariance, PTL

\* A task cancelled in the queue never reaches the runner, whatever the pool
\* threads do between the cancel and their look at the status.
THEOREM CancelledInQueue == Spec => []CancelledInQueueNeverRuns
<1>1. Inv => CancelledInQueueNeverRuns
  BY DEF Inv, EarlyInv, CancelledInQueueNeverRuns
<1>. QED
  BY <1>1, Invariance, PTL

\* With every write successful, the file is the memory outside the lock.
THEOREM FileIsMemory == Spec => []FileMatchesMemory
<1>1. Inv => FileMatchesMemory
  BY DEF Inv, FileInv, FileMatchesMemory, LockFree
<1>. QED
  BY <1>1, Invariance, PTL

\* Whoever ends a task (cancel, the pool thread, both), the listener is told
\* the status it ended with, as long as no write fails and no listener raises.
THEOREM Announced == Spec => []FinalStatusAnnounced
<1>1. Inv => FinalStatusAnnounced
  <2>. SUFFICES ASSUME Inv, Subscribed, faults = 0, NEW t \in Tasks, Settled(t)
               PROVE  status[t] \in seen[t]
    BY DEF FinalStatusAnnounced
  <2>1. /\ status[t] \in Terminal /\ future[t] # "none"
        /\ section[t] = "none"
        /\ \A e \in Emitters : emit[t][e] = "none"
    BY DEF Settled, LockFree, NoEmit
  <2>. QED
    BY <2>1 DEF Inv, AnnounceInv, Terminal
<1>. QED
  BY <1>1, Invariance, PTL

\* No rewrite of the file loses a task or reopens a finished one, in this life
\* of the process or a later one.
THEOREM DiskAdvances == Spec => DiskOnlyAdvances
<1>. DEFINE Advances ==
       \A t \in Tasks : /\ disk[t] # "absent" => disk'[t] # "absent"
                        /\ disk[t] \in Terminal => disk'[t] \in Terminal
<1>1. Inv /\ [Next]_vars => [Advances]_vars
  <2>. SUFFICES ASSUME Inv, [Next]_vars PROVE Advances
    OBVIOUS
  <2>1. CASE disk' = disk
    BY <2>1
  <2>2. CASE disk' = status /\ mode # "down"
    BY <2>2 DEF Inv, DiskInv
  <2>. QED
    BY <2>1, <2>2, DiskChange
<1>. QED
  BY <1>1, Invariance, PTL DEF Spec, DiskOnlyAdvances
=============================================================================
