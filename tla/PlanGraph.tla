----------------------------- MODULE PlanGraph -----------------------------
(***************************************************************************)
(* The graph algorithms of planning.py: PlanValidator, DagScheduler and    *)
(* TaskConcurrencyPolicy.                                                  *)
(*                                                                         *)
(* A plan is a record of functions on the ids of its tasks:                *)
(*   place  the position of the task in plan.tasks                         *)
(*   deps   its dependencies                                               *)
(*   type   its task_type                                                  *)
(*   text   stands for everything else the planner wrote about the task:   *)
(*          description, acceptance criteria, order of the dependencies    *)
(* Ids are unique because place is a function; what the validator says of  *)
(* empty or repeated ids and of empty texts is left to the planner's       *)
(* replies of DagExecution that hold no plan.                              *)
(***************************************************************************)
EXTENDS Naturals, FiniteSetsExt, Sequences

TaskTypes == {"FILE_READ", "FILE_WRITE", "COMMAND", "ANALYSIS", "VERIFICATION"}
ParallelTypes == {"FILE_READ", "ANALYSIS"}
TaskStatuses == {"pending", "running", "completed", "failed", "skipped"}

Members(p) == DOMAIN p.place
First(p, S) == CHOOSE t \in S : \A u \in S : p.place[t] <= p.place[u]

-----------------------------------------------------------------------------
(* Mutant: finished tasks are not told from those on the stack. *)
NoRevisit(p) ==
    LET visit[call \in Members(p) \X (SUBSET Members(p))] ==
            LET t == call[1]  visited == call[2]
                Then(d, search) == IF search.acyclic THEN visit[<<d, search.visited>>] ELSE search
            IN  IF t \in visited THEN [acyclic |-> FALSE, visited |-> visited]
                ELSE FoldSet(Then, [acyclic |-> TRUE, visited |-> visited \cup {t}], p.deps[t])
    IN  \A t \in Members(p) : visit[<<t, {}>>].acyclic

(* PlanValidator.  visit is the depth-first search of validate: visiting   *)
(* are the tasks on its stack, visited those it has finished.              *)
NoCycle(p) ==
    LET visit[call \in Members(p) \X (SUBSET Members(p)) \X (SUBSET Members(p))] ==
            LET t == call[1]  visiting == call[2]  visited == call[3]
                Then(d, search) == IF search.acyclic
                                   THEN visit[<<d, visiting \cup {t}, search.visited>>]
                                   ELSE search
                below == FoldSet(Then, [acyclic |-> TRUE, visited |-> visited], p.deps[t])
            IN  IF t \in visiting THEN [acyclic |-> FALSE, visited |-> visited]
                ELSE IF t \in visited THEN [acyclic |-> TRUE, visited |-> visited]
                ELSE [below EXCEPT !.visited = @ \cup {t}]
        From(t, search) == IF search.acyclic THEN visit[<<t, {}, search.visited>>] ELSE search
    IN  FoldSet(From, [acyclic |-> TRUE, visited |-> {}], Members(p)).acyclic

Validates(p) ==
    /\ Members(p) # {}
    /\ \A t \in Members(p) : p.deps[t] \subseteq Members(p) \ {t}
    /\ NoCycle(p)

(* What it is for: the tasks can be ranked so that dependencies come first. *)
IsRank(p, r) == \A t \in Members(p) : \A d \in p.deps[t] : r[d] < r[t]
IsDag(p) == /\ Members(p) # {}
            /\ \A t \in Members(p) : p.deps[t] \subseteq Members(p)
            /\ \E r \in [Members(p) -> 1 .. Cardinality(Members(p))] : IsRank(p, r)

-----------------------------------------------------------------------------
(* DagScheduler.topological_order: of the tasks whose indegree has dropped *)
(* to zero, the first of the plan is taken.                                *)
TopologicalOrder(p) ==
    LET ToTake(taken) == {t \in Members(p) \ taken : p.deps[t] \subseteq taken}
        order[taken \in SUBSET Members(p)] ==
            IF ToTake(taken) = {} THEN <<>>
            ELSE LET t == First(p, ToTake(taken)) IN <<t>> \o order[taken \cup {t}]
    IN  order[{}]

(* DagScheduler.execution_batches: all of them at once. *)
ExecutionBatches(p) ==
    LET batches[visited \in SUBSET Members(p)] ==
            LET current == {t \in Members(p) \ visited : p.deps[t] \subseteq visited}
            IN  IF current = {} THEN <<>> ELSE <<current>> \o batches[visited \cup current]
    IN  batches[{}]

(* What a topological order is: every task once, after its dependencies,   *)
(* and before every earlier task of the plan only if that one still waited *)
(* for something.                                                          *)
IsStableOrder(p, s) ==
    /\ {s[i] : i \in DOMAIN s} = Members(p)
    /\ Len(s) = Cardinality(Members(p))
    /\ \A i, j \in DOMAIN s : s[j] \in p.deps[s[i]] => j < i
    /\ \A i, j \in DOMAIN s : i < j /\ p.place[s[j]] < p.place[s[i]] =>
           \E k \in i .. j : s[k] \in p.deps[s[j]]

(* What the batches are: a task's batch is the length of the longest chain *)
(* of dependencies that ends in it.                                        *)
IsLayering(p, b) ==
    \E level \in [Members(p) -> DOMAIN b] :
        /\ \A t \in Members(p) : level[t] = 1 + Max({0} \cup {level[d] : d \in p.deps[t]})
        /\ \A k \in DOMAIN b : b[k] = {t \in Members(p) : level[t] = k}

-----------------------------------------------------------------------------
(* Runtime readiness. *)

(* Mutants: a failed dependency lets a task run; a waiting one blocks it. *)
ReadyAnyway(p, status) ==
    {t \in Members(p) : status[t] = "pending" /\ \A d \in p.deps[t] : status[d] \notin {"pending", "running"}}
BlockedByWaiting(p, status) ==
    {t \in Members(p) : status[t] = "pending" /\ \E d \in p.deps[t] : status[d] # "completed"}

Ready(p, status) ==
    {t \in Members(p) : status[t] = "pending" /\ \A d \in p.deps[t] : status[d] = "completed"}
Blocked(p, status) ==
    {t \in Members(p) : status[t] = "pending" /\ \E d \in p.deps[t] : status[d] \in {"failed", "skipped"}}
Completed(p, status) == {t \in Members(p) : status[t] = "completed"}
IsFinished(p, status) ==
    \A t \in Members(p) : status[t] \in {"completed", "failed", "skipped"}

(* TaskConcurrencyPolicy.execution_waves, one wave at a time: the first of *)
(* the remaining tasks alone, or the tasks up to the first that must run   *)
(* alone, max_workers of them at most.                                     *)
MayShareAny(p, t, maxWorkers) == maxWorkers > 1 \* mutant: the types are not looked at
MayShare(p, t, maxWorkers) == maxWorkers > 1 /\ p.type[t] \in ParallelTypes
UpTo(p, tasks, t) == {u \in tasks : p.place[u] <= p.place[t]}
NextWave(p, tasks, maxWorkers) ==
    LET together == {t \in tasks : /\ \A u \in UpTo(p, tasks, t) : MayShare(p, u, maxWorkers)
                                   /\ Cardinality(UpTo(p, tasks, t)) <= maxWorkers}
    IN  IF together = {} THEN {First(p, tasks)} ELSE together

(* The waves as the code builds them, from the list of ready tasks. *)
ExecutionWaves(p, tasks, maxWorkers) ==
    LET build[call \in (SUBSET tasks) \X (SUBSET tasks)] ==
            LET rest == call[1]  current == call[2]
                flushed == IF current = {} THEN <<>> ELSE <<current>>
                t == First(p, rest)
            IN  IF rest = {} THEN flushed
                ELSE IF ~MayShare(p, t, maxWorkers)
                     THEN flushed \o <<{t}>> \o build[<<rest \ {t}, {}>>]
                ELSE IF Cardinality(current \cup {t}) >= maxWorkers
                     THEN <<current \cup {t}>> \o build[<<rest \ {t}, {}>>]
                ELSE build[<<rest \ {t}, current \cup {t}>>]
    IN  build[<<tasks, {}>>]
=============================================================================
