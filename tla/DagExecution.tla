---------------------------- MODULE DagExecution ---------------------------
(***************************************************************************)
(* A Plan or Team run from the goal to its end: planning with repair       *)
(* (LlmPlanner), the user's review of the plan (PlanModeRuntime.run), the  *)
(* scheduling loops of PlanExecuteAgent and TeamModeRuntime, and one       *)
(* replacement plan after a failure.                                       *)
(*                                                                         *)
(* Only one thread, the main thread of the run, changes the plan; it waits *)
(* for all tasks of a wave before it goes on.  phase says where it is.     *)
(* The observer's hooks (checkpoints and snapshots, modelled by            *)
(* RunRecovery) may raise at every call.                                   *)
(***************************************************************************)
EXTENDS PlanGraph, TaskReview

CONSTANTS Proposals,       \* plans the planner's model may propose, valid or not
          Resumable,       \* those a stored run may have been started with
          MaxWorkers,      \* max_workers of the TaskConcurrencyPolicy
          MaxPlanRepairs,  \* max_repair_attempts of the planner
          MaxPlanRevisions \* max_plan_revisions

VARIABLES mode,        \* "plan" or "team"
          phase,       \* where the main thread is
          plan,        \* the plan it works on
          invalid,     \* replies of the planner that were refused in this request
          revisions,   \* plans the user had revised
          allowReplan, \* allow_replan of PlanExecuteAgent.execute
          layer,       \* tasks of the ready layer that are in no wave yet
          results,     \* tasks whose results the next workers are given
          doneAs       \* history: the task as it was when its result was made

planVars == <<mode, plan, invalid, revisions, allowReplan>>
vars == <<planVars, phase, layer, results, doneAs, taskVars>>

NoPlan == [place |-> <<>>, deps |-> <<>>, type |-> <<>>, text |-> <<>>]
NoTask == [deps |-> {}, type |-> "ANALYSIS", text |-> 0]
Ended == {"finished", "cancelled", "raised"}
Asking == {"create", "revise", "replan"}
Phases == Ended \cup Asking \cup {"approval", "accepted", "dispatch", "waves", "wave", "blocking",
                      "blocking_layer"}

IsProposal(p) ==
    /\ DOMAIN p = {"place", "deps", "type", "text"}
    /\ Members(p) \subseteq Ids
    /\ p.place \in [Members(p) -> Nat]
    /\ \A t, u \in Members(p) : p.place[t] = p.place[u] => t = u
    /\ p.deps \in [Members(p) -> SUBSET Ids]
    /\ p.type \in [Members(p) -> TaskTypes]
    /\ p.text \in [Members(p) -> Nat]

ASSUME PlanParameters ==
    /\ IsFiniteSet(Ids)
    /\ MaxWorkers \in Nat \ {0}
    /\ {MaxPlanRepairs, MaxPlanRevisions, MaxReviewRetries, MaxReviewRepairs} \subseteq Nat
    /\ Resumable \subseteq Proposals
    /\ \A p \in Proposals : IsProposal(p)

ValidPlans == {p \in Proposals : Validates(p)}

(* What inherit_completed_from compares of a task. *)
Content(p, t) == [deps |-> p.deps[t], type |-> p.type[t], text |-> p.text[t]]

Contents == {NoTask} \cup UNION {{Content(p, t) : t \in Members(p)} : p \in Proposals}

Wave == {t \in Ids : at[t] # "idle"}
Idle == [t \in Ids |-> "idle"]

-----------------------------------------------------------------------------
(* What a stored plan may hold when it is resumed: _prepare_resume resets  *)
(* running tasks only.                                                     *)
Stored(p, st) ==
    /\ \A t \in Ids \ Members(p) : st[t] = "pending"
    /\ \A t \in Members(p) : st[t] = "failed" => p.deps[t] \subseteq Completed(p, st)
    /\ \A t \in Members(p) : st[t] = "skipped" =>
           \E d \in p.deps[t] : st[d] \in {"failed", "skipped"}

(* A fresh run asks for a plan; a resumed one has a stored plan, which is  *)
(* validated again.  Only the Team mode calls plan_ready then.             *)
Init ==
    /\ mode \in {"plan", "team"}
    /\ \/ phase = "create" /\ plan = NoPlan /\ status = [t \in Ids |-> "pending"]
       \/ /\ phase = IF mode = "plan" THEN "dispatch" ELSE "accepted"
          /\ plan \in ValidPlans \cap Resumable
          /\ status \in [Ids -> TaskStatuses \ {"running"}]
          /\ Stored(plan, status)
    /\ invalid = 0 /\ revisions = 0
    /\ allowReplan = TRUE
    /\ layer = {} /\ results = Completed(plan, status)
    /\ doneAs = [t \in Ids |-> IF status[t] = "completed" THEN Content(plan, t) ELSE NoTask]
    /\ attempts = [t \in Ids |-> 0]
    /\ at = Idle
    /\ handed = [t \in Ids |-> {}]
    /\ changed = [t \in Ids |-> {}]
    /\ unread = [t \in Ids |-> {}]
    /\ inspected = [t \in Ids |-> {}]
    /\ repairs = [t \in Ids |-> 0]
    /\ judgement = [t \in Ids |-> "none"]

-----------------------------------------------------------------------------
(* LlmPlanner._generate, for create_plan, revise_plan and replan. *)

(* The main thread goes on with this plan: completed_results, new Tasks. *)
Enter(p, st) ==
    /\ plan' = p
    /\ status' = st
    /\ layer' = {}
    /\ results' = Completed(p, st)
    /\ attempts' = [t \in Ids |-> 0]

(* Mutant: what was completed stays completed if its id is used again. *)
InheritIds(p) == [t \in Ids |-> IF t \in Members(p) \cap Completed(plan, status)
                                THEN "completed" ELSE "pending"]

(* inherit_completed_from: what was completed and is the same task. *)
Inherit(p) == [t \in Ids |-> IF /\ t \in Members(p) \cap Completed(plan, status)
                                /\ Content(p, t) = Content(plan, t)
                             THEN "completed" ELSE "pending"]

(* Mutant: the replacement may be replaced again. *)
ReplaceAgain(p) == /\ Enter(p, Inherit(p))
                   /\ phase' = "dispatch"
                   /\ UNCHANGED <<allowReplan, revisions>>

(* execute(replacement, allow_replan=False) *)
Replace(p) == /\ Enter(p, Inherit(p))
              /\ phase' = "dispatch"
              /\ allowReplan' = FALSE
              /\ UNCHANGED revisions

(* A reply holds a valid plan. *)
PlannerPlans ==
    /\ phase \in Asking
    /\ \E p \in ValidPlans :
          IF phase = "replan" THEN Replace(p)
          ELSE /\ Enter(p, [t \in Ids |-> "pending"])
               /\ phase' = IF mode = "plan" THEN "approval" ELSE "accepted"
               /\ revisions' = IF phase = "revise" THEN revisions + 1 ELSE revisions
               /\ UNCHANGED allowReplan
    /\ invalid' = 0
    /\ UNCHANGED <<mode, doneAs, at, handed, reviewVars>>

(* create_plan and revise_plan raise out of the run; the Plan loop catches *)
(* what replan raises and goes on with the plan it has.                    *)
GiveUp == /\ invalid' = 0
          /\ phase' = IF phase = "replan" THEN "blocking_layer" ELSE "raised"

(* A reply is no plan, or not a valid one; the planner may ask again. *)
PlannerBabbles ==
    /\ phase \in Asking
    /\ IF invalid < MaxPlanRepairs THEN invalid' = invalid + 1 /\ UNCHANGED phase ELSE GiveUp
    /\ UNCHANGED <<mode, plan, revisions, allowReplan, layer, results, doneAs, taskVars>>

(* The model call fails; or the planner, which need not be the LLM's, keeps *)
(* the plan.                                                                *)
PlannerFails ==
    /\ phase \in Asking
    /\ GiveUp
    /\ UNCHANGED <<mode, plan, revisions, allowReplan, layer, results, doneAs, taskVars>>

-----------------------------------------------------------------------------
(* The user decides about the plan, or there is no approval handler.  The  *)
(* count of revisions is a local variable of run and ends with the review. *)
Execute ==
    /\ phase = "approval"
    /\ phase' = "accepted"
    /\ revisions' = 0
    /\ UNCHANGED <<mode, plan, invalid, allowReplan, layer, results, doneAs, taskVars>>

Cancel ==
    /\ phase = "approval"
    /\ phase' = "cancelled"
    /\ UNCHANGED <<planVars, layer, results, doneAs, taskVars>>

(* Mutant: the limit is off by one. *)
SupplementLate ==
    /\ phase = "approval"
    /\ phase' = IF revisions > MaxPlanRevisions THEN "cancelled" ELSE "revise"
    /\ UNCHANGED <<planVars, layer, results, doneAs, taskVars>>

Supplement ==
    /\ phase = "approval"
    /\ phase' = IF revisions >= MaxPlanRevisions THEN "cancelled" ELSE "revise"
    /\ UNCHANGED <<planVars, layer, results, doneAs, taskVars>>

(* The plan_ready hook. *)
PlanReady ==
    /\ phase = "accepted"
    /\ phase' \in {"dispatch", "raised"}
    /\ UNCHANGED <<planVars, layer, results, doneAs, taskVars>>

-----------------------------------------------------------------------------
(* The loop over ready layers, in both modes. *)
OpenLayer ==
    /\ phase = "dispatch"
    /\ ~IsFinished(plan, status)
    /\ Ready(plan, status) # {}
    /\ layer' = Ready(plan, status)
    /\ results' = IF mode = "team" THEN Completed(plan, status) ELSE results
    /\ phase' = "waves"
    /\ UNCHANGED <<planVars, doneAs, taskVars>>

(* Nothing is ready: tasks behind a failure are skipped.  Without one, "a  *)
(* valid DAG should not reach this branch".                                *)
NothingReady ==
    /\ phase = "dispatch"
    /\ ~IsFinished(plan, status)
    /\ Ready(plan, status) = {}
    /\ IF Blocked(plan, status) # {}
       THEN phase' = "blocking" /\ UNCHANGED status
       ELSE /\ phase' = "finished"
            /\ status' = [t \in Ids |-> IF t \in Members(plan) /\ status[t] = "pending"
                                         THEN "skipped" ELSE status[t]]
    /\ UNCHANGED <<planVars, layer, results, doneAs, attempts, at, handed, reviewVars>>

AllSettled ==
    /\ phase = "dispatch"
    /\ IsFinished(plan, status)
    /\ phase' = "finished"
    /\ UNCHANGED <<planVars, layer, results, doneAs, taskVars>>

(* mark_blocked, one pass of its loop; called from dispatch or after a wave. *)
MarkBlocked ==
    /\ phase \in {"blocking", "blocking_layer"}
    /\ IF Blocked(plan, status) # {}
       THEN /\ status' = [t \in Ids |-> IF t \in Blocked(plan, status) THEN "skipped" ELSE status[t]]
            /\ UNCHANGED phase
       ELSE /\ phase' = IF phase = "blocking" THEN "dispatch" ELSE "waves"
            /\ UNCHANGED status
    /\ UNCHANGED <<planVars, layer, results, doneAs, attempts, at, handed, reviewVars>>

CloseLayer ==
    /\ phase = "waves"
    /\ layer = {}
    /\ phase' = "dispatch"
    /\ UNCHANGED <<planVars, layer, results, doneAs, taskVars>>

(* TaskPacket.from_task: the results of those direct dependencies that are *)
(* among the results at hand.                                              *)
Packet(t) == plan.deps[t] \cap results

NextTasks == NextWave(plan, layer, MaxWorkers)

(* PlanExecuteAgent._execute_wave up to the calls of the executor: hook and *)
(* mark_running for one task after the other.                              *)
RunningIn(W) == /\ status' = [t \in Ids |-> IF t \in W THEN "running" ELSE status[t]]
                /\ attempts' = [t \in Ids |-> IF t \in W THEN attempts[t] + 1 ELSE attempts[t]]
                /\ handed' = [t \in Ids |-> IF t \in W THEN Packet(t) ELSE handed[t]]
BeginPlanWave ==
    /\ phase = "waves" /\ mode = "plan" /\ layer # {}
    /\ layer' = layer \ NextTasks
    /\ \/ /\ RunningIn(NextTasks)
          /\ at' = [t \in Ids |-> IF t \in NextTasks THEN "working" ELSE "idle"]
          /\ phase' = "wave"
       \/ \E t \in NextTasks :
             /\ RunningIn(UpTo(plan, NextTasks, t) \ {t})
             /\ phase' = "raised"
             /\ UNCHANGED at
    /\ UNCHANGED <<planVars, results, doneAs, reviewVars>>

(* TeamModeRuntime._execute_wave up to the start of the threads. *)
BeginTeamWave ==
    /\ phase = "waves" /\ mode = "team" /\ layer # {}
    /\ layer' = layer \ NextTasks
    /\ at' = [t \in Ids |-> IF t \in NextTasks THEN "top" ELSE "idle"]
    /\ phase' = "wave"
    /\ UNCHANGED <<planVars, results, doneAs, status, attempts, handed, reviewVars>>

-----------------------------------------------------------------------------
(* The threads of a wave. *)

(* _PlanWorkerExecutor: a worker that does not succeed raises. *)
PlanWorker(t) ==
    /\ mode = "plan" /\ at[t] = "working"
    /\ Move(t, "answered") \/ Move(t, "threw")
    /\ UNCHANGED <<planVars, phase, layer, results, doneAs, status, attempts, handed, reviewVars>>

Done(S) == doneAs' = [t \in Ids |-> IF t \in S THEN Content(plan, t) ELSE doneAs[t]]

TeamThread(t) ==
    /\ mode = "team" /\ t \in Members(plan)
    /\ \/ Start(t, Packet(t))
       \/ WorkerReturns(t, plan.type[t])
       \/ ReviewerFails(t)
       \/ ReviewerBabbles(t)
       \/ ReviewerAnswers(t)
       \/ Settle(t)
       \/ Finish(t)
    /\ Done({u \in {t} : status'[u] = "completed"})
    /\ UNCHANGED <<planVars, phase, layer, results>>

(* PlanExecuteAgent._execute_wave after the last worker ended: marks and   *)
(* after_task hooks in the order of the wave; then the rest of the loop's  *)
(* body up to mark_blocked.                                                *)
Answered(W) == {t \in W : at[t] = "answered"}
Threw(W) == {t \in W : at[t] = "threw"}
Collect(W) == /\ status' = [t \in Ids |-> IF t \in Answered(W) THEN "completed"
                                           ELSE IF t \in Threw(W) THEN "failed" ELSE status[t]]
              /\ Done(Answered(W))
JoinPlanWave ==
    /\ phase = "wave" /\ mode = "plan"
    /\ \A t \in Wave : at[t] \in {"answered", "threw"}
    /\ at' = Idle
    /\ \/ /\ Collect(Wave)
          /\ results' = results \cup Answered(Wave)
          /\ phase' = IF Threw(Wave) = {} THEN "waves"
                      ELSE IF allowReplan THEN "replan" ELSE "blocking_layer"
       \/ \E t \in Wave :
             /\ Collect(UpTo(plan, Wave, t))
             /\ phase' = "raised"
             /\ UNCHANGED results
    /\ UNCHANGED <<planVars, layer, attempts, handed, reviewVars>>

(* TeamModeRuntime._execute_wave: a thread that raised fails its task,     *)
(* whatever the task was before.  What is known of the last attempt of a   *)
(* failed task stays in its record, for the report; no step reads it again *)
(* and it is forgotten here.                                               *)
JoinTeamWave ==
    /\ phase = "wave" /\ mode = "team"
    /\ \A t \in Wave : at[t] \in {"returned", "raised"}
    /\ status' = [t \in Ids |-> IF at[t] = "raised" THEN "failed" ELSE status[t]]
    /\ results' = Completed(plan, status')
    /\ at' = Idle
    /\ phase' = "blocking_layer"
    /\ Forget({t \in Wave : status'[t] = "failed"})
    /\ UNCHANGED <<planVars, layer, doneAs, attempts, handed>>

-----------------------------------------------------------------------------
Planner == PlannerPlans \/ PlannerBabbles \/ PlannerFails
User == Execute \/ Cancel \/ Supplement
Loop == OpenLayer \/ NothingReady \/ AllSettled \/ MarkBlocked \/ CloseLayer
Waves == BeginPlanWave \/ BeginTeamWave \/ JoinPlanWave \/ JoinTeamWave
Thread(t) == PlanWorker(t) \/ TeamThread(t)

Next == Planner \/ User \/ PlanReady \/ Loop \/ Waves \/ \E t \in Ids : Thread(t)

(* Every model call ends (the client has deadlines and bounded retries, an *)
(* agent bounded rounds) and no thread is starved; the user may never      *)
(* decide.                                                                 *)
Fairness == /\ WF_vars(Planner) /\ WF_vars(PlanReady) /\ WF_vars(Loop) /\ WF_vars(Waves)
            /\ \A t \in Ids : WF_vars(Thread(t))

Spec == Init /\ [][Next]_vars /\ Fairness

-----------------------------------------------------------------------------
(* Types of all variables. *)
TypeOK ==
    /\ mode \in {"plan", "team"}
    /\ phase \in Phases
    /\ plan = NoPlan \/ plan \in Proposals
    /\ invalid \in 0 .. MaxPlanRepairs
    /\ revisions \in 0 .. MaxPlanRevisions
    /\ allowReplan \in BOOLEAN
    /\ layer \subseteq Members(plan)
    /\ results \subseteq Members(plan)
    /\ doneAs \in [Ids -> Contents]
    /\ status \in [Ids -> TaskStatuses]
    /\ attempts \in [Ids -> 0 .. MaxReviewRetries + 1]
    /\ at \in [Ids -> Places]
    /\ Wave \subseteq Members(plan)
    /\ handed \in [Ids -> SUBSET Ids]
    /\ {changed, unread, inspected} \subseteq [Ids -> SUBSET Files]
    /\ repairs \in [Ids -> 0 .. MaxReviewRepairs]
    /\ judgement \in [Ids -> Judgements]

(* The depth-first search of the validator finds every cycle and nothing   *)
(* else, wherever it begins, and a plan it accepts has a stable            *)
(* topological order, its layers, and waves that do not depend on whether  *)
(* they are built at once or one after the other (planning.py: validate,   *)
(* topological_order, execution_batches, execution_waves).  Only the       *)
(* dependencies are looked at: that a FILE_WRITE needs a VERIFICATION      *)
(* behind it, as docs/paicli-interview-qa.md:140, 388 and 470 have it, is  *)
(* no rule of PlanValidator (planning.py:221-269) and not claimed here.    *)
PlansAndSchedules ==
    /\ phase = "create" => \A p \in Proposals :
           Validates(p) <=> IsDag(p) /\ \A t \in Members(p) : t \notin p.deps[t]
    /\ phase = "accepted" => /\ IsStableOrder(plan, TopologicalOrder(plan))
                             /\ IsLayering(plan, ExecutionBatches(plan))
    /\ phase = "waves" /\ layer # {} =>
           ExecutionWaves(plan, layer, MaxWorkers)
           = <<NextTasks>> \o ExecutionWaves(plan, layer \ NextTasks, MaxWorkers)

(* A worker is started only when all direct dependencies are completed,    *)
(* its packet holds the result of each of them (from_task drops silently   *)
(* what it does not find), and none of them is anything but completed      *)
(* later, although hooks that raise turn completed tasks into failed ones. *)
DependenciesHold ==
    \A t \in Members(plan) : attempts[t] > 0 =>
        \A d \in plan.deps[t] : status[d] = "completed" /\ d \in handed[t]

(* "FILE_WRITE, COMMAND, and VERIFICATION tasks run alone": no task that   *)
(* may change the workspace shares a wave, in either mode, and no wave is  *)
(* larger than the worker limit (execution_waves).                         *)
MutatorsRunAlone ==
    /\ Cardinality(Wave) <= MaxWorkers
    /\ \A t, u \in Wave : t # u => plan.type[t] \in ParallelTypes

(* "A valid DAG should not reach this branch" (planning.py, orchestration.py): *)
(* a task is skipped only behind a dependency that failed or was skipped.  *)
SkippedBehindFailure ==
    \A t \in Members(plan) : status[t] = "skipped" =>
        \E d \in plan.deps[t] : status[d] \in {"failed", "skipped"}

(* Reviewer failure, invalid output, rejection, unresolved changes and an  *)
(* approval that did not look at what the worker changed never complete a  *)
(* Team task; and the worker is not run more often than the retries allow. *)
CompletedByReview ==
    mode = "team" => \A t \in Members(plan) :
        /\ attempts[t] > 0 /\ status[t] = "completed" =>
               judgement[t] = "approved" /\ changed[t] \subseteq inspected[t]
        /\ attempts[t] <= MaxReviewRetries + 1

(* A completed task of a replacement plan was done as it is described      *)
(* there: same dependencies, type and text (inherit_completed_from).       *)
ResultsMatchTheirTask ==
    \A t \in Members(plan) : status[t] = "completed" => doneAs[t] = Content(plan, t)

(* Whatever workers, reviewers, planner and hooks do, a run ends or waits  *)
(* for the user, and a run that finishes leaves no task pending or running.*)
RunEnds ==
    []<>(/\ phase \in Ended \cup {"approval"}
         /\ phase = "finished" => IsFinished(plan, status))

(* "Review approval also requires actual read evidence for every changed   *)
(* artifact" (docs/phase-09-dashscope-live.md:71): a completed Team task   *)
(* has no changed file that no review has read since.                      *)
EveryArtifactRead ==
    mode = "team" => \A t \in Members(plan) :
        attempts[t] > 0 /\ status[t] = "completed" => unread[t] = {}
=============================================================================
