----------------------------- MODULE TaskReview ----------------------------
(***************************************************************************)
(* One task of a Team run: TeamModeRuntime._execute_task (orchestration.py)*)
(* with ReviewerAgent.review (review.py) and what TaskCompletionPolicy and *)
(* the tool scopes (subagents.py) allow a worker's outcome to be.          *)
(*                                                                         *)
(* Each task of a wave runs in a thread of its own; the actions are the    *)
(* steps of that thread between two calls of somebody else: the worker,    *)
(* the reviewer's model, the observer.  The workers of Plan mode share the *)
(* variables; their steps are in DagExecution.                             *)
(***************************************************************************)
EXTENDS Naturals, FiniteSets

CONSTANTS Ids,              \* ids of tasks
          Files,            \* files that outcomes and reviews speak of
          MaxReviewRetries, \* max_review_retries
          MaxReviewRepairs  \* max_repair_attempts of the reviewer

VARIABLES status,    \* Task.status
          attempts,  \* how often mark_running was called in this execution
          at,        \* where the thread of each task is
          handed,    \* the tasks whose results are in the worker's TaskPacket
          changed,   \* changed_files of the last worker outcome
          unread,    \* history: files changed by any attempt that no review read since
          inspected, \* files the reviewer read in this review
          repairs,   \* invalid answers of the reviewer in this review
          judgement  \* the result of the last review

reviewVars == <<changed, unread, inspected, repairs, judgement>>
taskVars == <<status, attempts, at, handed, reviewVars>>

Places == {"idle", "top", "working", "answered", "threw", "reviewing", "judged",
           "finishing", "returned", "raised"}
Judgements == {"none", "approved", "repairable", "final", "error"}

Move(t, place) == at' = [at EXCEPT ![t] = place]
Mark(t, s) == status' = [status EXCEPT ![t] = s]

Forget(S) == /\ changed' = [t \in Ids |-> IF t \in S THEN {} ELSE changed[t]]
             /\ unread' = [t \in Ids |-> IF t \in S THEN {} ELSE unread[t]]
             /\ inspected' = [t \in Ids |-> IF t \in S THEN {} ELSE inspected[t]]
             /\ judgement' = [t \in Ids |-> IF t \in S THEN "none" ELSE judgement[t]]
             /\ UNCHANGED repairs

(* Type gives worker and policy: read-only tools change no file, an accepted *)
(* FILE_WRITE outcome has changed one.                                       *)
Changes(type, ok) ==
    {fs \in SUBSET Files : /\ type \in {"FILE_READ", "ANALYSIS", "VERIFICATION"} => fs = {}
                           /\ type = "FILE_WRITE" /\ ok => fs # {}}

-----------------------------------------------------------------------------
(* The top of the retry loop: the before_task hook, mark_running and the   *)
(* packet.  A hook that raises leaves the thread.                          *)
Start(t, known) ==
    /\ at[t] = "top"
    /\ \/ /\ Move(t, "working")
          /\ Mark(t, "running")
          /\ attempts' = [attempts EXCEPT ![t] = @ + 1]
          /\ handed' = [handed EXCEPT ![t] = known]
       \/ /\ Move(t, "raised")
          /\ UNCHANGED <<status, attempts, handed>>
    /\ UNCHANGED reviewVars

(* worker.run_task returns; a success goes to the reviewer. *)
WorkerReturns(t, type) ==
    /\ at[t] = "working"
    /\ \E ok \in BOOLEAN : \E fs \in Changes(type, ok) :
          /\ changed' = [changed EXCEPT ![t] = fs]
          /\ unread' = [unread EXCEPT ![t] = @ \cup fs]
          /\ IF ok THEN Move(t, "reviewing") /\ UNCHANGED status
                   ELSE Move(t, "finishing") /\ Mark(t, "failed")
    /\ inspected' = [inspected EXCEPT ![t] = {}]
    /\ judgement' = [judgement EXCEPT ![t] = "none"]
    /\ UNCHANGED <<attempts, handed, repairs>>

Judge(t, j) == /\ judgement' = [judgement EXCEPT ![t] = j]
               /\ repairs' = [repairs EXCEPT ![t] = 0]
               /\ Move(t, "judged")

(* The reviewer's model run does not succeed. *)
ReviewerFails(t) ==
    /\ at[t] = "reviewing"
    /\ Judge(t, "error")
    /\ UNCHANGED <<status, attempts, handed, changed, unread, inspected>>

(* The reviewer has read some files; what it read counts for the rest of   *)
(* this review.                                                            *)
Inspect(t, read) ==
    /\ inspected' = [inspected EXCEPT ![t] = @ \cup read]
    /\ unread' = [unread EXCEPT ![t] = @ \ read]

(* Its answer is no review; it is asked again max_repair_attempts times.   *)
ReviewerBabbles(t) ==
    /\ at[t] = "reviewing"
    /\ \E read \in SUBSET Files : Inspect(t, read)
    /\ IF repairs[t] >= MaxReviewRepairs
       THEN Judge(t, "error")
       ELSE repairs' = [repairs EXCEPT ![t] = @ + 1] /\ UNCHANGED <<judgement, at>>
    /\ UNCHANGED <<status, attempts, handed, changed>>

(* Mutant: an approval is taken for what it says. *)
Narrative(verdict, retryable, terminal, fs, seen) ==
    CASE verdict = "approved" -> "approved"
      [] verdict = "rejected" -> IF fs # {} /\ ~terminal THEN "repairable" ELSE "final"
      [] verdict = "changes_requested" -> IF retryable THEN "repairable" ELSE "final"

(* What review makes of a parsed answer: a rejection after changes becomes *)
(* a request for changes unless its words name a terminal reason, and an   *)
(* approval without a read of every changed file becomes one too.          *)
Verdict(verdict, retryable, terminal, fs, seen) ==
    CASE verdict = "approved" -> IF fs \subseteq seen THEN "approved" ELSE "repairable"
      [] verdict = "rejected" -> IF fs # {} /\ ~terminal THEN "repairable" ELSE "final"
      [] verdict = "changes_requested" -> IF retryable THEN "repairable" ELSE "final"

ReviewerAnswers(t) ==
    /\ at[t] = "reviewing"
    /\ \E read \in SUBSET Files, retryable, terminal \in BOOLEAN,
          verdict \in {"approved", "changes_requested", "rejected"} :
          /\ Inspect(t, read)
          /\ Judge(t, Verdict(verdict, retryable, terminal, changed[t], inspected'[t]))
    /\ UNCHANGED <<status, attempts, handed, changed>>

(* The review_finished hook, then what follows from the verdict. *)
Settle(t) ==
    /\ at[t] = "judged"
    /\ \/ Move(t, "raised") /\ UNCHANGED status
       \/ judgement[t] = "approved" /\ Mark(t, "completed") /\ Move(t, "finishing")
       \/ judgement[t] \in {"error", "final"} /\ Mark(t, "failed") /\ Move(t, "finishing")
       \/ /\ judgement[t] = "repairable"
          /\ IF attempts[t] > MaxReviewRetries
             THEN Mark(t, "failed") /\ Move(t, "finishing")
             ELSE Move(t, "top") /\ UNCHANGED status
    /\ UNCHANGED <<attempts, handed, reviewVars>>

(* finish: the after_task hook. *)
Finish(t) ==
    /\ at[t] = "finishing"
    /\ Move(t, "returned") \/ Move(t, "raised")
    /\ UNCHANGED <<status, attempts, handed, reviewVars>>
=============================================================================
