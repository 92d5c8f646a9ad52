---------------------------- MODULE RunAccounting ----------------------------
(***************************************************************************)
(* What a run has spent and what its trace says of it (observability.py):  *)
(* one RunBudget, shared by the agents of the run whatever their threads,  *)
(* and the rows and spans of the TraceStore.  The decorated model client   *)
(* and tool gateway ask the budget before a call, charge it after, and     *)
(* only then write the row; budget and store have a lock each.             *)
(*                                                                         *)
(* The agents are the planner, workers, reviewers and the aggregator, side *)
(* by side in a wave or one after the other.  Each has a span below the    *)
(* run's; an exception ends it but not the run (subagents.py,              *)
(* _run_safely).  The database may refuse any row or span, and a refused   *)
(* span leaves as an exception.  A resumed run has a new budget and the    *)
(* old trace row.                                                          *)
(***************************************************************************)
EXTENDS Naturals, FiniteSets, Folds

CONSTANTS
    Helpers,        \* the agents of the run
    Prices,         \* tokens a provider call may cost
    TokenLimit,     \* RunLimits.max_tokens
    CallLimit,      \* RunLimits.max_model_calls
    ToolLimit,      \* RunLimits.max_tool_calls
    BatchSizes,     \* how many tools an agent may ask for at once
    MaxExecutions,  \* bound: the first execution of the run and its resumes
    MaxStoreErrors  \* bound: rows and spans the trace database refuses

ASSUME AccountingAssumption ==
    /\ IsFiniteSet(Helpers) /\ "root" \notin Helpers
    /\ Prices \subseteq Nat /\ BatchSizes \subseteq Nat \ {0}
    /\ TokenLimit \in Nat \ {0} /\ CallLimit \in Nat \ {0} /\ ToolLimit \in Nat \ {0}
    /\ MaxExecutions \in Nat /\ MaxStoreErrors \in Nat

VARIABLES
    ledger,      \* RunBudget: model calls, tool calls, tokens
    expired,     \* max_seconds have passed
    execution,   \* how often the run was started or resumed
    coordinator, \* RunCoordinator: "idle", "open" (the root span) or "closing"
    runRow,      \* the status of the run's trace row
    spans,       \* the status of the spans of this execution
    hand,        \* what each agent is doing
    traced,      \* the totals of model_calls and tool_calls since it began
    storeErrors  \* for the bound

\* History variables: what the properties compare the trace with.
VARIABLES
    overBegun,   \* model calls each agent began with the tokens spent
    rowless,     \* attempts of each agent that were charged and get no row
    unclosed     \* spans whose end was refused

accounting == <<ledger, expired, execution, coordinator, runRow, spans, hand, traced,
                storeErrors, overBegun, rowless, unclosed>>

NothingSpent == [calls |-> 0, tools |-> 0, tokens |-> 0]
NoSpans == [s \in Helpers \cup {"root"} |-> "none"]
NoHand == [at |-> "off", kind |-> "none", cost |-> 0, failed |-> FALSE,
           size |-> 0, todo |-> 0]

AccountingInit ==
    /\ ledger = NothingSpent /\ expired = FALSE
    /\ execution = 0 /\ coordinator = "idle" /\ runRow = "none"
    /\ spans = NoSpans
    /\ hand = [h \in Helpers |-> NoHand]
    /\ traced = NothingSpent
    /\ storeErrors = 0
    /\ overBegun = [h \in Helpers |-> 0] /\ rowless = [h \in Helpers |-> 0]
    /\ unclosed = {}

HandsAt(places) == {h \in Helpers : hand[h].at \in places}

-----------------------------------------------------------------------------
(* RunBudget *)

TokensSpent == ledger.tokens > TokenLimit

\* before_model_call and before_tool_call: the check and the count are one step
\* under the lock; tokens are not looked at.
Admit(what, limit) ==
    /\ ~expired /\ ledger[what] < limit
    /\ ledger' = [ledger EXCEPT ![what] = @ + 1]

Refuses(what, limit) == expired \/ ledger[what] >= limit

\* after_model_call and after_tool_call raise
Passed(tokens) == expired \/ tokens > TokenLimit

-----------------------------------------------------------------------------
(* The run *)

SetSpan(span, status) == spans' = [spans EXCEPT ![span] = status]

\* The database is locked or full.
StoreRefuses == storeErrors < MaxStoreErrors /\ storeErrors' = storeErrors + 1

\* traced_span: start_span; where it is refused, what the span is of never starts.
OpenSpan(span) == SetSpan(span, "running") /\ UNCHANGED storeErrors
NoSpan == UNCHANGED spans /\ StoreRefuses

\* finish_span: where it is refused, the span stays as it is and the exception
\* goes to whoever opened it.
EndSpan(span) ==
    \/ SetSpan(span, "ended") /\ UNCHANGED <<storeErrors, unclosed>>
    \/ StoreRefuses /\ unclosed' = unclosed \cup {span} /\ UNCHANGED spans

\* begin_run or resume_run, a new RunBudget, the root span; the rows and spans of
\* an execution before stay as they are.
StartExecution ==
    /\ coordinator = "idle" /\ execution < MaxExecutions
    /\ execution' = execution + 1 /\ runRow' = "running"
    /\ ledger' = NothingSpent /\ expired' = FALSE
    /\ \/ /\ coordinator' = "open" /\ UNCHANGED storeErrors
          /\ spans' = [NoSpans EXCEPT !["root"] = "running"]
       \/ coordinator' = "closing" /\ spans' = NoSpans /\ StoreRefuses
    /\ traced' = NothingSpent
    /\ hand' = [h \in Helpers |-> NoHand]
    /\ overBegun' = [h \in Helpers |-> 0] /\ rowless' = [h \in Helpers |-> 0]
    /\ unclosed' = {}

TimePasses ==
    /\ coordinator = "open" /\ ~expired
    /\ expired' = TRUE
    /\ UNCHANGED <<ledger, execution, coordinator, runRow, spans, hand, traced,
                   storeErrors, overBegun, rowless, unclosed>>

\* The executors are shut down with wait=True; then the root span ends.  What
\* cannot be written fails the run, which is finished like any other.
CloseRoot ==
    /\ coordinator = "open" /\ HandsAt({"off", "done"}) = Helpers
    /\ coordinator' = "closing" /\ EndSpan("root")
    /\ UNCHANGED <<ledger, expired, execution, runRow, hand, traced, overBegun, rowless>>

\* finish_run, whatever the run's status
FinishRun ==
    /\ coordinator = "closing"
    /\ coordinator' = "idle" /\ runRow' = "finished"
    /\ UNCHANGED <<ledger, expired, execution, spans, hand, traced, storeErrors,
                   overBegun, rowless, unclosed>>

\* The process ends, an interrupt, which is no Exception, leaves the run, or its
\* end cannot be stored: what is still running in the trace stays so.
Abandon ==
    /\ coordinator # "idle"
    /\ coordinator' = "idle"
    /\ hand' = [h \in Helpers |-> NoHand]
    /\ UNCHANGED <<ledger, expired, execution, runRow, spans, traced, storeErrors,
                   overBegun, rowless, unclosed>>

-----------------------------------------------------------------------------
(* An agent *)

rest == <<expired, execution, coordinator, runRow>>

Put(h, state) == hand' = [hand EXCEPT ![h] = state]

\* SubAgent.run_task, run_prompt; an agent without a span leaves by the exception.
StartHelper(h) ==
    /\ coordinator = "open" /\ hand[h].at = "off"
    /\ \/ OpenSpan(h) /\ Put(h, [NoHand EXCEPT !.at = "free"])
       \/ NoSpan /\ Put(h, [NoHand EXCEPT !.at = "done"])
    /\ UNCHANGED <<ledger, rest, traced, overBegun, rowless, unclosed>>

\* Mutant: an exceeded budget is taken for an error worth another attempt.
RaisedRetries(h, kind) ==
    Put(h, [NoHand EXCEPT !.at = "free", !.kind = kind])

\* What an exception of a call does: a summary's is swallowed (memory.py,
\* _generate_summary), a turn's or a batch's ends the agent.
Raised(h, kind) ==
    Put(h, [NoHand EXCEPT !.at = IF kind = "summary" THEN "free" ELSE "ending",
                          !.kind = kind])

\* At most one summary goes before a turn; a retry repeats its call.
BeginModelCall(h, kind) ==
    /\ \/ hand[h].at = "free" /\ (kind = "summary" => hand[h].kind # "summary")
       \/ hand[h].at = "retry" /\ kind = hand[h].kind
    /\ \/ /\ Admit("calls", CallLimit)
          /\ Put(h, [NoHand EXCEPT !.at = "calling", !.kind = kind])
          /\ overBegun' = [overBegun EXCEPT ![h] = IF TokensSpent /\ @ < 3 THEN @ + 1 ELSE @]
       \/ /\ Refuses("calls", CallLimit)
          /\ Raised(h, kind)
          /\ UNCHANGED <<ledger, overBegun>>
    /\ UNCHANGED <<rest, spans, traced, storeErrors, rowless, unclosed>>

LosesRow(h) == rowless' = [rowless EXCEPT ![h] = @ + 1]

\* The answer or the failure of an attempt, which costs nothing, is charged.
\* Above a limit the charge raises, and the attempt gets no row.
ChargeModelCall(h, cost, failed) ==
    LET tokens == ledger.tokens + cost
    IN  /\ hand[h].at = "calling" /\ (failed => cost = 0)
        /\ ledger' = [ledger EXCEPT !.tokens = tokens]
        /\ IF Passed(tokens) THEN Raised(h, hand[h].kind) /\ LosesRow(h)
           ELSE /\ Put(h, [hand[h] EXCEPT !.at = "charged", !.cost = cost,
                                          !.failed = failed])
                /\ UNCHANGED rowless
        /\ UNCHANGED <<rest, spans, traced, storeErrors, overBegun, unclosed>>

\* Mutant: a failed attempt gets no row.
OnlyAnswers(h) ==
    traced' = IF hand[h].failed THEN traced
              ELSE [traced EXCEPT !.calls = @ + 1, !.tokens = @ + hand[h].cost]

\* INSERT INTO model_calls
ModelRow(h) ==
    traced' = [traced EXCEPT !.calls = @ + 1, !.tokens = @ + hand[h].cost]

\* A failed attempt may be repeated by the retrying client.
RecordModelCall(h) ==
    /\ hand[h].at = "charged" /\ ModelRow(h)
    /\ \/ Put(h, [NoHand EXCEPT !.at = IF hand[h].failed THEN "retry" ELSE "free",
                                !.kind = hand[h].kind])
       \/ hand[h].failed /\ Raised(h, hand[h].kind)
    /\ UNCHANGED <<ledger, rest, spans, storeErrors, overBegun, rowless, unclosed>>

\* The answer or the results are lost with the row.
RowRefused(h) ==
    /\ StoreRefuses
    /\ \/ hand[h].at = "charged" /\ Raised(h, hand[h].kind) /\ LosesRow(h)
       \/ hand[h].at = "reporting" /\ Raised(h, "turn") /\ UNCHANGED rowless
    /\ UNCHANGED <<ledger, rest, spans, traced, overBegun, unclosed>>

\* ObservedToolGateway.execute_many_results, a turn's answer asks for tools
AskForTools(h, size) ==
    /\ hand[h].at = "free" /\ hand[h].kind = "turn"
    /\ Put(h, [NoHand EXCEPT !.at = "admitting", !.size = size, !.todo = size])
    /\ UNCHANGED <<ledger, rest, spans, traced, storeErrors, overBegun, rowless, unclosed>>

\* Calls are counted one by one; what was counted before a refusal stays counted,
\* and none of the batch runs.
CountTool(h) ==
    /\ hand[h].at = "admitting"
    /\ \/ /\ Admit("tools", ToolLimit)
          /\ Put(h, IF hand[h].todo > 1 THEN [hand[h] EXCEPT !.todo = @ - 1]
                    ELSE [hand[h] EXCEPT !.at = "reporting", !.todo = hand[h].size])
       \/ /\ Refuses("tools", ToolLimit)
          /\ Raised(h, "turn")
          /\ UNCHANGED ledger
    /\ UNCHANGED <<rest, spans, traced, storeErrors, overBegun, rowless, unclosed>>

\* The batch has run; above a limit its further results get no rows.
ReportTool(h) ==
    /\ hand[h].at = "reporting"
    /\ IF Passed(ledger.tokens) THEN Raised(h, "turn") /\ UNCHANGED traced
       ELSE /\ traced' = [traced EXCEPT !.tools = @ + 1]
            /\ Put(h, IF hand[h].todo > 1 THEN [hand[h] EXCEPT !.todo = @ - 1]
                      ELSE [NoHand EXCEPT !.at = "free"])
    /\ UNCHANGED <<ledger, rest, spans, storeErrors, overBegun, rowless, unclosed>>

\* _run_safely has made an outcome of any exception, and the span ends; where it
\* cannot, the exception leaves run_task.
EndHelper(h) ==
    /\ hand[h].at = "ending" \/ (hand[h].at = "free" /\ hand[h].kind = "turn")
    /\ EndSpan(h)
    /\ Put(h, [NoHand EXCEPT !.at = "done"])
    /\ UNCHANGED <<ledger, rest, traced, overBegun, rowless>>

-----------------------------------------------------------------------------
AccountingNext ==
    \/ StartExecution \/ TimePasses \/ CloseRoot \/ FinishRun \/ Abandon
    \/ \E h \in Helpers :
        \/ StartHelper(h) \/ EndHelper(h)
        \/ \E kind \in {"turn", "summary"} : BeginModelCall(h, kind)
        \/ \E cost \in Prices \cup {0}, failed \in BOOLEAN : ChargeModelCall(h, cost, failed)
        \/ RecordModelCall(h) \/ RowRefused(h)
        \/ \E size \in BatchSizes : AskForTools(h, size)
        \/ CountTool(h) \/ ReportTool(h)

AccountingSpec == AccountingInit /\ [][AccountingNext]_accounting

-----------------------------------------------------------------------------
(* Properties *)

AccountingTypeOK ==
    /\ execution \in 0..MaxExecutions /\ coordinator \in {"idle", "open", "closing"}
    /\ runRow \in {"none", "running", "finished"} /\ storeErrors \in 0..MaxStoreErrors
    /\ \A h \in Helpers :
        /\ hand[h].at \in {"off", "free", "calling", "charged", "retry", "admitting",
                           "reporting", "ending", "done"}
        /\ hand[h].kind \in {"none", "turn", "summary"} /\ hand[h].todo <= hand[h].size

\* However the agents interleave, the counted limits hold, and an agent begins at
\* most two model calls once the tokens are spent: a summary, whose refusal is
\* swallowed, and a turn, whose refusal ends it.  (The tokens are looked at after
\* a call only, so every agent that is still to come makes such calls.)
OverrunBounded ==
    /\ ledger.calls <= CallLimit /\ ledger.tools <= ToolLimit
    /\ \A h \in Helpers : overBegun[h] <= 2

\* The sum over the agents
Total(of) ==
    MapThenFoldSet(+, 0, LAMBDA h : of[h], LAMBDA some : CHOOSE h \in some : TRUE, Helpers)

\* Tool calls of an agent's batch that were counted and have no row yet
Unreported(state) ==
    IF state.at = "admitting" THEN state.size - state.todo
    ELSE IF state.at = "reporting" THEN state.todo ELSE 0

\* An attempt under way that may still get its row
Awaited(state) == IF state.at \in {"calling", "charged"} THEN 1 ELSE 0

\* The trace tells what the budget was charged.  No call, token or tool is written
\* twice, and each call has its row, awaits it, or is one the trace lacks: one
\* whose row was refused or, once a limit is passed, one whose charge raised, for
\* each agent at most a summary's and a turn's.  Those are the exception to
\* observability.py:625, "Record every provider attempt", and to
\* docs/paicli-interview-qa.md:1380: before_model_call has counted the attempt,
\* and after_model_call raises before the INSERT (lines 655, 681 and 844).  Tokens
\* and tools are all in the rows or under way while no limit is passed and nothing
\* was refused.  Below an ended span, and in a finished run, no span runs but one
\* whose own end was refused.
TraceTells ==
    /\ traced.calls <= ledger.calls /\ traced.tokens <= ledger.tokens
    /\ traced.tools <= ledger.tools
    /\ coordinator # "idle" =>
        ledger.calls = traced.calls + Total([h \in Helpers |-> Awaited(hand[h]) + rowless[h]])
    /\ \A h \in Helpers :
        rowless[h] <= storeErrors + (IF Passed(ledger.tokens) THEN 2 ELSE 0)
    /\ coordinator # "idle" /\ ~Passed(ledger.tokens) /\ storeErrors = 0 =>
        /\ ledger.tokens = traced.tokens + Total([h \in Helpers |-> hand[h].cost])
        /\ ledger.tools < ToolLimit =>
            ledger.tools = traced.tools + Total([h \in Helpers |-> Unreported(hand[h])])
    /\ spans["root"] = "ended" \/ runRow = "finished" =>
        {s \in DOMAIN spans : spans[s] = "running"} \subseteq unclosed
=============================================================================
