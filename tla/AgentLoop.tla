------------------------------ MODULE AgentLoop ------------------------------
(***************************************************************************)
(* One ReAct agent of an interactive session: the shared model -> tool ->  *)
(* observation loop (agents/loop.py), its per-run budget                   *)
(* (agents/budget.py), the completion gate (agents/models.py), the history *)
(* it keeps from one prompt to the next (agent.py), what it sends of that  *)
(* history (memory.py, context.py), the retrying client (llm_client.py)    *)
(* and the run budget the decorated client and gateway charge              *)
(* (observability.py).                                                     *)
(*                                                                         *)
(* A message is its role and the tool-call ids it carries; every message   *)
(* weighs one token of the estimate.  What a model call costs is a member  *)
(* of Costs.  What a diagnosis says of a file after an edit is anything:   *)
(* the language server may be wrong, late or missing (LanguageServer).     *)
(***************************************************************************)
EXTENDS Naturals, Sequences, FiniteSets

CONSTANTS
    Batches,        \* the tool batches the model may ask for: sequences over Tools
    Views,          \* what a read may return
    Costs,          \* tokens a provider call may report
    Paths,          \* names under which results report changed files
    MaxPrompts,     \* bound: prompts of the session
    MaxFirstTurns,  \* bound: model turns after which no further prompt is given
    MaxIterations,  \* AgentBudget.hard_max_iterations
    Window,         \* AgentBudget.stagnation_window
    TokenBudget,    \* AgentBudget.token_budget
    MaxAttempts,    \* RetryingLlmClient.max_attempts
    MaxRunTokens,   \* RunLimits.max_tokens
    MaxToolCalls,   \* RunLimits.max_tool_calls
    RetainRounds,   \* ConversationHistoryCompactor.retain_recent_rounds
    MinTail,        \* ConversationHistoryCompactor.minimum_tail_messages
    Trigger,        \* MemoryManager.max_tokens
    HardLimit       \* context.AgentBudget.limit

Tools == {"read", "edit"}

ASSUME LoopAssumption ==
    /\ Batches \subseteq Seq(Tools) \ {<<>>}
    /\ Views \cap {"written", "failed"} = {}
    /\ Costs \subseteq Nat /\ IsFiniteSet(Paths)
    /\ MaxPrompts \in Nat /\ MaxFirstTurns \in Nat
    /\ MaxIterations \in Nat \ {0} /\ Window \in Nat \ {0, 1}
    /\ TokenBudget \in Nat \ {0} /\ MaxAttempts \in Nat \ {0}
    /\ MaxRunTokens \in Nat \ {0} /\ MaxToolCalls \in Nat \ {0}
    /\ RetainRounds \in Nat \ {0} /\ MinTail \in Nat \ {0}
    /\ Trigger \in Nat \ {0} /\ HardLimit \in Nat \ {0}

VARIABLES
    history,     \* Agent.history
    nextId,      \* the next fresh tool-call id of the provider
    prompts,     \* prompts given so far
    turns,       \* model turns of the session, for the bound
    pc,          \* where run() is
    outcome,     \* how the last run ended
    cancelled,   \* CancellationToken
    budget,      \* AgentBudget of the run: iteration, tokens, window
    spent,       \* RunBudget of the run: tools, tokens
    late,        \* RunLimits.max_seconds has passed
    purpose,     \* of the call under way: the loop's "turn" or a "summary"
    attempt,     \* its attempts so far
    sent,        \* the messages the loop sends with it
    summaries,   \* splits whose summary is in the compactor's cache
    batch,       \* the tool calls being executed, with their ids
    report       \* the files whose report in DiagnosticsCompletionPolicy._reports
                 \* has errors

\* History variables: what the properties compare the program's state with.
VARIABLES
    streak,      \* equal rounds in a row at the end of the run
    wrong,       \* files that the last diagnosis of the last batch that changed
                 \* them in the run finds wrong
    torn,        \* ids of calls an exception left without a result
    split,       \* ids whose results a diagnostics message separates from the call
    since        \* attempts and batches begun since the cancel

vars == <<history, nextId, prompts, turns, pc, outcome, cancelled, budget, spent,
          late, purpose, attempt, sent, summaries, batch, report, streak, wrong,
          torn, split, since>>

session == <<prompts, turns, nextId>>
call == <<purpose, attempt, sent, summaries>>
edits == <<report, wrong>>
pairs == <<torn, split>>

-----------------------------------------------------------------------------
(* The message protocol *)

Msg(role, ids) == [role |-> role, ids |-> ids]
System == Msg("system", <<>>)
Ids(m) == {m.ids[i] : i \in DOMAIN m.ids}

Called(h) == UNION {Ids(h[i]) : i \in {j \in DOMAIN h : h[j].role = "assistant"}}
Answered(h) == UNION {Ids(h[i]) : i \in {j \in DOMAIN h : h[j].role = "tool"}}

-----------------------------------------------------------------------------
(* AgentBudget *)

FreshBudget == [iteration |-> 0, tokens |-> 0, window |-> <<>>]

\* Mutant: the window keeps every round.
UnboundedWindow(w, signature) == Append(w, signature)

\* deque(maxlen=stagnation_window).append
Remember(w, signature) ==
    LET grown == Append(w, signature)
    IN IF Len(grown) > Window THEN Tail(grown) ELSE grown

\* Mutant: only the ends of the window are compared.
EndsStagnant(w) == Len(w) = Window /\ w[1] = w[Window]

Stagnant(w) == Len(w) = Window /\ \A i \in 1..Window : w[i] = w[1]

\* repeated_no_progress_rounds
Repeated(w) ==
    Cardinality({i \in DOMAIN w : \A j \in i..Len(w) : w[j] = w[Len(w)]})

\* Call ids are ignored and the entries sorted: a round is the bag of its entries.
RoundSignature(tools, views) ==
    LET Entry(i) == <<tools[i], views[i]>>
    IN [kind |-> "tools",
        entries |-> [e \in {Entry(i) : i \in DOMAIN tools} |->
                        Cardinality({i \in DOMAIN tools : Entry(i) = e})]]

RejectionSignature(text, feedback) ==
    [kind |-> "completion", entries |-> <<text, feedback>>]

\* check(): the reason to stop, or within_budget
BudgetCheck ==
    IF Stagnant(budget.window) THEN "stagnation"
    ELSE IF budget.tokens >= TokenBudget THEN "token_budget"
    ELSE IF budget.iteration >= MaxIterations THEN "max_iterations"
    ELSE "within_budget"

-----------------------------------------------------------------------------
(* MemoryManager.prepare, ConversationHistoryCompactor, ContextController *)

LeadingSystem(h) ==
    CHOOSE n \in 0..Len(h) :
        /\ \A i \in 1..n : h[i].role = "system"
        /\ n < Len(h) => h[n + 1].role # "system"

Users(h) == {i \in 1..Len(h) : i > LeadingSystem(h) /\ h[i].role = "user"}

\* Mutant: the suffix starts where it falls, be it at a tool result.
SplitAnywhere(h) ==
    IF Cardinality(Users(h)) > RetainRounds
    THEN (CHOOSE u \in Users(h) :
             Cardinality({v \in Users(h) : v >= u}) = RetainRounds) - 1
    ELSE IF Len(h) <= MinTail + LeadingSystem(h) THEN 0 ELSE Len(h) - MinTail

\* How many messages go before the suffix that is kept; 0 for no split.
SplitIndex(h) ==
    LET candidate == Len(h) - MinTail
        starts == {c \in candidate..(Len(h) - 1) : h[c + 1].role # "tool"}
    IN IF Cardinality(Users(h)) > RetainRounds
       THEN (CHOOSE u \in Users(h) :
                Cardinality({v \in Users(h) : v >= u}) = RetainRounds) - 1
       ELSE IF Len(h) <= MinTail + LeadingSystem(h) \/ starts = {}
       THEN 0
       ELSE CHOOSE c \in starts : \A d \in starts : c <= d

Compacts(h) == Len(h) > Trigger /\ SplitIndex(h) > LeadingSystem(h)

Compacted(h) ==
    IF Compacts(h)
    THEN SubSeq(h, 1, LeadingSystem(h)) \o <<System>> \o SubSeq(h, SplitIndex(h) + 1, Len(h))
    ELSE h

\* One relevant memory is found and goes behind the leading system messages.
Prepared(h) ==
    LET c == Compacted(h)
        n == LeadingSystem(c)
    IN SubSeq(c, 1, n) \o <<System>> \o SubSeq(c, n + 1, Len(c))

-----------------------------------------------------------------------------
(* A run and its end *)

Init ==
    /\ history = <<System>>
    /\ nextId = 1 /\ prompts = 0 /\ turns = 0
    /\ pc = "idle" /\ outcome = "none" /\ cancelled = FALSE
    /\ budget = FreshBudget /\ spent = [tools |-> 0, tokens |-> 0] /\ late = FALSE
    /\ purpose = "turn" /\ attempt = 0 /\ sent = <<>> /\ summaries = {}
    /\ batch = <<>> /\ report = {}
    /\ streak = 0 /\ wrong = {}
    /\ torn = {} /\ split = {}
    /\ since = [attempts |-> 0, batches |-> 0]

\* RunCoordinator.execute -> Agent.run_outcome -> AgentLoopEngine.run
Submit ==
    /\ pc = "idle" /\ prompts < MaxPrompts /\ turns <= MaxFirstTurns
    /\ prompts' = prompts + 1
    /\ history' = Append(history, Msg("user", <<>>))
    /\ pc' = "top" /\ outcome' = "none"
    /\ budget' = FreshBudget /\ spent' = [tools |-> 0, tokens |-> 0] /\ late' = FALSE
    /\ report' = {}
    /\ streak' = 0 /\ wrong' = {}
    /\ since' = [attempts |-> 0, batches |-> 0]
    /\ UNCHANGED <<nextId, turns, cancelled, call, batch, pairs>>

\* Agent.clear_history; no later prefix is one the compactor has cached.
Clear ==
    /\ pc = "idle" /\ Len(history) > 1
    /\ prompts < MaxPrompts /\ turns <= MaxFirstTurns
    /\ history' = SubSeq(history, 1, 1)
    /\ outcome' = "none" /\ summaries' = {} /\ torn' = {} /\ split' = {}
    /\ UNCHANGED <<session, pc, cancelled, budget, spent, late, purpose, attempt,
                   sent, batch, edits, streak, since>>

Finish(how) == pc' = "idle" /\ outcome' = how

\* An exception leaves run(); the coordinator stores FAILED, and may roll the
\* workspace back, which it notes in the history.
Raise(how) ==
    /\ Finish(how)
    /\ history' \in {history, Append(history, System)}

\* CancellationToken.cancel: an interrupt, at any time of a run; nothing resets it.
Cancel ==
    /\ pc # "idle" /\ ~cancelled
    /\ cancelled' = TRUE
    /\ since' = [attempts |-> 0, batches |-> 0]
    /\ UNCHANGED <<history, session, pc, outcome, budget, spent, late, call, batch,
                   edits, streak, pairs>>

\* max_seconds of the run pass, in a call, the sleep before the next one or a tool.
Deadline ==
    /\ pc \in {"call", "wait", "tools", "run", "asks"} /\ ~late
    /\ late' = TRUE
    /\ UNCHANGED <<history, session, pc, outcome, cancelled, budget, spent, call,
                   batch, edits, streak, pairs, since>>

-----------------------------------------------------------------------------
(* One turn of the loop: checks, preparation, provider call *)

\* The user's cancellation goes before the budget's diagnosis.
Top ==
    /\ pc = "top"
    /\ IF cancelled THEN Finish("cancelled") /\ UNCHANGED <<budget, turns>>
       ELSE IF BudgetCheck # "within_budget"
       THEN Finish(BudgetCheck) /\ UNCHANGED <<budget, turns>>
       ELSE /\ budget' = [budget EXCEPT !.iteration = @ + 1]
            /\ turns' = turns + 1
            /\ pc' = "prepare" /\ UNCHANGED outcome
    /\ UNCHANGED <<history, prompts, nextId, cancelled, spent, late, call, batch,
                   edits, streak, pairs, since>>

\* The prefix to drop has no cached summary: the same client is asked for one.
AskSummary ==
    /\ pc = "prepare" /\ Compacts(history) /\ SplitIndex(history) \notin summaries
    /\ pc' = "call" /\ purpose' = "summary" /\ attempt' = 0
    /\ UNCHANGED <<history, session, outcome, cancelled, budget, spent, late, sent,
                   summaries, batch, edits, streak, pairs, since>>

\* ensure_fits raises when even the prepared copy is too long.
Prepare ==
    /\ pc = "prepare" /\ (Compacts(history) => SplitIndex(history) \in summaries)
    /\ \/ /\ Len(Prepared(history)) <= HardLimit
          /\ sent' = Prepared(history)
          /\ pc' = "call" /\ purpose' = "turn" /\ attempt' = 0
          /\ UNCHANGED <<history, outcome>>
       \/ /\ Len(Prepared(history)) > HardLimit
          /\ Raise("context")
          /\ UNCHANGED <<sent, purpose, attempt>>
    /\ UNCHANGED <<session, cancelled, budget, spent, late, summaries, batch, edits,
                   streak, pairs, since>>

\* RunBudget._check_all after a call
Exceeded(tokens) == late \/ tokens > MaxRunTokens

\* The call's own variables go with it.
LeaveCall == purpose' = "turn" /\ attempt' = 0 /\ sent' = <<>>

\* What an exception of the client does: a summary has a fallback, a turn has not.
\* Both the summary and the fallback are cached.
GiveUp(how) ==
    /\ LeaveCall
    /\ \/ /\ purpose = "summary"
          /\ summaries' = summaries \cup {SplitIndex(history)}
          /\ pc' = "prepare"
          /\ UNCHANGED <<history, outcome>>
       \/ /\ purpose = "turn"
          /\ Raise(how)
          /\ UNCHANGED summaries

\* before_model_call looks at the clock and the number of calls, not at the tokens.
Attempt ==
    /\ pc = "call"
    /\ \/ /\ ~late
          /\ pc' = "wait" /\ attempt' = attempt + 1
          /\ since' = [since EXCEPT !.attempts =
                           IF cancelled /\ @ <= 2 * MaxAttempts THEN @ + 1 ELSE @]
          /\ UNCHANGED <<history, outcome, purpose, sent, summaries>>
       \/ /\ late
          /\ GiveUp("run_budget")
          /\ UNCHANGED since
    /\ UNCHANGED <<session, cancelled, budget, spent, late, batch, edits, streak, pairs>>

\* A failed attempt is charged too; a retryable one is repeated while attempts
\* are left and the budget holds.  The retrying client asks no cancellation token.
AttemptFails(retryable) ==
    /\ pc = "wait"
    /\ IF retryable /\ attempt < MaxAttempts /\ ~Exceeded(spent.tokens)
       THEN pc' = "call" /\ UNCHANGED <<history, outcome, call>>
       ELSE GiveUp(IF Exceeded(spent.tokens) THEN "run_budget" ELSE "error")
    /\ UNCHANGED <<session, cancelled, budget, spent, late, batch, edits, streak,
                   pairs, since>>

\* An exceeded budget makes the summary's answer an exception, which is swallowed.
SummaryAnswered(cost) ==
    /\ pc = "wait" /\ purpose = "summary"
    /\ spent' = [spent EXCEPT !.tokens = @ + cost]
    /\ GiveUp("none")
    /\ UNCHANGED <<session, cancelled, budget, late, batch, edits, streak, pairs, since>>

\* The turn's answer never reaches the loop, or finds it cancelled.
AnswerDropped(cost) ==
    /\ pc = "wait" /\ purpose = "turn"
    /\ spent' = [spent EXCEPT !.tokens = @ + cost]
    /\ LeaveCall
    /\ IF Exceeded(spent.tokens + cost)
       THEN Raise("run_budget") /\ UNCHANGED budget
       ELSE /\ cancelled /\ Finish("cancelled")
            /\ budget' = [budget EXCEPT !.tokens = @ + cost]
            /\ UNCHANGED history
    /\ UNCHANGED <<session, cancelled, late, summaries, batch,
                   edits, streak, pairs, since>>

\* Mutant: the cancellation is not looked at before the answer is accepted.
ArrivesAnyway(cost) ==
    /\ pc = "wait" /\ purpose = "turn"
    /\ ~Exceeded(spent.tokens + cost)
    /\ spent' = [spent EXCEPT !.tokens = @ + cost]
    /\ LeaveCall

\* The turn's answer reaches the loop: the client has charged it and left.
Arrives(cost) ==
    /\ pc = "wait" /\ purpose = "turn" /\ ~cancelled
    /\ ~Exceeded(spent.tokens + cost)
    /\ spent' = [spent EXCEPT !.tokens = @ + cost]
    /\ LeaveCall

-----------------------------------------------------------------------------
(* What the loop does with an answer *)

\* Mutant: the reports of the run are not looked at.
OnlyBlank(text) == IF text = "blank" THEN "empty" ELSE "none"

\* DiagnosticsCompletionPolicy over NonEmptyCompletionPolicy
Feedback(text) ==
    IF text = "blank" THEN "empty" ELSE IF report # {} THEN "diagnostics" ELSE "none"

AcceptText(cost) ==
    /\ Arrives(cost) /\ Feedback("answer") = "none"
    /\ budget' = [budget EXCEPT !.tokens = @ + cost]
    /\ history' = Append(history, Msg("assistant", <<>>))
    /\ Finish("succeeded")
    /\ UNCHANGED <<session, cancelled, late, summaries, batch,
                   edits, streak, pairs, since>>

\* The run's streak of equal rounds, kept apart from the budget's own window.
Streak(signature) ==
    IF budget.window # <<>> /\ signature = budget.window[Len(budget.window)]
    THEN streak + 1 ELSE 1

RejectText(cost, text) ==
    LET signature == RejectionSignature(text, Feedback(text))
    IN  /\ Arrives(cost) /\ Feedback(text) # "none"
        /\ budget' = [budget EXCEPT !.tokens = @ + cost,
                                    !.window = Remember(@, signature)]
        /\ streak' = Streak(signature)
        /\ history' = history \o <<Msg("assistant", <<>>), System>>
        /\ pc' = "top"
        /\ UNCHANGED <<session, outcome, cancelled, late, summaries,
                       batch, edits, pairs, since>>

AskTools(cost, tools) ==
    LET asked == [i \in DOMAIN tools |-> nextId + i - 1]
    IN  /\ Arrives(cost)
        /\ budget' = [budget EXCEPT !.tokens = @ + cost]
        /\ nextId' = nextId + Len(tools)
        /\ history' = Append(history, Msg("assistant", asked))
        /\ batch' = [i \in DOMAIN tools |-> [tool |-> tools[i], id |-> asked[i]]]
        /\ pc' = "tools"
        /\ UNCHANGED <<prompts, turns, outcome, cancelled, late, summaries, edits,
                       streak, pairs, since>>

-----------------------------------------------------------------------------
(* A tool batch *)

BatchIds == {batch[i].id : i \in DOMAIN batch}

\* An exception between the assistant message and its results.
Tear(how) ==
    /\ Raise(how)
    /\ torn' = torn \cup BatchIds /\ batch' = <<>>

\* ObservedToolGateway charges every call of the batch before it starts any.
StartBatch ==
    /\ pc = "tools"
    /\ \/ /\ ~late /\ spent.tools + Len(batch) <= MaxToolCalls
          /\ spent' = [spent EXCEPT !.tools = @ + Len(batch)]
          /\ pc' = "run"
          /\ since' = [since EXCEPT !.batches = IF cancelled /\ @ <= 1 THEN @ + 1 ELSE @]
          /\ UNCHANGED <<history, outcome, torn, batch>>
       \/ /\ late \/ spent.tools + Len(batch) > MaxToolCalls
          /\ spent' = [spent EXCEPT !.tools = IF late THEN @ ELSE MaxToolCalls]
          /\ Tear("run_budget")
          /\ UNCHANGED since
    /\ UNCHANGED <<session, cancelled, budget, late, call, edits, streak, split>>

\* after_tool_call raises once the results are there; or the audit log or the
\* permission file cannot be written, which _execute_tools lets through.
BatchTorn ==
    /\ pc = "run"
    /\ \/ Exceeded(spent.tokens) /\ Tear("run_budget")
       \/ Tear("error")
    /\ UNCHANGED <<session, cancelled, budget, spent, late, call, edits, streak, split,
                   since>>

\* From here the loop may wait for what has no deadline: the user's answer to an
\* approval (policy.py, input()), or a language server that no longer reads the
\* text it is sent (lsp.py).  The tools themselves are given up in time (ToolWaves).
Block ==
    /\ pc = "run" /\ pc' = "asks"
    /\ UNCHANGED <<history, session, outcome, cancelled, budget, spent, late, call,
                   batch, edits, streak, pairs, since>>

Unblock ==
    /\ pc = "asks" /\ pc' = "run"
    /\ UNCHANGED <<history, session, outcome, cancelled, budget, spent, late, call,
                   batch, edits, streak, pairs, since>>

\* What the calls of the batch return: a view, or that an edit was written or
\* failed after it had changed the file.
Results ==
    [DOMAIN batch -> Views \cup {"written", "failed"}]

EditCalls == {i \in DOMAIN batch : batch[i].tool = "edit"}

\* What an edit and its diagnosis do to a file: nothing; it is changed, and the
\* diagnosis cannot be made (the path, the read); or its report has no entries,
\* warnings only, or errors.  A file of another suffix gets an empty report.
Said == {"clean", "warnings", "errors"}
Tellings == {"same", "unseen"} \cup Said

\* What is told of the files after each edit of the batch
Reports == [EditCalls -> [Paths -> Tellings]]

\* A failed edit is not diagnosed.
Fits(results, told) ==
    \A i \in DOMAIN batch :
        IF batch[i].tool = "read" THEN results[i] \in Views
        ELSE /\ results[i] \in {"written", "failed"}
             /\ results[i] = "failed" => \A p \in Paths : told[i][p] \notin Said

\* The files of which a diagnostics message stands behind the result of call i
Spoken(told, i) ==
    {p \in Paths : i \in EditCalls /\ told[i][p] \in {"warnings", "errors"}}

\* Mutant: a cancelled run leaves before it appends the results.
LoseResults(told, n) ==
    IF cancelled THEN <<>> ELSE [i \in 1..n |-> Msg("tool", <<batch[i].id>>)]

\* The first n results in call order, behind each the diagnostics messages.
Observations(told, n) ==
    LET After(i) == [k \in 1..Cardinality(Spoken(told, i)) |-> System]
        obs[i \in 0..n] ==
            IF i = 0 THEN <<>>
            ELSE obs[i - 1] \o <<Msg("tool", <<batch[i].id>>)>> \o After(i)
    IN obs[n]

\* Calls whose results come behind a diagnostics message
Parted(told) ==
    {batch[i].id : i \in {j \in DOMAIN batch :
                            \E k \in DOMAIN batch : k < j /\ Spoken(told, k) # {}}}

Diagnosed(told, p) == {i \in EditCalls : told[i][p] \in Said}
Untouched(told, p) == \A i \in EditCalls : told[i][p] = "same"

\* The files whose last report in this batch has errors
SaidErrors(told) ==
    {p \in Paths : \E i \in Diagnosed(told, p) :
        told[i][p] = "errors" /\ \A j \in Diagnosed(told, p) : j <= i}

\* The batch ran, and told is what was told of its edits.  Where a diagnosis cannot
\* be made, the older report stays.
EndBatch(results, told) ==
    LET signature == RoundSignature([i \in DOMAIN batch |-> batch[i].tool], results)
        window == Remember(budget.window, signature)
        warned == Repeated(window) >= 2 /\ Repeated(window) = Window - 1
    IN  /\ pc = "run" /\ ~Exceeded(spent.tokens)
        /\ history' = history \o Observations(told, Len(batch))
                              \o (IF warned THEN <<System>> ELSE <<>>)
        /\ budget' = [budget EXCEPT !.window = window]
        /\ streak' = Streak(signature)
        /\ report' = SaidErrors(told) \cup {p \in report : Diagnosed(told, p) = {}}
        /\ wrong' = SaidErrors(told) \cup {p \in wrong : Untouched(told, p)}
        /\ split' = split \cup Parted(told)
        /\ batch' = <<>>
        /\ IF cancelled THEN Finish("cancelled") ELSE pc' = "top" /\ UNCHANGED outcome
        /\ UNCHANGED <<session, cancelled, spent, late, call, torn, since>>

\* An exception while the results are appended leaves run() with the first n of
\* them: of an event handler, or of a diagnosis where it is none that
\* _report_diagnostics passes over.  The next run begins without reports.
BreakOff(told, n) ==
    /\ pc = "run" /\ ~Exceeded(spent.tokens) /\ n \in DOMAIN batch
    /\ Finish("error")
    /\ \E note \in {<<>>, <<System>>} : history' = history \o Observations(told, n) \o note
    /\ torn' = torn \cup {batch[i].id : i \in {j \in DOMAIN batch : j > n}}
    /\ split' = split \cup Parted(told)
    /\ batch' = <<>>
    /\ UNCHANGED <<session, cancelled, budget, spent, late, call, edits, streak, since>>

-----------------------------------------------------------------------------
Work ==
    \/ Top \/ AskSummary \/ Prepare \/ Attempt
    \/ \E retryable \in BOOLEAN : AttemptFails(retryable)
    \/ \E cost \in Costs :
        \/ SummaryAnswered(cost) \/ AnswerDropped(cost) \/ AcceptText(cost)
        \/ \E text \in {"blank", "answer"} : RejectText(cost, text)
        \/ \E tools \in Batches : AskTools(cost, tools)
    \/ StartBatch \/ BatchTorn \/ Block
    \/ \E told \in Reports :
        \/ \E results \in Results : Fits(results, told) /\ EndBatch(results, told)
        \/ \E n \in DOMAIN batch : BreakOff(told, n)

Next == Work \/ Unblock \/ Submit \/ Clear \/ Cancel \/ Deadline

Spec == Init /\ [][Next]_vars

Places == {"idle", "top", "prepare", "call", "wait", "tools", "run", "asks"}

\* A run that has not ended goes on, as provider calls and tools have timeouts; one
\* that waits for the user or for a server that reads no more need not.  (Every
\* action of Work moves pc; this is WF_vars(Work) in a form TLC evaluates without
\* the successors of every state.)
Goes == pc \notin {"idle", "asks"} /\ pc' \in Places
FairSpec == Spec /\ WF_pc(Goes)

-----------------------------------------------------------------------------
(* Properties *)

TypeOK ==
    /\ \A i \in DOMAIN history :
        history[i].role \in {"system", "user", "assistant", "tool"}
    /\ pc \in Places
    /\ outcome \in {"none", "succeeded", "cancelled", "stagnation", "token_budget",
                    "max_iterations", "context", "error", "run_budget"}
    /\ purpose \in {"turn", "summary"} /\ report \cup wrong \subseteq Paths
    /\ budget.iteration \in 0..MaxIterations /\ Len(budget.window) <= Window
    /\ spent.tools \in 0..MaxToolCalls /\ attempt \in 0..MaxAttempts
    /\ torn \cup split \cup BatchIds \subseteq 1..nextId

\* Every tool call the history holds is answered exactly once, after it was
\* made and in the order the calls were made (Agent.history is sent again with
\* the next prompt), except the batch at work and one that an exception cut
\* short, an exceeded run budget or a file that cannot be written: loop.py, "do
\* not leave an assistant tool-call message dangling".
BatchAnswered ==
    /\ \A i, j \in DOMAIN history :
        i < j /\ history[i].role = "tool" /\ history[j].role = "tool" =>
            history[i].ids[1] < history[j].ids[1]
    /\ Called(history) \ Answered(history) = torn \cup BatchIds
    /\ Answered(history) \subseteq Called(history)
    /\ \A i, j \in DOMAIN history :
        history[i].role = "tool" /\ history[j].role = "assistant"
        /\ Ids(history[i]) \subseteq Ids(history[j]) => j < i

\* What is sent keeps calls and results together: compaction drops no result of a
\* call it keeps, and no call of a result it keeps, unless a diagnostics message
\* stands between the two.  Those are the exception to memory.py:337, "assistant
\* tool_calls and their results stay together", and to
\* docs/paicli-interview-qa.md:1004: _split_index looks for the end of a run of
\* results, and the loop puts a system message behind the result of an edit that
\* was diagnosed (loop.py:344-355), so a suffix may begin there and go on with
\* results whose call the summary has swallowed.
SentPairs ==
    /\ Answered(sent) \ Called(sent) \subseteq split
    /\ Called(sent) \ Answered(sent) \subseteq torn

\* No model call is made once the last Window rounds were equal, and stagnation
\* is diagnosed for nothing less.
StopsAtStreak ==
    /\ pc \in {"prepare", "call", "wait"} => streak < Window
    /\ outcome = "stagnation" => streak = Window

\* After a cancel the run starts at most one more turn's attempts (with those
\* of a summary before it) or finishes one batch, never both, and it does not
\* succeed.
CancelIsPrompt ==
    cancelled =>
        /\ since.attempts <= 2 * MaxAttempts /\ since.batches <= 1
        /\ since.attempts = 0 \/ since.batches = 0
        /\ outcome # "succeeded"

\* No run succeeds while the last diagnosis of a file, in the last batch that changed
\* it, says that it has errors ("Prevent completion while post-edit diagnostics still
\* contain errors", models.py:99), whatever other files, later batches or diagnoses
\* that cannot be made come between.  Of what the file really holds nothing is said:
\* a server may publish an empty report, or one of an older text, and a file of
\* another suffix is not looked at (lsp.py:281).
NoSuccessOverErrors == outcome = "succeeded" => wrong = {}

=============================================================================
