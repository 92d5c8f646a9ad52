---------------------------- MODULE ToolAdmission ----------------------------
(***************************************************************************)
(* What stands between the model's tool calls and the registry: argument   *)
(* validation, the hard command policy, the rules a project remembers, and *)
(* the user (policy.py, HitlToolRegistry; permissions.py, PermissionStore; *)
(* tool_validation.py; command_policy.py).  The programs open on one       *)
(* project share its rule file; each reads it when it starts and writes    *)
(* its own list over it, through a temporary file of one fixed name.       *)
(*                                                                         *)
(* A call is a tool and its arguments; whether the schema accepts them and *)
(* whether the command is on the blocked list are facts of the call.  Of a *)
(* rule's argument patterns is kept which arguments they ask for.          *)
(***************************************************************************)
EXTENDS Naturals, Sequences, FiniteSets

CONSTANTS
    Sessions,     \* the programs
    CallBatches,  \* the batches a model may ask for: sequences of calls
    SafeTools,    \* tools of risk SAFE
    Invalid,      \* calls the schema of their tool refuses
    Blocked,      \* calls the hard command policy refuses
    HandRules,    \* what a user may write into the file: tool, needs, action
    MaxBatches,   \* bound: batches of all sessions
    MaxHandEdits, \* bound: changes to the file by hand
    MaxIoErrors   \* bound: writes of the file that fail

ASSUME AdmissionAssumption ==
    /\ MaxBatches \in Nat /\ MaxHandEdits \in Nat /\ MaxIoErrors \in Nat
    /\ \A calls \in CallBatches : calls \in Seq({calls[i] : i \in DOMAIN calls})

VARIABLES
    ruleFile,   \* .paicli/permissions.json
    temporary,  \* permissions.json.tmp: its rules, or no file
    known,      \* PermissionStore._rules of each session
    desk,       \* each session's batch: its calls, verdicts and results, and
                \* delegated and positions, the admitted calls and their places
    batches, handEdits, ioErrors,  \* for the bounds
    nextRule,   \* the next fresh rule id
    wanted,     \* history: the rules the user has asked for and not taken back
    granted,    \* history: the calls the user answered "always" to in this session
    missed,     \* history: rules others added or removed since the session's load
    excused     \* history: rules a save of an older list or an error affected

admission == <<ruleFile, temporary, known, desk, batches, handEdits, ioErrors,
               nextRule, wanted, granted, missed, excused>>

Rule(id, tool, needs, action) ==
    [id |-> id, tool |-> tool, needs |-> needs, action |-> action]
NoFile == <<Rule(0, "none", {}, "none")>>

RuleIds(list) == {list[i].id : i \in DOMAIN list}
Differ(a, b) == (RuleIds(a) \ RuleIds(b)) \cup (RuleIds(b) \ RuleIds(a))

Desk(at, calls) == [at |-> at, calls |-> calls, verdicts |-> <<>>,
                    positions |-> <<>>, delegated |-> <<>>, results |-> <<>>]
Off == Desk("off", <<>>)

AdmissionInit ==
    /\ ruleFile = <<>> /\ temporary = NoFile
    /\ known = [s \in Sessions |-> <<>>]
    /\ desk = [s \in Sessions |-> Off]
    /\ batches = 0 /\ handEdits = 0 /\ ioErrors = 0
    /\ nextRule = 1
    /\ wanted = {} /\ excused = {}
    /\ granted = [s \in Sessions |-> {}]
    /\ missed = [s \in Sessions |-> {}]

-----------------------------------------------------------------------------
(* The rules *)

\* PermissionRule.matches: every argument the rule names is there and matches.
Matches(rule, c) == rule.tool = c.tool /\ rule.needs \subseteq c.args

\* Mutant: the first rule that matches decides.
ResolveFirst(rules, c) ==
    LET hits == {i \in DOMAIN rules : Matches(rules[i], c)}
    IN  IF hits = {} THEN "ask"
        ELSE rules[CHOOSE i \in hits : \A j \in hits : i <= j].action

\* PermissionStore.resolve: the last rule that matches decides.
Resolve(rules, c) ==
    LET hits == {i \in DOMAIN rules : Matches(rules[i], c)}
    IN  IF hits = {} THEN "ask"
        ELSE rules[CHOOSE i \in hits : \A j \in hits : i >= j].action

\* _authorize up to the question
Verdict(rules, c) ==
    IF c \in Invalid \cup Blocked \/ Resolve(rules, c) = "deny" THEN "refused"
    ELSE IF Resolve(rules, c) = "allow" \/ c.tool \in SafeTools THEN "admitted"
    ELSE "ask"

\* Mutant: the session's list is replaced by the new rule.
RememberOnly(rules, rule) == <<rule>>

\* PermissionStore.add, in memory
RememberRule(rules, rule) == Append(rules, rule)

-----------------------------------------------------------------------------
(* A session and its batches *)

files == <<ruleFile, temporary>>
bounds == <<batches, handEdits, ioErrors>>

StartSession(s) ==
    /\ desk[s].at = "off"
    /\ known' = [known EXCEPT ![s] = ruleFile]
    /\ missed' = [missed EXCEPT ![s] = {}]
    /\ granted' = [granted EXCEPT ![s] = {}]
    /\ desk' = [desk EXCEPT ![s].at = "idle"]
    /\ UNCHANGED <<files, bounds, nextRule, wanted, excused>>

\* The program ends, or is ended: a rule it had not written yet is lost.
StopSession(s) ==
    /\ desk[s].at # "off"
    /\ desk' = [desk EXCEPT ![s] = Off]
    /\ excused' = IF desk[s].at \in {"saving", "replacing"}
                  THEN excused \cup Differ(known[s], ruleFile) ELSE excused
    /\ UNCHANGED <<files, known, bounds, nextRule, wanted, granted, missed>>

BeginBatch(s, calls) ==
    /\ desk[s].at = "idle" /\ batches < MaxBatches
    /\ batches' = batches + 1
    /\ desk' = [desk EXCEPT ![s] = Desk("authorizing", calls)]
    /\ UNCHANGED <<files, known, handEdits, ioErrors, nextRule, wanted, granted,
                   missed, excused>>

\* The call _authorize is at
Current(s) == desk[s].calls[Len(desk[s].verdicts) + 1]

\* execute_many_results keeps an admitted call, and where its result belongs.
Settled(d, verdict) ==
    LET n == Len(d.verdicts) + 1
        kept == verdict = "admitted"
    IN  [d EXCEPT !.at = "authorizing", !.verdicts = Append(@, verdict),
                  !.positions = IF kept THEN Append(@, n) ELSE @,
                  !.delegated = IF kept THEN Append(@, d.calls[n]) ELSE @]

Settle(s, verdict) == desk' = [desk EXCEPT ![s] = Settled(@, verdict)]

\* Everything that needs no question, one call after another
Authorize(s) ==
    /\ desk[s].at = "authorizing" /\ Len(desk[s].verdicts) < Len(desk[s].calls)
    /\ LET verdict == Verdict(known[s], Current(s))
       IN  IF verdict = "ask" THEN desk' = [desk EXCEPT ![s].at = "asking"]
           ELSE Settle(s, verdict)
    /\ UNCHANGED <<files, known, bounds, nextRule, wanted, granted, missed, excused>>

\* y or n, or an input that ends
AnswerOnce(s, verdict) ==
    /\ desk[s].at = "asking" /\ Settle(s, verdict)
    /\ UNCHANGED <<files, known, bounds, nextRule, wanted, granted, missed, excused>>

\* a: the call's own arguments are asked for, and no others are looked at; p: any
\* value of its main argument.
AnswerAlways(s, needs) ==
    LET rule == Rule(nextRule, Current(s).tool, needs, "allow")
    IN  /\ desk[s].at = "asking" /\ needs \in {Current(s).args, {}}
        /\ known' = [known EXCEPT ![s] = RememberRule(@, rule)]
        /\ desk' = [desk EXCEPT ![s].at = "saving"]
        /\ nextRule' = nextRule + 1
        /\ wanted' = wanted \cup {nextRule}
        /\ granted' = [granted EXCEPT ![s] = @ \cup {Current(s)}]
        /\ UNCHANGED <<files, bounds, missed, excused>>

-----------------------------------------------------------------------------
(* PermissionStore.save, and the user's editor *)

WriteTemporary(s) ==
    /\ desk[s].at = "saving"
    /\ temporary' = known[s]
    /\ desk' = [desk EXCEPT ![s].at = "replacing"]
    /\ UNCHANGED <<ruleFile, known, bounds, nextRule, wanted, granted, missed, excused>>

\* The sessions whose list the new file is not have missed what it changes.
Miss(list) ==
    missed' = [s \in Sessions |->
                 IF known[s] = list THEN missed[s] ELSE missed[s] \cup Differ(ruleFile, list)]

\* What reaches the file is what the temporary file holds by now.
ReplaceFile(s) ==
    /\ desk[s].at = "replacing" /\ temporary # NoFile
    /\ ruleFile' = temporary /\ temporary' = NoFile
    /\ Settle(s, "admitted")
    /\ Miss(temporary)
    /\ excused' = excused \cup
         (IF temporary = known[s] THEN missed[s]
          ELSE Differ(known[s], temporary) \cup UNION {missed[t] : t \in Sessions})
    /\ UNCHANGED <<known, bounds, nextRule, wanted, granted>>

\* The write fails, or another session has moved the temporary file away: the
\* exception leaves the batch; none of its calls runs, and the list keeps the rule.
SaveFails(s) ==
    /\ \/ /\ desk[s].at = "saving" /\ ioErrors < MaxIoErrors
          /\ ioErrors' = ioErrors + 1
       \/ /\ desk[s].at = "replacing" /\ temporary = NoFile
          /\ UNCHANGED ioErrors
    /\ desk' = [desk EXCEPT ![s] = Desk("idle", <<>>)]
    /\ excused' = excused \cup Differ(known[s], ruleFile)
    /\ UNCHANGED <<files, known, batches, handEdits, nextRule, wanted, granted, missed>>

EditByHand(list) ==
    /\ handEdits < MaxHandEdits /\ handEdits' = handEdits + 1
    /\ ruleFile' = list /\ Miss(list)
    /\ UNCHANGED <<temporary, known, desk, batches, ioErrors, granted, excused>>

AddByHand(r) ==
    /\ EditByHand(Append(ruleFile, Rule(nextRule, r.tool, r.needs, r.action)))
    /\ wanted' = wanted \cup {nextRule}
    /\ nextRule' = nextRule + 1

Without(list, i) ==
    [k \in 1..(Len(list) - 1) |-> IF k < i THEN list[k] ELSE list[k + 1]]

RemoveByHand(i) ==
    /\ EditByHand(Without(ruleFile, i))
    /\ wanted' = wanted \ {ruleFile[i].id}
    /\ UNCHANGED nextRule

-----------------------------------------------------------------------------
(* execute_many_results: what was admitted is delegated as one batch, its  *)
(* results go back to the places of their calls.  A result is known by     *)
(* what was decided and the call it is of.                                 *)

BatchResults(d) ==
    LET At(i) == {k \in DOMAIN d.positions : d.positions[k] = i}
    IN  [i \in DOMAIN d.calls |->
            IF At(i) = {} THEN <<d.verdicts[i], d.calls[i]>>
            ELSE <<"admitted", d.delegated[CHOOSE k \in At(i) : TRUE]>>]

RunAdmitted(s) ==
    /\ desk[s].at = "authorizing" /\ Len(desk[s].verdicts) = Len(desk[s].calls)
    /\ desk' = [desk EXCEPT ![s].at = "idle",
                            ![s].results = BatchResults(desk[s])]
    /\ UNCHANGED <<files, known, bounds, nextRule, wanted, granted, missed, excused>>

-----------------------------------------------------------------------------
AdmissionNext ==
    \/ \E s \in Sessions :
        \/ StartSession(s) \/ StopSession(s)
        \/ \E calls \in CallBatches : BeginBatch(s, calls)
        \/ Authorize(s)
        \/ \E verdict \in {"admitted", "refused"} : AnswerOnce(s, verdict)
        \/ \E needs \in {{}} \cup {c.args : c \in {desk[s].calls[i] : i \in DOMAIN desk[s].calls}} :
            AnswerAlways(s, needs)
        \/ WriteTemporary(s) \/ ReplaceFile(s) \/ SaveFails(s)
        \/ RunAdmitted(s)
    \/ \E r \in HandRules : AddByHand(r)
    \/ \E i \in DOMAIN ruleFile : RemoveByHand(i)

AdmissionSpec == AdmissionInit /\ [][AdmissionNext]_admission

-----------------------------------------------------------------------------
(* Properties *)

AdmissionTypeOK ==
    /\ \A s \in Sessions :
        /\ desk[s].at \in {"off", "idle", "authorizing", "asking", "saving", "replacing"}
        /\ Len(desk[s].verdicts) <= Len(desk[s].calls)
        /\ \A i \in DOMAIN desk[s].verdicts : desk[s].verdicts[i] \in {"admitted", "refused"}
        /\ RuleIds(known[s]) \cup missed[s] \subseteq 1..nextRule
    /\ RuleIds(ruleFile) \cup wanted \cup excused \subseteq 1..nextRule
    /\ batches \in 0..MaxBatches /\ handEdits \in 0..MaxHandEdits
    /\ ioErrors \in 0..MaxIoErrors

\* The file holds the rules the user wants: one that was remembered or written
\* in stays, one taken out stays out, whatever batches and sessions come and go.
\* The exceptions are rules a session never saw, when it saves its older list
\* over them, and saves that failed or met another one half way.
RulesKept ==
    LET unsaved == UNION {RuleIds(known[s]) \ RuleIds(ruleFile) :
                            s \in {t \in Sessions : desk[t].at \in {"saving", "replacing"}}}
    IN  \A id \in 1..(nextRule - 1) :
            id \in excused \cup unsaved \/ (id \in RuleIds(ruleFile) <=> id \in wanted)

\* What the user was asked is what happens: a call answered "always" is not asked
\* about again in this session, whatever older rules and files of other sessions
\* say, and each result of a batch is that of the call at its place, refused or
\* run as decided.  That the answer covers "an exact remembered call"
\* (policy.py:90), "a literal call" (permissions.py:132), and nothing else, is not
\* claimed: a rule also matches calls with further arguments (permissions.py:56-62).
AdmissionAsAnswered ==
    \A s \in Sessions :
        /\ \A c \in granted[s] \ (Invalid \cup Blocked) : Verdict(known[s], c) = "admitted"
        /\ \A i \in DOMAIN desk[s].results :
            desk[s].results[i] = <<desk[s].verdicts[i], desk[s].calls[i]>>
=============================================================================
