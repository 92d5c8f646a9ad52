----------------------------- MODULE ToolWaves -----------------------------
(***************************************************************************)
(* The tool gateway: ToolRegistry.execute_many_results (tools.py) with the *)
(* scope filter of ScopedToolRuntime, and the handlers that run in its     *)
(* thread pools (tools.py, file_editing.py).                               *)
(*                                                                         *)
(* Several agents share one registry.  An agent hands over the calls of a  *)
(* model response as a batch; the gateway splits the batch into waves of   *)
(* calls that do not conflict, runs a wave in groups of at most            *)
(* MAX_PARALLEL_TOOLS threads and waits for each call until its deadline.  *)
(* A thread that misses its deadline cannot be killed: it goes on, and its *)
(* resources are isolated until it ends.                                   *)
(*                                                                         *)
(* Calls are numbered in the order in which they reach the registry.  What *)
(* a handler does is abstracted to the files it reads and writes: it reads *)
(* files its claims cover, then writes files its claims cover, one by one  *)
(* (os.replace makes one file atomic, not several), and may stop anywhere. *)
(***************************************************************************)
EXTENDS Integers, FiniteSets, Sequences

CONSTANTS Agents,         \* agents that share the registry
          ReadOnlyAgents, \* agents with a read-only tool scope
          Tools,          \* invocations a model may ask for, see Invocation
          Batches,        \* sequences of invocations in one model response
          Files,          \* the files of the project, as paths
          MaxCalls,       \* bound on the calls of a behaviour
          MaxParallel     \* MAX_PARALLEL_TOOLS

(* A path is the sequence of its parts; "*" is a claim of its own. *)
IsPrefix(s, t) == Len(s) <= Len(t) /\ \A i \in 1 .. Len(s) : s[i] = t[i]
Everything == [all |-> TRUE, path |-> <<>>, mode |-> "write", recursive |-> TRUE]

Access == [all : BOOLEAN, path : Seq(STRING), mode : {"read", "write"}, recursive : BOOLEAN]

(* valid: the tool exists and the arguments fit its schema.                *)
(* resolver: the tool computes its claims; without one the default applies. *)
Invocation == [valid : BOOLEAN, resolver : BOOLEAN, accesses : SUBSET Access,
               readOnly : BOOLEAN, serial : BOOLEAN]

ASSUME ToolParameters ==
    /\ Agents # {}
    /\ ReadOnlyAgents \subseteq Agents
    /\ Tools \subseteq Invocation
    /\ Batches \subseteq Seq(Tools)
    /\ Files \subseteq Seq(STRING)
    /\ MaxCalls \in Nat
    /\ MaxParallel \in Nat \ {0}
    \* what is registered as READ_ONLY claims only reads, of files or directories
    /\ \A t \in Tools : t.readOnly => \A a \in t.accesses : a.mode = "read" /\ ~a.all

Ids == 1 .. MaxCalls
Unread == -1
Original == 0

VARIABLES issued,     \* number of calls that reached the registry
          tool,       \* the invocation of each call
          owner,      \* the agent that asked for it
          pc,         \* where execute_many_results is, for each agent
          wave,       \* the wave an agent is running, or filling
          waveOf,     \* the wave each call was put into
          state,      \* each call: where its future is
          error,      \* each call: refused before it ran?
          expired,    \* calls whose deadline passed before they ended
          result,     \* each call: the result the gateway returned
          uncertain,  \* _uncertain_calls
          seen,       \* whose version of a file each call has read
          wrote,      \* files each call has written
          content     \* the call that wrote each file last

batchVars == <<issued, tool, owner>>
planVars == <<wave, waveOf>>
fileVars == <<seen, wrote, content>>
vars == <<batchVars, pc, planVars, state, error, expired, result, uncertain, fileVars>>

NoTool == [valid |-> FALSE, resolver |-> FALSE, accesses |-> {}, readOnly |-> TRUE, serial |-> FALSE]

Init == /\ issued = 0
        /\ tool = [c \in Ids |-> NoTool]
        /\ owner = [c \in Ids |-> CHOOSE a \in Agents : TRUE]
        /\ pc = [a \in Agents |-> "idle"]
        /\ wave = [a \in Agents |-> 0]
        /\ waveOf = [c \in Ids |-> 0]
        /\ state = [c \in Ids |-> "none"]
        /\ error = [c \in Ids |-> "none"]
        /\ expired = {}
        /\ result = [c \in Ids |-> "none"]
        /\ uncertain = {}
        /\ seen = [c \in Ids |-> [f \in Files |-> Unread]]
        /\ wrote = [c \in Ids |-> {}]
        /\ content = [f \in Files |-> Original]

-----------------------------------------------------------------------------
(* Claims and conflicts *)

Overlap(l, r) == \/ l.path = r.path
                 \/ l.recursive /\ IsPrefix(l.path, r.path)
                 \/ r.recursive /\ IsPrefix(r.path, l.path)

AccessesConflict(l, r) ==
    \/ l.all \/ r.all
    \/ Overlap(l, r) /\ "write" \in {l.mode, r.mode}

Declared(t) == IF t.resolver THEN t.accesses
               ELSE IF t.readOnly THEN {} ELSE {Everything}

(* The claims of a prepared call; an invalid one has none. *)
Claims(c) == IF tool[c].valid THEN Declared(tool[c]) ELSE {}

ClaimsConflict(A, B) == \E l \in A, r \in B : AccessesConflict(l, r)

MustRunAlone(c) == tool[c].serial \/ \E a \in Claims(c) : a.all

(* The files a claim stands for. *)
Covers(a, f) == a.all \/ a.path = f \/ (a.recursive /\ IsPrefix(a.path, f))
MayRead(c) == {f \in Files : \E a \in Claims(c) : Covers(a, f)}
MayWrite(c) == {f \in Files : \E a \in Claims(c) : a.mode = "write" /\ Covers(a, f)}

-----------------------------------------------------------------------------
Over == {"done", "cancelled"}
Mine(a) == {c \in Ids : owner[c] = a /\ result[c] = "none" /\ state[c] # "none"}
InState(a, s) == {c \in Mine(a) : state[c] = s}
First(c, S) == c \in S /\ \A d \in S : c <= d

StillRunning == {c \in uncertain : state[c] \notin Over}

(* _uncertain_conflict, which also forgets the calls that have ended *)
Isolated(A) == \E d \in StillRunning : ClaimsConflict(A, Claims(d))
Prune(A) == uncertain' = IF A = {} THEN uncertain ELSE StillRunning

-----------------------------------------------------------------------------
(* The agent's side: execute_many_results *)

(* TaskConcurrencyPolicy lets only workers with a read-only scope overlap. *)
Admitted(a) == \A b \in Agents \ {a} : pc[b] # "idle" => {a, b} \subseteq ReadOnlyAgents

(* ScopedToolRuntime answers the calls outside the scope itself. *)
InScope(a, t) == a \in ReadOnlyAgents => t.readOnly

StartBatch(a, b) ==
    LET new == issued + 1 .. issued + Len(b)
        asked == [c \in Ids |-> IF c \in new THEN b[c - issued] ELSE tool[c]]
        denied == {c \in new : ~InScope(a, asked[c])} IN
    /\ pc[a] = "idle"
    /\ Admitted(a)
    /\ new # {} /\ new \subseteq Ids
    /\ issued' = issued + Len(b)
    /\ tool' = asked
    /\ owner' = [c \in Ids |-> IF c \in new THEN a ELSE owner[c]]
    /\ state' = [c \in Ids |-> IF c \in denied THEN "done"
                               ELSE IF c \in new THEN "new" ELSE state[c]]
    /\ error' = [c \in Ids |-> IF c \in denied THEN "denied" ELSE error[c]]
    /\ result' = [c \in Ids |-> IF c \in denied THEN "denied" ELSE result[c]]
    /\ pc' = [pc EXCEPT ![a] = IF new = denied THEN "idle" ELSE "prepare"]
    /\ wave' = [wave EXCEPT ![a] = 0]
    /\ UNCHANGED <<waveOf, expired, uncertain, fileVars>>

\* Mutant: conflicts within a wave are not looked at.
JoinsAnyWave(a, c) ==
    LET last == {d \in InState(a, "ready") : waveOf[d] = wave[a]} IN
    /\ last # {}
    /\ \A d \in last \cup {c} : ~MustRunAlone(d)

(* _prepare_call for the next call, and the step of _schedule_waves that   *)
(* puts it into the last wave or opens a new one; scheduling looks at      *)
(* prepared calls only, so doing it at once or at the end is the same.     *)
Joins(a, c) ==
    LET last == {d \in InState(a, "ready") : waveOf[d] = wave[a]} IN
    /\ last # {}
    /\ \A d \in last \cup {c} : ~MustRunAlone(d)
    /\ \A d \in last : ~ClaimsConflict(Claims(c), Claims(d))

Place(a, c) ==
    LET w == IF Joins(a, c) THEN wave[a] ELSE wave[a] + 1
        more == InState(a, "new") # {c} IN
    /\ waveOf' = [waveOf EXCEPT ![c] = w]
    /\ state' = [state EXCEPT ![c] = "ready"]
    /\ pc' = [pc EXCEPT ![a] = IF more THEN "prepare" ELSE "recheck"]
    /\ wave' = [wave EXCEPT ![a] = IF more THEN w ELSE 1]
    /\ UNCHANGED <<batchVars, expired, result, fileVars>>

Prepare(a, c) ==
    /\ pc[a] = "prepare"
    /\ First(c, InState(a, "new"))
    /\ error' = [error EXCEPT ![c] = IF ~tool[c].valid THEN "invalid"
                                     ELSE IF Isolated(Claims(c)) THEN "conflict" ELSE "none"]
    /\ Prune(Claims(c))
    /\ Place(a, c)

(* _recheck_uncertain for the next call of the wave that is about to run *)
Pending(a, s) == {c \in InState(a, s) : waveOf[c] = wave[a]}

\* Mutant: calls are checked when they are prepared, not before they run.
RecheckNothing(a, c) ==
    /\ pc[a] = "recheck"
    /\ First(c, Pending(a, "ready"))
    /\ state' = [state EXCEPT ![c] = "checked"]
    /\ pc' = [pc EXCEPT ![a] = IF Pending(a, "ready") = {c} THEN "submit" ELSE "recheck"]
    /\ UNCHANGED <<batchVars, planVars, error, expired, result, uncertain, fileVars>>

Recheck(a, c) ==
    LET claims == IF error[c] = "none" THEN Claims(c) ELSE {} IN   \* refused already
    /\ pc[a] = "recheck"
    /\ First(c, Pending(a, "ready"))
    /\ error' = IF Isolated(claims) THEN [error EXCEPT ![c] = "conflict"] ELSE error
    /\ Prune(claims)
    /\ state' = [state EXCEPT ![c] = "checked"]
    /\ pc' = [pc EXCEPT ![a] = IF Pending(a, "ready") = {c} THEN "submit" ELSE "recheck"]
    /\ UNCHANGED <<batchVars, planVars, expired, result, fileVars>>

(* The first MaxParallel checked calls, handed to a new thread pool *)
Group(a) == LET S == Pending(a, "checked") IN
            {c \in S : Cardinality({d \in S : d < c}) < MaxParallel}

(* Calls of the current group whose result is still to be collected *)
InFlight(a) == Pending(a, "queued") \cup Pending(a, "running") \cup Pending(a, "done")

(* Where the agent is once c has its result: in the same group, before the *)
(* next group of the wave, before the next wave, or back with the results. *)
Proceed(a, c) ==
    LET rest == Mine(a) \ {c}
        here == {d \in rest : waveOf[d] = wave[a]} IN
    /\ pc' = [pc EXCEPT ![a] =
                CASE InFlight(a) \ {c} # {} -> "collect"
                  [] InFlight(a) \ {c} = {} /\ here # {} -> "submit"
                  [] here = {} /\ rest # {} -> "recheck"
                  [] rest = {} -> "idle"]
    /\ wave' = [wave EXCEPT ![a] = IF rest = {} THEN 0 ELSE IF here = {} THEN @ + 1 ELSE @]
    /\ UNCHANGED <<batchVars, waveOf, error, expired, fileVars>>

(* A group of one call that was refused needs no thread. *)
Refuse(a, c) ==
    /\ pc[a] = "submit"
    /\ Group(a) = {c}
    /\ error[c] # "none"
    /\ state' = [state EXCEPT ![c] = "done"]
    /\ result' = [result EXCEPT ![c] = error[c]]
    /\ Proceed(a, c)
    /\ UNCHANGED uncertain

Submit(a) ==
    /\ pc[a] = "submit"
    /\ \A c \in Group(a) : Group(a) = {c} => error[c] = "none"
    /\ state' = [c \in Ids |-> IF c \in Group(a) THEN "queued" ELSE state[c]]
    /\ pc' = [pc EXCEPT ![a] = "collect"]
    /\ UNCHANGED <<batchVars, planVars, error, expired, result, uncertain, fileVars>>

\* Mutant: the future itself is taken for the result.
CollectFuture(a, c) ==
    /\ pc[a] = "collect"
    /\ First(c, InFlight(a))
    /\ state[c] = "done"
    /\ result' = [result EXCEPT ![c] = state[c]]
    /\ Proceed(a, c)
    /\ UNCHANGED <<state, uncertain>>

(* future.result returned: the call's own answer, unless it came too late. *)
CollectAnswer(a, c) ==
    /\ pc[a] = "collect"
    /\ First(c, InFlight(a))
    /\ state[c] = "done"
    /\ result' = [result EXCEPT ![c] = IF c \in expired THEN "timeout"
                                       ELSE IF error[c] = "none" THEN "answer" ELSE error[c]]
    /\ Proceed(a, c)
    /\ UNCHANGED <<state, uncertain>>

\* Mutant: a call that goes on after its timeout is forgotten.
TrackNothing(c) == UNCHANGED uncertain

(* _track_uncertain: what only reads is left to itself. *)
Track(c) == uncertain' = IF tool[c].readOnly THEN uncertain ELSE StillRunning \cup {c}

\* Mutant: a call that has begun is waited for without a limit.
CollectCancelled(a, c) ==
    /\ pc[a] = "collect"
    /\ First(c, InFlight(a))
    /\ c \in expired
    /\ state[c] = "queued"
    /\ state' = [state EXCEPT ![c] = "cancelled"]
    /\ result' = [result EXCEPT ![c] = "timeout"]
    /\ Proceed(a, c)
    /\ UNCHANGED uncertain

(* future.result timed out: future.cancel stops a call no thread has begun; *)
(* one that ended after all in that moment is not tracked (CollectAnswer).  *)
CollectTimeout(a, c) ==
    /\ pc[a] = "collect"
    /\ First(c, InFlight(a))
    /\ c \in expired
    /\ \/ /\ state[c] = "queued"
          /\ state' = [state EXCEPT ![c] = "cancelled"]
          /\ UNCHANGED uncertain
       \/ /\ state[c] = "running"
          /\ Track(c)
          /\ UNCHANGED state
    /\ result' = [result EXCEPT ![c] = "timeout"]
    /\ Proceed(a, c)

-----------------------------------------------------------------------------
(* The threads: _execute_prepared and the handlers *)

Begin(c) ==
    /\ state[c] = "queued"
    /\ state' = [state EXCEPT ![c] = "running"]
    /\ UNCHANGED <<batchVars, pc, planVars, error, expired, result, uncertain, fileVars>>

Handling(c) == state[c] = "running" /\ error[c] = "none"

(* read_file, grep, list_dir, and the reading half of every edit *)
Read(c, f) ==
    /\ Handling(c)
    /\ f \in MayRead(c) \ wrote[c]
    /\ seen[c][f] = Unread
    /\ seen' = [seen EXCEPT ![c][f] = content[f]]
    /\ UNCHANGED <<batchVars, pc, planVars, state, error, expired, result, uncertain, wrote, content>>

(* One file of write_mutations: replaced atomically after it was read. *)
Write(c, f) ==
    /\ Handling(c)
    /\ f \in MayWrite(c) \ wrote[c]
    /\ seen[c][f] # Unread
    /\ content' = [content EXCEPT ![f] = c]
    /\ wrote' = [wrote EXCEPT ![c] = @ \cup {f}]
    /\ UNCHANGED <<batchVars, pc, planVars, state, error, expired, result, uncertain, seen>>

(* The handler returns or raises, possibly with some files unwritten; a    *)
(* refused call returns its error.                                         *)
Return(c) ==
    /\ state[c] = "running"
    /\ state' = [state EXCEPT ![c] = "done"]
    /\ UNCHANGED <<batchVars, pc, planVars, error, expired, result, uncertain, fileVars>>

(* The deadline of a call passes. *)
Expire(c) ==
    /\ state[c] \in {"queued", "running"}
    /\ result[c] = "none"
    /\ c \notin expired
    /\ expired' = expired \cup {c}
    /\ UNCHANGED <<batchVars, pc, planVars, state, error, result, uncertain, fileVars>>

Agent(a) ==
    \/ Submit(a)
    \/ \E c \in Ids : \/ Prepare(a, c) \/ Recheck(a, c) \/ Refuse(a, c)
                      \/ CollectAnswer(a, c) \/ CollectTimeout(a, c)

Thread(c) == Begin(c) \/ Return(c) \/ \E f \in Files : Read(c, f) \/ Write(c, f)

Next == \/ \E a \in Agents : Agent(a) \/ \E b \in Batches : StartBatch(a, b)
        \/ \E c \in Ids : Thread(c) \/ Expire(c)

(* The agent's own thread runs and time passes; nothing is assumed of the  *)
(* handlers, which may hang, nor of the model, which may ask no more.      *)
Fairness == /\ \A a \in Agents : WF_vars(Agent(a))
            /\ \A c \in Ids : WF_vars(Expire(c))

Spec == Init /\ [][Next]_vars /\ Fairness

-----------------------------------------------------------------------------
TypeOK ==
    /\ issued \in 0 .. MaxCalls
    /\ tool \in [Ids -> Tools \cup {NoTool}]
    /\ owner \in [Ids -> Agents]
    /\ pc \in [Agents -> {"idle", "prepare", "recheck", "submit", "collect"}]
    /\ wave \in [Agents -> Nat]
    /\ waveOf \in [Ids -> Nat]
    /\ state \in [Ids -> {"none", "new", "ready", "checked", "queued", "running"} \cup Over]
    /\ error \in [Ids -> {"none", "denied", "conflict", "invalid"}]
    /\ result \in [Ids -> {"none", "answer", "timeout", "denied", "conflict", "invalid"}]
    /\ expired \subseteq Ids
    /\ uncertain \subseteq Ids
    /\ seen \in [Ids -> [Files -> {Unread, Original} \cup Ids]]
    /\ wrote \in [Ids -> SUBSET Files]
    /\ content \in [Files -> {Original} \cup Ids]

(* A call that only reads and whose result was reported as a timeout *)
Abandoned(c) == tool[c].readOnly /\ result[c] = "timeout"

(* Two handlers with conflicting claims never run at the same time, in one *)
(* batch or across batches, agents and timeouts; only a reader whose       *)
(* result nobody waits for may still be reading (tools.py:405-445, 273).   *)
ConflictingCallsNeverOverlap ==
    \A c, d \in Ids :
        c # d /\ Handling(c) /\ Handling(d) /\ ClaimsConflict(Claims(c), Claims(d))
            => Abandoned(c) \/ Abandoned(d)

Settled == {c \in 1 .. issued : state[c] \in Over \/ error[c] # "none" \/ Abandoned(c)}

Order == INSTANCE CallOrder WITH
    reads <- [c \in Ids |-> MayRead(c)],
    writes <- [c \in Ids |-> MayWrite(c)],
    settled <- Settled,
    seen <- [c \in Ids |-> IF Abandoned(c) THEN [f \in Files |-> Unread] ELSE seen[c]]

(* Waves, rechecks and the isolation of timed-out calls implement calls    *)
(* run in call order.                                                      *)
ImplementsCallOrder == Order!Spec

(* No call, answered or still at work, has read a version of a file other  *)
(* than the one the calls before it left behind.                           *)
ReadsSeeCallOrder == Order!ReadsSeeCallOrder

(* Files hold what the last call in call order wrote into them, however    *)
(* late the calls that timed out end.                                      *)
WritesInCallOrder == Order!WritesInCallOrder

(* Both, while threads whose calls were given up on go on: what the calls  *)
(* did to the files and saw of them is what running them one after another *)
(* would give (tools.py:174-181).                                          *)
InCallOrder == ReadsSeeCallOrder /\ WritesInCallOrder

(* Whatever hangs, the agent gets its results: each wait is bounded by the *)
(* call's own deadline (tools.py:487-519).                                 *)
BatchReturns == \A a \in Agents : pc[a] # "idle" ~> pc[a] = "idle"

=============================================================================
