-------------------------- MODULE ToolWavesProofs --------------------------
(***************************************************************************)
(* The gateway serialises what conflicts, for any agents, tools, files and *)
(* group size.  The argument: a call is about to run, or running, only     *)
(* when every earlier call it conflicts with is settled (TurnInv), which   *)
(* rests on where the waves put the calls (PlaceInv), on who may share the *)
(* registry (AgentInv) and on what is isolated after a timeout (ThreadInv).*)
(* From it follow that conflicting handlers never overlap, that the gateway *)
(* implements CallOrder, and with CallOrderProofs what calls read and      *)
(* leave behind.                                                           *)
(***************************************************************************)
EXTENDS ToolWaves, TLAPS

USE DEF Unread, Original

-----------------------------------------------------------------------------
(* Claims *)

LEMMA ClaimsAreAccesses ==
    ASSUME TypeOK, NEW c \in Ids
    PROVE  Claims(c) \subseteq Access
  <1>1. tool[c] \in Tools \cup {NoTool}
    BY DEF TypeOK
  <1>2. Everything \in Access
    BY DEF Everything, Access
  <1>3. CASE tool[c] \in Tools
    <2>1. tool[c] \in Invocation
      BY <1>3, ToolParameters
    <2>2. tool[c].accesses \subseteq Access
      BY <2>1 DEF Invocation
    <2> QED
      BY <1>2, <2>2 DEF Claims, Declared
  <1>4. CASE tool[c] = NoTool
    BY <1>4 DEF NoTool, Claims
  <1> QED
    BY <1>1, <1>3, <1>4

LEMMA ConflictIsSymmetric ==
    ASSUME NEW A, NEW B, ClaimsConflict(A, B)
    PROVE  ClaimsConflict(B, A)
  <1>1. PICK l \in A, r \in B : AccessesConflict(l, r)
    BY DEF ClaimsConflict
  <1>2. AccessesConflict(r, l)
    BY <1>1 DEF AccessesConflict, Overlap
  <1> QED
    BY <1>1, <1>2 DEF ClaimsConflict

(* Calls that only read never conflict. *)
LEMMA ReadersShare ==
    ASSUME TypeOK, NEW c \in Ids, NEW d \in Ids,
           tool[c].readOnly, tool[d].readOnly
    PROVE  ~ClaimsConflict(Claims(c), Claims(d))
  <1>1. ASSUME NEW x \in Ids, tool[x].readOnly
        PROVE  \A a \in Claims(x) : a.mode = "read" /\ ~a.all
    <2>1. tool[x] \in Tools \/ tool[x] = NoTool
      BY DEF TypeOK
    <2>2. CASE tool[x] \in Tools
      <3>1. \A a \in tool[x].accesses : a.mode = "read" /\ ~a.all
        BY <1>1, <2>2, ToolParameters
      <3> QED
        BY <1>1, <3>1 DEF Claims, Declared
    <2>3. CASE tool[x] = NoTool
      BY <2>3 DEF NoTool, Claims
    <2> QED
      BY <2>1, <2>2, <2>3
  <1>2. \A a \in Claims(c) : a.mode = "read" /\ ~a.all
    BY <1>1
  <1>3. \A a \in Claims(d) : a.mode = "read" /\ ~a.all
    BY <1>1
  <1> QED
    BY <1>2, <1>3 DEF ClaimsConflict, AccessesConflict

(* Two claims that cover the same file overlap: of two prefixes of a path  *)
(* the shorter one is a prefix of the longer one.                          *)
LEMMA SharedFileOverlaps ==
    ASSUME NEW l \in Access, NEW r \in Access, NEW f \in Seq(STRING),
           Covers(l, f), Covers(r, f)
    PROVE  l.all \/ r.all \/ Overlap(l, r)
  <1> SUFFICES ASSUME ~l.all, ~r.all PROVE Overlap(l, r)
    OBVIOUS
  <1>1. l.path \in Seq(STRING) /\ r.path \in Seq(STRING)
    BY DEF Access
  <1>2. CASE l.path = f
    BY <1>2 DEF Covers, Overlap
  <1>3. CASE r.path = f
    BY <1>3 DEF Covers, Overlap
  <1>4. CASE l.path # f /\ r.path # f
    <2>1. /\ l.recursive /\ IsPrefix(l.path, f)
          /\ r.recursive /\ IsPrefix(r.path, f)
      BY <1>4 DEF Covers
    <2>2. IsPrefix(l.path, r.path) \/ IsPrefix(r.path, l.path)
      BY <1>1, <2>1 DEF IsPrefix
    <2> QED
      BY <2>1, <2>2 DEF Overlap
  <1> QED
    BY <1>2, <1>3, <1>4

(* Calls that would clash over a file conflict by their claims. *)
LEMMA ClashIsConflict ==
    ASSUME TypeOK, NEW c \in Ids, NEW d \in Ids, Order!Clash(c, d)
    PROVE  ClaimsConflict(Claims(c), Claims(d))
  <1>1. PICK f \in Files : \/ f \in MayWrite(c) /\ f \in MayRead(d) \cup MayWrite(d)
                           \/ f \in MayRead(c) /\ f \in MayWrite(d)
    BY DEF Order!Clash
  <1>2. PICK l \in Claims(c), r \in Claims(d) :
           Covers(l, f) /\ Covers(r, f) /\ "write" \in {l.mode, r.mode}
    BY <1>1 DEF MayRead, MayWrite
  <1>3. l \in Access /\ r \in Access /\ f \in Seq(STRING)
    BY ClaimsAreAccesses, ToolParameters
  <1>4. AccessesConflict(l, r)
    BY <1>2, <1>3, SharedFileOverlaps DEF AccessesConflict
  <1> QED
    BY <1>4 DEF ClaimsConflict

-----------------------------------------------------------------------------
(* The inductive invariant *)

(* The calls of a's batch that have their wave *)
Planned(a) == {c \in Mine(a) : state[c] # "new"}

FreshInv == \A c \in Ids :
    /\ c > issued <=> state[c] = "none"
    /\ state[c] \in {"none", "new"} => error[c] = "none" /\ result[c] = "none"

(* Who shares the registry, and with what scope *)
AgentInv ==
    /\ \A a, b \in Agents : a # b /\ pc[a] # "idle" /\ pc[b] # "idle"
                               => a \in ReadOnlyAgents /\ b \in ReadOnlyAgents
    /\ \A a \in Agents : \A c \in Mine(a) :
            pc[a] # "idle" /\ (a \in ReadOnlyAgents => tool[c].readOnly)

(* Waves respect the order of the calls and hold no conflict; while they   *)
(* are filled the calls still to come are later than those placed, and     *)
(* afterwards only the current wave and those after it have calls left.    *)
PlaceInv(a) ==
    /\ \A c, d \in Planned(a) : c < d => waveOf[c] <= waveOf[d]
    /\ \A c, d \in Planned(a) :
            c # d /\ waveOf[c] = waveOf[d] => ~ClaimsConflict(Claims(c), Claims(d))

FillInv(a) ==
    pc[a] = "prepare" =>
        \A c \in Planned(a) : /\ state[c] = "ready"
                              /\ 1 <= waveOf[c] /\ waveOf[c] <= wave[a]
                              /\ \A d \in InState(a, "new") : c < d

RunInv(a) == pc[a] # "prepare" => \A c \in Mine(a) : state[c] # "new" /\ wave[a] <= waveOf[c]

WaveInv == \A a \in Agents : PlaceInv(a) /\ FillInv(a) /\ RunInv(a)

(* Whatever still runs after its batch got a result is isolated, or reads. *)
ThreadInv == \A c \in Ids :
    result[c] # "none" /\ state[c] \notin Over =>
        state[c] = "running" /\ result[c] = "timeout" /\ (tool[c].readOnly \/ c \in uncertain)

(* A call that is about to run or running comes after every earlier call   *)
(* it conflicts with.                                                      *)
TurnInv == \A c, d \in Ids :
    /\ state[c] \in {"checked", "queued", "running"} /\ error[c] = "none"
    /\ d < c /\ ClaimsConflict(Claims(d), Claims(c))
    => d \in Settled

Inv == TypeOK /\ FreshInv /\ AgentInv /\ WaveInv /\ ThreadInv /\ TurnInv

LEMMA InitInv == Init => Inv
  <1> SUFFICES ASSUME Init PROVE Inv
    OBVIOUS
  <1>1. TypeOK
    <2>1. owner \in [Ids -> Agents]
      BY ToolParameters DEF Init
    <2> QED
      BY <2>1, ToolParameters DEF Init, TypeOK, Over
  <1>2. FreshInv
    BY DEF Init, FreshInv, Ids
  <1>3. \A a \in Agents : Mine(a) = {}
    BY DEF Init, Mine
  <1>4. AgentInv
    BY <1>3 DEF Init, AgentInv
  <1>5. WaveInv
    BY <1>3 DEF Init, WaveInv, PlaceInv, FillInv, RunInv, Planned
  <1>6. ThreadInv /\ TurnInv
    BY DEF Init, ThreadInv, TurnInv
  <1> QED
    BY <1>1, <1>2, <1>4, <1>5, <1>6 DEF Inv

LEMMA TypeStep == TypeOK /\ [Next]_vars => TypeOK'
  <1> SUFFICES ASSUME TypeOK, [Next]_vars PROVE TypeOK'
    OBVIOUS
  <1> USE DEF TypeOK, Over, batchVars, planVars, fileVars
  <1>1. ASSUME NEW a \in Agents, NEW b \in Batches, StartBatch(a, b) PROVE TypeOK'
    <2> DEFINE new == issued + 1 .. issued + Len(b)
               asked == [c \in Ids |-> IF c \in new THEN b[c - issued] ELSE tool[c]]
    <2>1. b \in Seq(Tools) /\ Len(b) \in Nat /\ MaxCalls \in Nat
      BY ToolParameters
    <2>2. issued' \in 0 .. MaxCalls
      <3>1. issued + Len(b) \in new
        BY <1>1, <2>1 DEF StartBatch
      <3>2. new \subseteq 1 .. MaxCalls /\ issued' = issued + Len(b)
        BY <1>1 DEF StartBatch, Ids
      <3>3. issued + Len(b) \in 1 .. MaxCalls
        BY <3>1, <3>2
      <3> QED
        BY <2>1, <3>2, <3>3
    <2>3. asked \in [Ids -> Tools \cup {NoTool}]
      <3> SUFFICES ASSUME NEW c \in Ids, c \in new PROVE b[c - issued] \in Tools
        BY <2>1
      <3>1. c - issued \in 1 .. Len(b)
        BY <2>1 DEF Ids
      <3> QED
        BY <2>1, <3>1
    <2>4. tool' \in [Ids -> Tools \cup {NoTool}]
      BY <1>1, <2>3 DEF StartBatch
    <2> QED
      BY <1>1, <2>2, <2>4 DEF StartBatch
  <1>2. ASSUME NEW a \in Agents, NEW c \in Ids, Place(a, c),
               error' \in [Ids -> {"none", "denied", "conflict", "invalid"}], uncertain' \subseteq Ids
        PROVE  TypeOK'
    BY <1>2 DEF Place
  <1>3. ASSUME NEW a \in Agents, NEW c \in Ids, Proceed(a, c),
               state' \in [Ids -> {"none", "new", "ready", "checked", "queued", "running"} \cup Over],
               result' \in [Ids -> {"none", "answer", "timeout", "denied", "conflict", "invalid"}],
               uncertain' \subseteq Ids
        PROVE  TypeOK'
    BY <1>3 DEF Proceed
  <1>4. ASSUME NEW a \in Agents, NEW c \in Ids, Prepare(a, c) PROVE TypeOK'
    BY <1>2, <1>4 DEF Prepare, Prune, StillRunning
  <1>5. ASSUME NEW a \in Agents, NEW c \in Ids, Recheck(a, c) PROVE TypeOK'
    BY <1>5 DEF Recheck, Prune, StillRunning
  <1>6. ASSUME NEW a \in Agents, NEW c \in Ids, Refuse(a, c) PROVE TypeOK'
    BY <1>3, <1>6 DEF Refuse
  <1>7. ASSUME NEW a \in Agents, Submit(a) PROVE TypeOK'
    BY <1>7 DEF Submit
  <1>8. ASSUME NEW a \in Agents, NEW c \in Ids, CollectAnswer(a, c) PROVE TypeOK'
    BY <1>3, <1>8 DEF CollectAnswer
  <1>9. ASSUME NEW a \in Agents, NEW c \in Ids, CollectTimeout(a, c) PROVE TypeOK'
    <2>1. state' \in [Ids -> {"none", "new", "ready", "checked", "queued", "running"} \cup Over]
      BY <1>9 DEF CollectTimeout
    <2>2. uncertain' \subseteq Ids
      BY <1>9 DEF CollectTimeout, Track, StillRunning
    <2> QED
      BY <1>3, <1>9, <2>1, <2>2 DEF CollectTimeout
  <1>10. ASSUME NEW c \in Ids, Begin(c) \/ Return(c) \/ Expire(c) PROVE TypeOK'
    <2>1. CASE Begin(c)
      BY <2>1 DEF Begin
    <2>2. CASE Return(c)
      BY <2>2 DEF Return
    <2>3. CASE Expire(c)
      BY <2>3 DEF Expire
    <2> QED
      BY <1>10, <2>1, <2>2, <2>3
  <1>11. ASSUME NEW c \in Ids, NEW f \in Files, Read(c, f) PROVE TypeOK'
    BY <1>11 DEF Read
  <1>12. ASSUME NEW c \in Ids, NEW f \in Files, Write(c, f) PROVE TypeOK'
    BY <1>12 DEF Write
  <1>13. CASE UNCHANGED vars
    BY <1>13 DEF vars
  <1> QED
    BY <1>1, <1>4, <1>5, <1>6, <1>7, <1>8, <1>9, <1>10, <1>11, <1>12, <1>13
       DEF Next, Agent, Thread

-----------------------------------------------------------------------------
(* Steps: what is common to several actions first *)

Turned == {"checked", "queued", "running"}

(* A call that is over, refused or abandoned stays so. *)
LEMMA SettledGrows ==
    ASSUME TypeOK, TypeOK', issued <= issued',
           \A c \in Ids : c <= issued =>
               /\ tool'[c] = tool[c]
               /\ state[c] \in Over => state'[c] \in Over
               /\ error[c] # "none" => error'[c] # "none"
               /\ result[c] = "timeout" => result'[c] = "timeout"
    PROVE  Settled \subseteq Settled'
  <1> SUFFICES ASSUME NEW c \in Settled PROVE c \in Settled'
    OBVIOUS
  <1>1. c \in Ids /\ c \in 1 .. issued' /\ c <= issued
    BY ToolParameters DEF Settled, TypeOK, Ids
  <1>2. state[c] \in Over \/ error[c] # "none" \/ Abandoned(c)
    BY DEF Settled
  <1>3. state'[c] \in Over \/ error'[c] # "none" \/ Abandoned(c)'
    BY <1>1, <1>2 DEF Abandoned
  <1> QED
    BY <1>1, <1>3 DEF Settled

(* Unless a call gets its turn in this step, the order of turns is kept. *)
LEMMA TurnKept ==
    ASSUME TypeOK, TypeOK', FreshInv, TurnInv, Settled \subseteq Settled',
           \A c \in Ids : c <= issued => tool'[c] = tool[c],
           \A c \in Ids : state'[c] \in Turned /\ error'[c] = "none"
                              => state[c] \in Turned /\ error[c] = "none"
    PROVE  TurnInv'
  <1> SUFFICES ASSUME NEW c \in Ids, NEW d \in Ids,
                      state'[c] \in Turned, error'[c] = "none",
                      d < c, ClaimsConflict(Claims(d), Claims(c))'
               PROVE  d \in Settled'
    BY DEF TurnInv, Turned
  <1>1. state[c] \in Turned /\ error[c] = "none"
    OBVIOUS
  <1>2. c <= issued /\ d <= issued
    BY <1>1 DEF FreshInv, Turned, TypeOK, Ids
  <1>3. Claims(c)' = Claims(c) /\ Claims(d)' = Claims(d)
    BY <1>2 DEF Claims
  <1>4. ClaimsConflict(Claims(d), Claims(c))
    BY <1>3
  <1> QED
    BY <1>1, <1>4 DEF TurnInv, Turned

(* Threads change only how far each call has come, and its files. *)
LEMMA ThreadStep ==
    ASSUME Inv, TypeOK',
           UNCHANGED <<issued, tool, owner, pc, wave, waveOf, error, result, uncertain>>,
           \A c \in Ids : \/ state'[c] = state[c]
                          \/ state[c] = "queued" /\ state'[c] = "running"
                          \/ state[c] = "running" /\ state'[c] = "done"
    PROVE  Inv'
  <1> USE DEF Inv, batchVars, planVars
  <1>1. \A c \in Ids : /\ state'[c] = "none" <=> state[c] = "none"
                       /\ state'[c] = "new" <=> state[c] = "new"
                       /\ state'[c] = "ready" <=> state[c] = "ready"
                       /\ state[c] \in Over => state'[c] \in Over
                       /\ state'[c] \in Turned => state[c] \in Turned
    BY DEF Over, Turned
  <1>2. \A a \in Agents : /\ Mine(a)' = Mine(a)
                          /\ Planned(a)' = Planned(a)
                          /\ InState(a, "new")' = InState(a, "new")
    BY <1>1 DEF Mine, Planned, InState
  <1>3. \A c \in Ids : Claims(c)' = Claims(c)
    BY DEF Claims
  <1>4. FreshInv'
    BY <1>1 DEF FreshInv
  <1>5. AgentInv'
    BY <1>2 DEF AgentInv
  <1>6. WaveInv'
    <2> SUFFICES ASSUME NEW a \in Agents PROVE (PlaceInv(a) /\ FillInv(a) /\ RunInv(a))'
      BY DEF WaveInv
    <2>1. Planned(a) \subseteq Ids /\ Mine(a) \subseteq Ids
      BY DEF Planned, Mine
    <2>2. PlaceInv(a)'
      BY <1>2, <1>3, <2>1 DEF WaveInv, PlaceInv
    <2>3. FillInv(a)'
      BY <1>1, <1>2, <2>1 DEF WaveInv, FillInv
    <2>4. RunInv(a)'
      BY <1>1, <1>2, <2>1 DEF WaveInv, RunInv
    <2> QED
      BY <2>2, <2>3, <2>4
  <1>7. ThreadInv'
    BY <1>1 DEF ThreadInv, Over
  <1>8. TurnInv'
    <2>1. Settled \subseteq Settled'
      BY <1>1, SettledGrows DEF TypeOK
    <2> QED
      BY <1>1, <2>1, TurnKept
  <1> QED
    BY <1>4, <1>5, <1>6, <1>7, <1>8

(* A call of a batch gets its result. *)
LEMMA CollectStep ==
    ASSUME Inv, TypeOK', NEW a \in Agents, NEW c \in Mine(a), Proceed(a, c),
           pc[a] \notin {"idle", "prepare"},
           \A d \in Ids : d # c => state'[d] = state[d] /\ result'[d] = result[d],
           state'[c] \in Over \cup {state[c]}, state[c] # "new", result'[c] # "none",
           state'[c] \in Over \/ (state'[c] = "running" /\ result'[c] = "timeout"
                                  /\ (tool[c].readOnly \/ c \in uncertain')),
           \A d \in Ids : d \in uncertain /\ state[d] \notin Over => d \in uncertain'
    PROVE  Inv'
  <1> USE DEF Inv, batchVars
  <1>1. c \in Ids /\ owner[c] = a /\ result[c] = "none" /\ state[c] # "none"
    BY DEF Mine
  <1>2. UNCHANGED <<issued, tool, owner, waveOf, error>>
    BY DEF Proceed
  <1>3. \A d \in Ids : /\ state'[d] = "none" <=> state[d] = "none"
                       /\ state'[d] = "new" <=> state[d] = "new"
                       /\ state[d] \in Over => state'[d] \in Over
                       /\ state'[d] \in Turned => state[d] \in Turned
    BY <1>1 DEF Over, Turned
  <1>4. /\ Mine(a)' = Mine(a) \ {c} /\ Planned(a)' = Planned(a) \ {c}
        /\ \A b \in Agents \ {a} : /\ Mine(b)' = Mine(b) /\ Planned(b)' = Planned(b)
                                   /\ InState(b, "new")' = InState(b, "new")
                                   /\ pc'[b] = pc[b] /\ wave'[b] = wave[b]
    <2>1. Mine(a)' = Mine(a) \ {c}
      BY <1>1, <1>2, <1>3 DEF Mine
    <2>2. ASSUME NEW b \in Agents \ {a} PROVE Mine(b)' = Mine(b)
      BY <1>1, <1>2, <1>3 DEF Mine
    <2>3. \A b \in Agents \ {a} : pc'[b] = pc[b] /\ wave'[b] = wave[b]
      BY DEF Proceed, TypeOK
    <2>4. \A b \in Agents : Mine(b) \subseteq Ids /\ (b # a => c \notin Mine(b))
      BY <1>1 DEF Mine
    <2> QED
      BY <1>3, <2>1, <2>2, <2>3, <2>4 DEF Planned, InState
  <1>5. /\ pc'[a] # "prepare"
        /\ pc'[a] = "idle" => Mine(a)' = {}
        /\ wave'[a] = IF Mine(a) \ {c} = {} THEN 0
                      ELSE IF \A d \in Mine(a) \ {c} : waveOf[d] # wave[a] THEN wave[a] + 1
                      ELSE wave[a]
    <2>1. Mine(a) \ {c} = {} => InFlight(a) \ {c} = {}
      BY DEF InFlight, Pending, InState
    <2>2. pc'[a] # "prepare" /\ (pc'[a] = "idle" => Mine(a) \ {c} = {})
      BY <2>1 DEF Proceed, TypeOK
    <2>3. wave'[a] = IF Mine(a) \ {c} = {} THEN 0
                    ELSE IF {d \in Mine(a) \ {c} : waveOf[d] = wave[a]} = {} THEN wave[a] + 1
                    ELSE wave[a]
      BY DEF Proceed, TypeOK
    <2> QED
      BY <1>4, <2>2, <2>3
  <1>6. \A d \in Ids : Claims(d)' = Claims(d)
    BY <1>2 DEF Claims
  <1>7. FreshInv'
    BY <1>1, <1>2, <1>3 DEF FreshInv, Over
  <1>8. AgentInv'
    <2>1. \A b \in Agents : pc'[b] # "idle" => pc[b] # "idle"
      BY <1>4
    <2>2. \A b \in Agents : \A d \in Mine(b)' : d \in Mine(b) /\ pc'[b] # "idle"
      BY <1>4, <1>5 DEF AgentInv
    <2> QED
      BY <1>2, <2>1, <2>2 DEF AgentInv
  <1>9. WaveInv'
    <2> SUFFICES ASSUME NEW b \in Agents PROVE (PlaceInv(b) /\ FillInv(b) /\ RunInv(b))'
      BY DEF WaveInv
    <2>1. Planned(b) \subseteq Mine(b) /\ Mine(b) \subseteq Ids /\ Planned(b)' \subseteq Planned(b)
      BY <1>4 DEF Planned, Mine
    <2>2. PlaceInv(b)'
      BY <1>2, <1>6, <2>1 DEF WaveInv, PlaceInv
    <2>3. FillInv(b)'
      <3>1. CASE b = a
        BY <1>5, <3>1 DEF FillInv
      <3>2. CASE b # a
        <4>1. \A d \in Planned(b) : d # c
          BY <1>1, <3>2 DEF Planned, Mine
        <4> QED
          BY <1>2, <1>4, <2>1, <3>2, <4>1 DEF WaveInv, FillInv
      <3> QED
        BY <3>1, <3>2
    <2>4. RunInv(b)'
      <3>1. CASE b = a
        <4> SUFFICES ASSUME NEW d \in Mine(a) \ {c} PROVE state'[d] # "new" /\ wave'[a] <= waveOf[d]
          BY <1>2, <1>4, <3>1 DEF RunInv
        <4>1. state[d] # "new" /\ wave[a] <= waveOf[d] /\ d \in Ids
          BY <2>1, <3>1 DEF WaveInv, RunInv
        <4>2. waveOf[d] \in Nat /\ wave[a] \in Nat
          BY <4>1 DEF TypeOK
        <4> QED
          BY <1>3, <1>5, <4>1, <4>2
      <3>2. CASE b # a
        BY <1>2, <1>3, <1>4, <2>1, <3>2 DEF WaveInv, RunInv
      <3> QED
        BY <3>1, <3>2
    <2> QED
      BY <2>2, <2>3, <2>4
  <1>10. ThreadInv'
    <2> SUFFICES ASSUME NEW d \in Ids, result'[d] # "none", state'[d] \notin Over
                 PROVE  state'[d] = "running" /\ result'[d] = "timeout"
                        /\ (tool[d].readOnly \/ d \in uncertain')
      BY <1>2 DEF ThreadInv
    <2>1. CASE d = c
      BY <2>1
    <2>2. CASE d # c
      BY <2>2 DEF ThreadInv
    <2> QED
      BY <2>1, <2>2
  <1>11. TurnInv'
    <2>1. Settled \subseteq Settled'
      <3>1. \A d \in Ids : result[d] = "timeout" => result'[d] = "timeout"
        BY <1>1
      <3> QED
        BY <1>2, <1>3, <3>1, SettledGrows DEF TypeOK
    <2> QED
      BY <1>2, <1>3, <2>1, TurnKept
  <1> QED
    BY <1>7, <1>8, <1>9, <1>10, <1>11

(* A batch arrives: its calls are new, or answered by the scope filter. *)
LEMMA StartStep ==
    ASSUME Inv, TypeOK', NEW a \in Agents, NEW b \in Batches, StartBatch(a, b)
    PROVE  Inv'
  <1> USE DEF Inv, fileVars
  <1> DEFINE new == issued + 1 .. issued + Len(b)
  <1>1. \A c \in Ids : c \in new => c > issued /\ state[c] = "none" /\ result[c] = "none" /\ c <= issued'
    BY ToolParameters DEF StartBatch, FreshInv, TypeOK, Ids
  <1>2. Mine(a) = {}
    BY DEF StartBatch, AgentInv
  <1>3. PICK denied \in SUBSET new :
           /\ denied = {c \in new : ~InScope(a, tool'[c])}
           /\ state' = [c \in Ids |-> IF c \in denied THEN "done"
                                      ELSE IF c \in new THEN "new" ELSE state[c]]
           /\ error' = [c \in Ids |-> IF c \in denied THEN "denied" ELSE error[c]]
           /\ result' = [c \in Ids |-> IF c \in denied THEN "denied" ELSE result[c]]
           /\ pc' = [pc EXCEPT ![a] = IF new = denied THEN "idle" ELSE "prepare"]
    BY DEF StartBatch
  <1>4. /\ issued' = issued + Len(b) /\ new \subseteq Ids /\ Len(b) \in Nat /\ issued \in Nat
        /\ \A c \in Ids : c \notin new => tool'[c] = tool[c] /\ owner'[c] = owner[c]
        /\ \A c \in new : owner'[c] = a
        /\ UNCHANGED <<waveOf, expired, uncertain>>
    <2>1. issued' = issued + Len(b) /\ new \subseteq Ids /\ UNCHANGED <<waveOf, expired, uncertain>>
      BY DEF StartBatch
    <2>2. Len(b) \in Nat /\ issued \in Nat
      BY ToolParameters DEF TypeOK
    <2>3. /\ tool' = [c \in Ids |-> IF c \in new THEN b[c - issued] ELSE tool[c]]
          /\ owner' = [c \in Ids |-> IF c \in new THEN a ELSE owner[c]]
      BY DEF StartBatch
    <2> QED
      BY <2>1, <2>2, <2>3
  <1>5. \A c \in Ids : c <= issued => c \notin new
    BY <1>4 DEF Ids
  <1>6. /\ Mine(a)' = new \ denied
        /\ \A d \in Agents \ {a} : /\ Mine(d)' = Mine(d)
                                   /\ pc'[d] = pc[d] /\ wave'[d] = wave[d]
    <2>1. Mine(a)' = new \ denied
      <3>1. ASSUME NEW c \in Ids PROVE c \in Mine(a)' <=> c \in new \ denied
        <4>1. CASE c \in new
          BY <1>1, <1>3, <1>4, <4>1 DEF Mine
        <4>2. CASE c \notin new
          BY <1>2, <1>3, <1>4, <4>2 DEF Mine
        <4> QED
          BY <4>1, <4>2
      <3> QED
        BY <1>4, <3>1 DEF Mine, Ids
    <2>2. ASSUME NEW d \in Agents \ {a} PROVE Mine(d)' = Mine(d)
      <3>1. ASSUME NEW c \in Ids PROVE c \in Mine(d)' <=> c \in Mine(d)
        <4>1. CASE c \in new
          BY <1>1, <1>3, <1>4, <4>1 DEF Mine
        <4>2. CASE c \notin new
          BY <1>3, <1>4, <4>2 DEF Mine
        <4> QED
          BY <4>1, <4>2
      <3> QED
        BY <3>1 DEF Mine, Ids
    <2>3. \A d \in Agents \ {a} : pc'[d] = pc[d] /\ wave'[d] = wave[d]
      BY DEF StartBatch, TypeOK
    <2> QED
      BY <2>1, <2>2, <2>3
  <1>7. FreshInv'
    <2> SUFFICES ASSUME NEW c \in Ids
                 PROVE  /\ c > issued' <=> state'[c] = "none"
                        /\ state'[c] \in {"none", "new"} => error'[c] = "none" /\ result'[c] = "none"
      BY DEF FreshInv
    <2>1. c \in Int /\ (c \in new <=> issued < c /\ c <= issued')
      BY <1>4 DEF Ids
    <2>2. CASE c \in new
      <3>1. error[c] = "none" /\ result[c] = "none" /\ ~(c > issued')
        BY <1>1, <1>4, <2>1, <2>2 DEF FreshInv
      <3>2. CASE c \in denied
        BY <1>3, <3>1, <3>2
      <3>3. CASE c \notin denied
        BY <1>3, <2>2, <3>1, <3>3
      <3> QED
        BY <3>2, <3>3
    <2>3. CASE c \notin new
      BY <1>3, <1>4, <2>1, <2>3 DEF FreshInv
    <2> QED
      BY <2>2, <2>3
  <1>8. AgentInv'
    <2>1. ASSUME NEW d \in Agents, NEW e \in Agents, d # e, pc'[d] # "idle", pc'[e] # "idle"
          PROVE  d \in ReadOnlyAgents /\ e \in ReadOnlyAgents
      <3>1. \A f \in Agents \ {a} : pc[f] # "idle" => a \in ReadOnlyAgents /\ f \in ReadOnlyAgents
        BY DEF StartBatch, Admitted
      <3>2. CASE d # a /\ e # a
        BY <1>6, <2>1, <3>2 DEF AgentInv
      <3>3. CASE d = a \/ e = a
        BY <1>6, <2>1, <3>1, <3>3
      <3> QED
        BY <3>2, <3>3
    <2>2. ASSUME NEW d \in Agents, NEW c \in Mine(d)'
          PROVE  pc'[d] # "idle" /\ (d \in ReadOnlyAgents => tool'[c].readOnly)
      <3>1. CASE d = a
        <4>1. c \in new \ denied
          BY <1>6, <2>2, <3>1
        <4>2. InScope(a, tool'[c])
          BY <1>3, <4>1
        <4>3. pc'[a] = "prepare"
          <5>1. new # denied
            BY <4>1
          <5> QED
            BY <1>3, <5>1 DEF TypeOK
        <4> QED
          BY <3>1, <4>2, <4>3 DEF InScope
      <3>2. CASE d # a
        <4>1. c \in Mine(d) /\ c \in Ids
          BY <1>6, <2>2, <3>2 DEF Mine
        <4>2. c \notin new
          BY <1>1, <4>1 DEF Mine
        <4> QED
          BY <1>4, <1>6, <3>2, <4>1, <4>2 DEF AgentInv
      <3> QED
        BY <3>1, <3>2
    <2> QED
      BY <2>1, <2>2 DEF AgentInv
  <1>9. WaveInv'
    <2> SUFFICES ASSUME NEW d \in Agents PROVE (PlaceInv(d) /\ FillInv(d) /\ RunInv(d))'
      BY DEF WaveInv
    <2>1. CASE d = a
      <3>1. Planned(a)' = {} /\ (pc'[a] # "prepare" => Mine(a)' = {})
        BY <1>3, <1>4, <1>6 DEF Planned, TypeOK
      <3> QED
        BY <2>1, <3>1 DEF PlaceInv, FillInv, RunInv
    <2>2. CASE d # a
      <3>1. \A c \in Mine(d) : c \in Ids /\ c \notin new /\ c \notin denied /\ state'[c] = state[c]
        BY <1>1, <1>3 DEF Mine
      <3>2. Mine(d)' = Mine(d) /\ Planned(d)' = Planned(d) /\ InState(d, "new")' = InState(d, "new")
        BY <1>6, <2>2, <3>1 DEF Planned, InState
      <3>3. \A c \in Mine(d) : Claims(c)' = Claims(c)
        BY <1>4, <3>1 DEF Claims
      <3>4. Planned(d) \subseteq Mine(d)
        BY DEF Planned
      <3>5. PlaceInv(d)'
        BY <1>4, <3>2, <3>3, <3>4 DEF WaveInv, PlaceInv
      <3>6. FillInv(d)'
        BY <1>4, <1>6, <2>2, <3>1, <3>2, <3>4 DEF WaveInv, FillInv
      <3>7. RunInv(d)'
        BY <1>4, <1>6, <2>2, <3>1, <3>2, <3>4 DEF WaveInv, RunInv
      <3> QED
        BY <3>5, <3>6, <3>7
    <2> QED
      BY <2>1, <2>2
  <1>10. ThreadInv'
    <2> SUFFICES ASSUME NEW c \in Ids, result'[c] # "none", state'[c] \notin Over
                 PROVE  state'[c] = "running" /\ result'[c] = "timeout"
                        /\ (tool'[c].readOnly \/ c \in uncertain')
      BY DEF ThreadInv
    <2>1. c \notin denied /\ c \notin new
      BY <1>1, <1>3 DEF Over
    <2> QED
      BY <1>3, <1>4, <2>1 DEF ThreadInv
  <1>11. TurnInv'
    <2>1. \A c \in Ids : c <= issued => c \notin denied
      BY <1>5
    <2>2. Settled \subseteq Settled'
      BY <1>3, <1>4, <1>5, <2>1, SettledGrows
    <2>3. \A c \in Ids : state'[c] \in Turned /\ error'[c] = "none"
                           => state[c] \in Turned /\ error[c] = "none"
      BY <1>3 DEF Turned
    <2> QED
      BY <1>4, <1>5, <2>2, <2>3, TurnKept
  <1> QED
    BY <1>7, <1>8, <1>9, <1>10, <1>11

(* Forgetting the isolated calls that have ended leaves the others. *)
LEMMA PruneKeeps ==
    ASSUME NEW A, Prune(A)
    PROVE  \A d \in Ids : d \in uncertain /\ state[d] \notin Over => d \in uncertain'
  BY DEF Prune, StillRunning

(* The next call of the batch gets its wave. *)
LEMMA PrepareStep ==
    ASSUME Inv, TypeOK', NEW a \in Agents, NEW c \in Ids, Prepare(a, c)
    PROVE  Inv'
  <1> USE DEF Inv, batchVars
  <1> DEFINE more == InState(a, "new") # {c}
             w == IF Joins(a, c) THEN wave[a] ELSE wave[a] + 1
  <1>1. /\ pc[a] = "prepare" /\ c \in Mine(a) /\ state[c] = "new"
        /\ \A d \in InState(a, "new") : c <= d
    BY DEF Prepare, First, InState
  <1>2. error[c] = "none" /\ result[c] = "none" /\ c <= issued /\ owner[c] = a
    BY <1>1 DEF FreshInv, Mine, TypeOK, Ids
  <1>3. UNCHANGED <<issued, tool, owner, result>>
    BY DEF Prepare, Place
  <1>4. /\ \A d \in Ids : d # c => /\ state'[d] = state[d] /\ error'[d] = error[d]
                                   /\ waveOf'[d] = waveOf[d]
        /\ state'[c] = "ready" /\ waveOf'[c] = w
    BY DEF Prepare, Place, TypeOK
  <1>5. /\ pc'[a] = IF more THEN "prepare" ELSE "recheck"
        /\ wave'[a] = IF more THEN w ELSE 1
        /\ \A b \in Agents \ {a} : pc'[b] = pc[b] /\ wave'[b] = wave[b]
    BY DEF Prepare, Place, TypeOK
  <1>6. \A d \in Ids : d \in uncertain /\ state[d] \notin Over => d \in uncertain'
    BY PruneKeeps DEF Prepare
  <1>7. \A d \in Ids : Claims(d)' = Claims(d)
    BY <1>3 DEF Claims
  <1>8. /\ \A b \in Agents : Mine(b)' = Mine(b) /\ Mine(b) \subseteq Ids
        /\ Planned(a)' = Planned(a) \cup {c} /\ c \notin Planned(a)
        /\ InState(a, "new")' = InState(a, "new") \ {c}
        /\ \A b \in Agents \ {a} : /\ Planned(b)' = Planned(b)
                                   /\ InState(b, "new")' = InState(b, "new")
                                   /\ c \notin Mine(b)
    <2>1. \A b \in Agents : Mine(b)' = Mine(b) /\ Mine(b) \subseteq Ids
      BY <1>1, <1>3, <1>4 DEF Mine
    <2>2. \A b \in Agents \ {a} : c \notin Mine(b)
      BY <1>2 DEF Mine
    <2> QED
      BY <1>1, <1>4, <2>1, <2>2 DEF Planned, InState
  <1>9. \A d \in Planned(a) : /\ d \in Ids /\ state[d] = "ready" /\ d < c
                              /\ 1 <= waveOf[d] /\ waveOf[d] <= wave[a]
                              /\ waveOf[d] \in Nat
    BY <1>1, <1>8 DEF WaveInv, FillInv, TypeOK, InState, Planned
  <1>10. w \in Nat /\ 1 <= w /\ wave[a] <= w
    <2>1. wave[a] \in Nat
      BY DEF TypeOK
    <2>2. Joins(a, c) => 1 <= wave[a]
      <3>1. Joins(a, c) => \E d \in Planned(a) : waveOf[d] = wave[a]
        BY DEF Joins, InState, Planned
      <3> QED
        BY <1>9, <3>1
    <2> QED
      BY <2>1, <2>2
  <1>11. FreshInv'
    <2> SUFFICES ASSUME NEW d \in Ids
                 PROVE  /\ d > issued <=> state'[d] = "none"
                        /\ state'[d] \in {"none", "new"} => error'[d] = "none" /\ result[d] = "none"
      BY <1>3 DEF FreshInv
    <2>1. CASE d = c
      BY <1>2, <1>4, <2>1 DEF TypeOK, Ids
    <2>2. CASE d # c
      BY <1>4, <2>2 DEF FreshInv
    <2> QED
      BY <2>1, <2>2
  <1>12. AgentInv'
    <2>1. \A b \in Agents : pc'[b] # "idle" <=> pc[b] # "idle"
      BY <1>1, <1>5
    <2> QED
      BY <1>3, <1>8, <2>1 DEF AgentInv
  <1>13. WaveInv'
    <2> SUFFICES ASSUME NEW b \in Agents PROVE (PlaceInv(b) /\ FillInv(b) /\ RunInv(b))'
      BY DEF WaveInv
    <2>1. CASE b = a
      <3>1. ASSUME NEW d \in Planned(a)'
            PROVE  /\ d \in Ids /\ state'[d] = "ready" /\ waveOf'[d] \in Nat
                   /\ 1 <= waveOf'[d] /\ waveOf'[d] <= w /\ d <= c
                   /\ d # c => d \in Planned(a) /\ waveOf'[d] = waveOf[d]
        <4>1. CASE d = c
          BY <1>4, <1>10, <4>1 DEF Ids
        <4>2. CASE d # c
          <5>1. d \in Planned(a)
            BY <1>8, <4>2
          <5> QED
            BY <1>4, <1>9, <1>10, <4>2, <5>1 DEF TypeOK, Ids
        <4> QED
          BY <4>1, <4>2
      <3>2. ASSUME NEW d \in Planned(a), waveOf[d] = w
            PROVE  ~ClaimsConflict(Claims(c), Claims(d)) /\ ~ClaimsConflict(Claims(d), Claims(c))
        <4>1. Joins(a, c) /\ waveOf[d] = wave[a]
          BY <1>9, <3>2 DEF TypeOK
        <4>2. d \in InState(a, "ready")
          BY <1>9 DEF InState, Planned
        <4>3. ~ClaimsConflict(Claims(c), Claims(d))
          BY <4>1, <4>2 DEF Joins
        <4> QED
          BY <4>3, ConflictIsSymmetric
      <3>3. PlaceInv(a)'
        <4>1. ASSUME NEW d \in Planned(a)', NEW e \in Planned(a)', d < e
              PROVE  waveOf'[d] <= waveOf'[e]
          <5>1. CASE e = c
            BY <1>4, <3>1, <5>1
          <5>2. CASE e # c
            <6>1. d # c
              BY <3>1, <4>1, <5>2 DEF Ids
            <6> QED
              BY <3>1, <4>1, <5>2, <6>1 DEF WaveInv, PlaceInv
          <5> QED
            BY <5>1, <5>2
        <4>2. ASSUME NEW d \in Planned(a)', NEW e \in Planned(a)', d # e, waveOf'[d] = waveOf'[e]
              PROVE  ~ClaimsConflict(Claims(d), Claims(e))'
          <5> SUFFICES ~ClaimsConflict(Claims(d), Claims(e))
            BY <1>7, <3>1
          <5>1. CASE d = c
            <6>1. e \in Planned(a) /\ waveOf[e] = w
              BY <1>4, <3>1, <4>2, <5>1
            <6> QED
              BY <3>2, <5>1, <6>1
          <5>2. CASE e = c
            <6>1. d \in Planned(a) /\ waveOf[d] = w
              BY <1>4, <3>1, <4>2, <5>2
            <6> QED
              BY <3>2, <5>2, <6>1
          <5>3. CASE d # c /\ e # c
            BY <3>1, <4>2, <5>3 DEF WaveInv, PlaceInv
          <5> QED
            BY <5>1, <5>2, <5>3
        <4> QED
          BY <4>1, <4>2 DEF PlaceInv
      <3>4. FillInv(a)'
        <4> SUFFICES ASSUME pc'[a] = "prepare", NEW d \in Planned(a)'
                     PROVE  /\ state'[d] = "ready" /\ 1 <= waveOf'[d] /\ waveOf'[d] <= wave'[a]
                            /\ \A e \in InState(a, "new")' : d < e
          BY DEF FillInv
        <4>1. wave'[a] = w
          BY <1>5
        <4>2. ASSUME NEW e \in InState(a, "new")' PROVE d < e
          <5>1. c <= e /\ e # c /\ e \in Ids
            BY <1>1, <1>8 DEF InState, Mine
          <5> QED
            BY <3>1, <5>1 DEF Ids
        <4> QED
          BY <3>1, <4>1, <4>2
      <3>5. RunInv(a)'
        <4> SUFFICES ASSUME pc'[a] # "prepare", NEW d \in Mine(a)'
                     PROVE  state'[d] # "new" /\ wave'[a] <= waveOf'[d]
          BY DEF RunInv
        <4>1. ~more /\ wave'[a] = 1
          BY <1>5
        <4>2. d \in Planned(a)'
          <5>1. d \in Mine(a) /\ d \in Ids
            BY <1>8
          <5>2. d # c => state[d] # "new"
            BY <4>1, <5>1 DEF InState
          <5> QED
            BY <1>8, <5>1, <5>2 DEF Planned
        <4> QED
          BY <3>1, <4>1, <4>2
      <3> QED
        BY <2>1, <3>3, <3>4, <3>5
    <2>2. CASE b # a
      <3>1. \A d \in Mine(b) : /\ d \in Ids /\ state'[d] = state[d] /\ waveOf'[d] = waveOf[d]
        BY <1>4, <1>8, <2>2
      <3>2. Planned(b) \subseteq Mine(b)
        BY DEF Planned
      <3>3. PlaceInv(b)'
        BY <1>7, <1>8, <2>2, <3>1, <3>2 DEF WaveInv, PlaceInv
      <3>4. FillInv(b)'
        BY <1>5, <1>8, <2>2, <3>1, <3>2 DEF WaveInv, FillInv
      <3>5. RunInv(b)'
        BY <1>5, <1>8, <2>2, <3>1 DEF WaveInv, RunInv
      <3> QED
        BY <3>3, <3>4, <3>5
    <2> QED
      BY <2>1, <2>2
  <1>14. ThreadInv'
    BY <1>2, <1>3, <1>4, <1>6 DEF ThreadInv
  <1>15. TurnInv'
    <2>1. Settled \subseteq Settled'
      <3>1. \A d \in Ids : /\ state[d] \in Over => state'[d] \in Over
                           /\ error[d] # "none" => error'[d] # "none"
        BY <1>1, <1>2, <1>4 DEF Over
      <3> QED
        BY <1>3, <3>1, SettledGrows DEF TypeOK
    <2>2. \A d \in Ids : state'[d] \in Turned /\ error'[d] = "none"
                           => state[d] \in Turned /\ error[d] = "none"
      BY <1>4 DEF Turned
    <2> QED
      BY <1>3, <2>1, <2>2, TurnKept
  <1> QED
    BY <1>11, <1>12, <1>13, <1>14, <1>15

(* Calls of a planned batch move on towards their threads. *)
LEMMA PlannedStep ==
    ASSUME Inv, TypeOK', NEW a \in Agents, UNCHANGED <<batchVars, planVars, result>>,
           pc[a] \notin {"idle", "prepare"}, pc'[a] \notin {"idle", "prepare"},
           \A b \in Agents \ {a} : pc'[b] = pc[b],
           \A d \in Ids : \/ state'[d] = state[d]
                          \/ /\ d \in Mine(a) /\ state[d] \in {"ready", "checked"}
                             /\ state'[d] \in {"checked", "queued"},
           \A d \in Ids : state[d] \in {"none", "new"} => error'[d] = error[d],
           \A d \in Ids : d \in uncertain /\ state[d] \notin Over => d \in uncertain'
    PROVE  FreshInv' /\ AgentInv' /\ WaveInv' /\ ThreadInv'
  <1> USE DEF Inv, batchVars, planVars
  <1>1. \A d \in Ids : /\ state'[d] = "none" <=> state[d] = "none"
                       /\ state'[d] = "new" <=> state[d] = "new"
                       /\ state'[d] \in Over <=> state[d] \in Over
                       /\ state'[d] = "running" <=> state[d] = "running"
    BY DEF Over
  <1>2. \A b \in Agents : /\ Mine(b)' = Mine(b) /\ Mine(b) \subseteq Ids
                          /\ Planned(b)' = Planned(b) /\ Planned(b) \subseteq Mine(b)
                          /\ InState(b, "new")' = InState(b, "new")
    BY <1>1 DEF Mine, Planned, InState
  <1>3. \A d \in Ids : Claims(d)' = Claims(d)
    BY DEF Claims
  <1>4. FreshInv'
    BY <1>1 DEF FreshInv
  <1>5. AgentInv'
    <2>1. \A b \in Agents : pc'[b] # "idle" <=> pc[b] # "idle"
      OBVIOUS
    <2> QED
      BY <1>2, <2>1 DEF AgentInv
  <1>6. WaveInv'
    <2> SUFFICES ASSUME NEW b \in Agents PROVE (PlaceInv(b) /\ FillInv(b) /\ RunInv(b))'
      BY DEF WaveInv
    <2>1. PlaceInv(b)'
      BY <1>2, <1>3 DEF WaveInv, PlaceInv
    <2>2. FillInv(b)'
      <3>1. b # a => \A d \in Planned(b) : state'[d] = state[d]
        BY <1>2 DEF Mine
      <3> QED
        BY <1>2, <3>1 DEF WaveInv, FillInv
    <2>3. RunInv(b)'
      BY <1>1, <1>2 DEF WaveInv, RunInv
    <2> QED
      BY <2>1, <2>2, <2>3
  <1>7. ThreadInv'
    BY <1>1 DEF ThreadInv
  <1> QED
    BY <1>4, <1>5, <1>6, <1>7

(* When a call is rechecked with nothing in its way, every earlier call it *)
(* conflicts with is settled: one of an earlier batch or wave has ended,   *)
(* was abandoned or would be isolated, and the other calls of its wave, or *)
(* of agents that run alongside, do not conflict with it.                  *)
LEMMA TurnComes ==
    ASSUME Inv, NEW a \in Agents, NEW c \in Pending(a, "ready"), pc[a] = "recheck",
           ~Isolated(Claims(c)),
           NEW d \in Ids, d < c, ClaimsConflict(Claims(d), Claims(c))
    PROVE  d \in Settled
  <1> USE DEF Inv
  <1> SUFFICES ASSUME d \notin Settled PROVE FALSE
    OBVIOUS
  <1>1. c \in Mine(a) /\ c \in Ids /\ state[c] = "ready" /\ waveOf[c] = wave[a]
    BY DEF Pending, InState, Mine
  <1>2. d \in 1 .. issued /\ state[d] # "none"
    BY <1>1 DEF FreshInv, TypeOK, Ids
  <1>3. state[d] \notin Over /\ ~Abandoned(d)
    BY <1>2 DEF Settled
  <1>4. CASE result[d] # "none"
    <2>1. d \in uncertain
      BY <1>3, <1>4 DEF ThreadInv, Abandoned
    <2>2. d \in StillRunning
      BY <1>3, <2>1 DEF StillRunning
    <2>3. ClaimsConflict(Claims(c), Claims(d))
      BY ConflictIsSymmetric
    <2> QED
      BY <2>2, <2>3 DEF Isolated
  <1>5. CASE result[d] = "none"
    <2>1. owner[d] \in Agents /\ d \in Mine(owner[d])
      BY <1>2, <1>5 DEF Mine, TypeOK
    <2>2. CASE owner[d] # a
      <3>1. a \in ReadOnlyAgents /\ owner[d] \in ReadOnlyAgents
        BY <2>1, <2>2 DEF AgentInv
      <3>2. tool[c].readOnly /\ tool[d].readOnly
        BY <1>1, <2>1, <3>1 DEF AgentInv
      <3> QED
        BY <1>1, <3>2, ReadersShare
    <2>3. CASE owner[d] = a
      <3>1. d \in Mine(a) /\ state[d] # "new" /\ wave[a] <= waveOf[d]
        BY <2>1, <2>3 DEF WaveInv, RunInv
      <3>2. c \in Planned(a) /\ d \in Planned(a)
        BY <1>1, <3>1 DEF Planned
      <3>3. waveOf[d] <= waveOf[c]
        BY <3>2 DEF WaveInv, PlaceInv
      <3>4. waveOf[d] = waveOf[c]
        <4>1. waveOf[d] \in Nat /\ wave[a] \in Nat
          BY DEF TypeOK
        <4> QED
          BY <1>1, <3>1, <3>3, <4>1
      <3> QED
        BY <3>2, <3>4 DEF WaveInv, PlaceInv, Ids
    <2> QED
      BY <2>2, <2>3
  <1> QED
    BY <1>4, <1>5

LEMMA RecheckStep ==
    ASSUME Inv, TypeOK', NEW a \in Agents, NEW c \in Ids, Recheck(a, c)
    PROVE  Inv'
  <1> USE DEF Inv, batchVars, planVars
  <1> DEFINE claims == IF error[c] = "none" THEN Claims(c) ELSE {}
  <1>1. /\ pc[a] = "recheck" /\ c \in Pending(a, "ready")
        /\ c \in Mine(a) /\ state[c] = "ready"
    BY DEF Recheck, First, Pending, InState
  <1>2. /\ \A d \in Ids : d # c => state'[d] = state[d] /\ error'[d] = error[d]
        /\ state'[c] = "checked" /\ UNCHANGED <<issued, tool, owner, wave, waveOf, result>>
    BY DEF Recheck, TypeOK
  <1>3. error'[c] = IF Isolated(claims) THEN "conflict" ELSE error[c]
    BY DEF Recheck, TypeOK
  <1>4. \A d \in Ids : d \in uncertain /\ state[d] \notin Over => d \in uncertain'
    BY PruneKeeps DEF Recheck
  <1>5. /\ pc'[a] \in {"submit", "recheck"}
        /\ \A b \in Agents \ {a} : pc'[b] = pc[b]
    BY DEF Recheck, TypeOK
  <1>6. FreshInv' /\ AgentInv' /\ WaveInv' /\ ThreadInv'
    BY <1>1, <1>2, <1>4, <1>5, PlannedStep
  <1>7. TurnInv'
    <2>1. Settled \subseteq Settled'
      <3>1. \A d \in Ids : /\ state[d] \in Over => state'[d] \in Over
                           /\ error[d] # "none" => error'[d] # "none"
        BY <1>1, <1>2, <1>3 DEF Over
      <3> QED
        BY <1>2, <3>1, SettledGrows DEF TypeOK
    <2> SUFFICES ASSUME NEW e \in Ids, NEW d \in Ids,
                        state'[e] \in Turned, error'[e] = "none",
                        d < e, ClaimsConflict(Claims(d), Claims(e))
                 PROVE  d \in Settled
      BY <1>2, <2>1 DEF TurnInv, Turned, Claims
    <2>2. CASE e # c
      BY <1>2, <2>2 DEF TurnInv, Turned
    <2>3. CASE e = c
      <3>1. error[c] = "none" /\ ~Isolated(Claims(c))
        BY <1>3, <2>3
      <3> QED
        BY <1>1, <2>3, <3>1, TurnComes
    <2> QED
      BY <2>2, <2>3
  <1> QED
    BY <1>6, <1>7

LEMMA SubmitStep ==
    ASSUME Inv, TypeOK', NEW a \in Agents, Submit(a)
    PROVE  Inv'
  <1> USE DEF Inv, batchVars, planVars
  <1>1. \A d \in Group(a) : d \in Mine(a) /\ state[d] = "checked"
    BY DEF Group, Pending, InState
  <1>2. /\ \A d \in Ids : state'[d] = IF d \in Group(a) THEN "queued" ELSE state[d]
        /\ UNCHANGED <<issued, tool, owner, wave, waveOf, error, result, uncertain>>
        /\ pc[a] = "submit" /\ pc'[a] = "collect" /\ \A b \in Agents \ {a} : pc'[b] = pc[b]
    BY DEF Submit, TypeOK
  <1>3. FreshInv' /\ AgentInv' /\ WaveInv' /\ ThreadInv'
    BY <1>1, <1>2, PlannedStep
  <1>4. TurnInv'
    <2>1. Settled \subseteq Settled'
      <3>1. \A d \in Ids : state[d] \in Over => state'[d] \in Over
        BY <1>1, <1>2 DEF Over
      <3> QED
        BY <1>2, <3>1, SettledGrows DEF TypeOK
    <2> QED
      BY <1>1, <1>2, <2>1, TurnKept DEF Turned
  <1> QED
    BY <1>3, <1>4

LEMMA ResultStep ==
    ASSUME Inv, TypeOK', NEW a \in Agents, NEW c \in Ids,
           Refuse(a, c) \/ CollectAnswer(a, c) \/ CollectTimeout(a, c)
    PROVE  Inv'
  <1> USE DEF Inv
  <1>1. CASE Refuse(a, c)
    <2>1. c \in Mine(a) /\ state[c] = "checked"
      BY <1>1 DEF Refuse, Group, Pending, InState
    <2>2. /\ \A d \in Ids : d # c => state'[d] = state[d] /\ result'[d] = result[d]
          /\ state'[c] = "done" /\ result'[c] # "none" /\ UNCHANGED uncertain
          /\ pc[a] = "submit" /\ Proceed(a, c)
      BY <1>1 DEF Refuse, TypeOK
    <2> QED
      BY <2>1, <2>2, CollectStep DEF Over
  <1>2. CASE CollectAnswer(a, c)
    <2>1. c \in Mine(a) /\ state[c] = "done"
      BY <1>2 DEF CollectAnswer, First, InFlight, Pending, InState
    <2>2. /\ \A d \in Ids : d # c => result'[d] = result[d]
          /\ result'[c] # "none" /\ UNCHANGED <<state, uncertain>>
          /\ pc[a] = "collect" /\ Proceed(a, c)
      BY <1>2 DEF CollectAnswer, TypeOK
    <2> QED
      BY <2>1, <2>2, CollectStep DEF Over
  <1>3. CASE CollectTimeout(a, c)
    <2>1. c \in Mine(a)
      BY <1>3 DEF CollectTimeout, First, InFlight, Pending, InState
    <2>2. /\ \A d \in Ids : d # c => result'[d] = result[d]
          /\ result'[c] = "timeout" /\ pc[a] = "collect" /\ Proceed(a, c)
      BY <1>3 DEF CollectTimeout, TypeOK
    <2>3. CASE state[c] = "queued"
      <3>1. /\ \A d \in Ids : d # c => state'[d] = state[d]
            /\ state'[c] = "cancelled" /\ UNCHANGED uncertain
        BY <1>3, <2>3 DEF CollectTimeout, TypeOK
      <3> QED
        BY <2>1, <2>2, <2>3, <3>1, CollectStep DEF Over
    <2>4. CASE state[c] = "running"
      <3>1. UNCHANGED state /\ Track(c)
        BY <1>3, <2>4 DEF CollectTimeout
      <3>2. tool[c].readOnly \/ c \in uncertain'
        BY <3>1 DEF Track
      <3>3. \A d \in Ids : d \in uncertain /\ state[d] \notin Over => d \in uncertain'
        BY <3>1 DEF Track, StillRunning
      <3> QED
        BY <2>1, <2>2, <2>4, <3>1, <3>2, <3>3, CollectStep
    <2> QED
      BY <1>3, <2>3, <2>4 DEF CollectTimeout
  <1> QED
    BY <1>1, <1>2, <1>3

LEMMA StutterStep ==
    ASSUME Inv, UNCHANGED vars
    PROVE  Inv'
  <1>1. /\ UNCHANGED <<issued, tool, owner, pc, wave, waveOf, error, result, uncertain>>
        /\ \A c \in Ids : state'[c] = state[c]
    BY DEF vars, batchVars, planVars
  <1>2. TypeOK'
    BY DEF Inv, TypeOK, vars, batchVars, planVars, fileVars
  <1> QED
    BY <1>1, <1>2, ThreadStep

(* The inductive invariant of the gateway holds throughout. *)
THEOREM Invariant == Spec => []Inv
  <1>1. Inv /\ [Next]_vars => Inv'
    <2> SUFFICES ASSUME Inv, [Next]_vars PROVE Inv'
      OBVIOUS
    <2>1. TypeOK'
      BY TypeStep DEF Inv
    <2>2. ASSUME NEW a \in Agents, Agent(a) PROVE Inv'
      BY <2>1, <2>2, PrepareStep, RecheckStep, SubmitStep, ResultStep DEF Agent
    <2>3. ASSUME NEW c \in Ids, Thread(c) \/ Expire(c) PROVE Inv'
      <3>1. /\ UNCHANGED <<issued, tool, owner, pc, wave, waveOf, error, result, uncertain>>
            /\ \A d \in Ids : \/ state'[d] = state[d]
                              \/ state[d] = "queued" /\ state'[d] = "running"
                              \/ state[d] = "running" /\ state'[d] = "done"
        <4>1. CASE Begin(c)
          BY <4>1 DEF Begin, Inv, TypeOK, batchVars, planVars
        <4>2. CASE Return(c)
          BY <4>2 DEF Return, Inv, TypeOK, batchVars, planVars
        <4>3. CASE Expire(c)
          BY <4>3 DEF Expire, batchVars, planVars
        <4>4. ASSUME NEW f \in Files, Read(c, f) \/ Write(c, f)
              PROVE  UNCHANGED <<issued, tool, owner, pc, wave, waveOf, error, result, uncertain, state>>
          BY <4>4 DEF Read, Write, batchVars, planVars
        <4> QED
          BY <2>3, <4>1, <4>2, <4>3, <4>4 DEF Thread
      <3> QED
        BY <2>1, <3>1, ThreadStep
    <2>4. CASE UNCHANGED vars
      BY <2>4, StutterStep
    <2> QED
      BY <2>1, <2>2, <2>3, <2>4, StartStep DEF Next
  <1> QED
    BY <1>1, InitInv, PTL DEF Spec

(* TypeOK holds for any agents, tools and files. *)
THEOREM TypeCorrect == Spec => []TypeOK
  BY Invariant, PTL DEF Inv

(* Of two handlers at work with conflicting claims the later one had its   *)
(* turn when the earlier one was settled: ended, or a reader nobody waits  *)
(* for any more (tools.py:405-445).                                        *)
THEOREM ConflictsNeverOverlap == Spec => []ConflictingCallsNeverOverlap
  <1>1. Inv => ConflictingCallsNeverOverlap
    <2> SUFFICES ASSUME Inv, NEW c \in Ids, NEW d \in Ids, c < d,
                        Handling(c), Handling(d), ClaimsConflict(Claims(c), Claims(d))
                 PROVE  Abandoned(c)
      BY ConflictIsSymmetric DEF ConflictingCallsNeverOverlap, Ids
    <2>1. c \in Settled
      BY DEF Inv, TurnInv, Handling
    <2> QED
      BY <2>1 DEF Settled, Handling, Over
  <1> QED
    BY <1>1, Invariant, PTL

-----------------------------------------------------------------------------
(* Waves implement calls run in call order *)

MayReads == [c \in Ids |-> MayRead(c)]
MayWrites == [c \in Ids |-> MayWrite(c)]
View == [c \in Ids |-> IF Abandoned(c) THEN [f \in Files |-> Unread] ELSE seen[c]]

(* Calls that keep their tools keep the files they may use. *)
LEMMA SameFiles ==
    ASSUME UNCHANGED tool
    PROVE  UNCHANGED <<MayReads, MayWrites>>
  BY DEF MayReads, MayWrites, MayRead, MayWrite, Claims

(* A call that only reads may write nothing. *)
LEMMA ReadersWriteNothing ==
    ASSUME TypeOK, NEW c \in Ids, tool[c].readOnly
    PROVE  MayWrite(c) = {}
  <1>1. \A a \in Claims(c) : a.mode = "read"
    <2>1. tool[c] \in Tools \/ tool[c] = NoTool
      BY DEF TypeOK
    <2>2. CASE tool[c] \in Tools
      BY <2>2, ToolParameters DEF Claims, Declared
    <2>3. CASE tool[c] = NoTool
      BY <2>3 DEF NoTool, Claims
    <2> QED
      BY <2>1, <2>2, <2>3
  <1> QED
    BY <1>1 DEF MayWrite

LEMMA OrderInit == Init => Order!Init
  <1> SUFFICES ASSUME Init PROVE Order!Init
    OBVIOUS
  <1>1. \A c \in Ids : Claims(c) = {}
    BY DEF Init, Claims, NoTool
  <1>2. MayReads = [c \in Ids |-> {}] /\ MayWrites = [c \in Ids |-> {}]
    BY <1>1 DEF MayReads, MayWrites, MayRead, MayWrite
  <1>3. Settled = {}
    BY DEF Init, Settled
  <1>4. View = [c \in Ids |-> [f \in Files |-> Unread]]
    BY DEF Init, View, Abandoned
  <1> QED
    BY <1>2, <1>3, <1>4 DEF Init, Order!Init, Order!Ids, Order!Unread, Order!Original, Ids,
                            MayReads, MayWrites, View

(* A step of one call that touches no file settles the call, or is not     *)
(* visible.                                                                *)
LEMMA QuietStep ==
    ASSUME TypeOK, TypeOK', NEW c \in Ids, c <= issued,
           UNCHANGED <<issued, tool, seen, wrote, content>>,
           \A d \in Ids : Abandoned(d)' <=> Abandoned(d),
           Settled \subseteq Settled', Settled' \subseteq Settled \cup {c}
    PROVE  [Order!Next]_Order!vars
  <1>1. UNCHANGED <<MayReads, MayWrites>>
    BY SameFiles
  <1>2. UNCHANGED View
    BY DEF View
  <1>3. CASE c \in Settled'
    <2>1. Settled' = Settled \cup {c}
      BY <1>3
    <2>2. Order!Settle(c)
      BY <1>1, <1>2, <2>1 DEF Order!Settle, MayReads, MayWrites, View
    <2> QED
      BY <2>2 DEF Order!Next, Order!Ids, Ids
  <1>4. CASE c \notin Settled'
    <2>1. Settled' = Settled
      BY <1>4
    <2> QED
      BY <1>1, <1>2, <2>1 DEF Order!vars, MayReads, MayWrites, View
  <1> QED
    BY <1>3, <1>4

(* The result of a call is given up on. *)
LEMMA AbandonStep ==
    ASSUME TypeOK, TypeOK', NEW c \in Ids, c <= issued,
           UNCHANGED <<issued, tool, seen, wrote, content>>, Abandoned(c)',
           \A d \in Ids : d # c => (Abandoned(d)' <=> Abandoned(d)),
           Settled \subseteq Settled', Settled' \subseteq Settled \cup {c}
    PROVE  [Order!Next]_Order!vars
  <1>1. UNCHANGED <<MayReads, MayWrites>>
    BY SameFiles
  <1>2. c \in Settled'
    BY DEF Settled, TypeOK, Ids
  <1>3. MayWrite(c) = {}
    BY ReadersWriteNothing DEF Abandoned
  <1>4. View' = [View EXCEPT ![c] = [f \in Files |-> Unread]]
    BY DEF View
  <1>5. Settled' = Settled \cup {c}
    BY <1>2
  <1>6. Order!Abandon(c)
    BY <1>1, <1>3, <1>4, <1>5 DEF Order!Abandon, Order!Unread, MayReads, MayWrites, View
  <1> QED
    BY <1>6 DEF Order!Next, Order!Ids, Ids

LEMMA StartOrder ==
    ASSUME Inv, TypeOK', NEW a \in Agents, NEW b \in Batches, StartBatch(a, b)
    PROVE  [Order!Next]_Order!vars
  <1> USE DEF Inv, fileVars
  <1> DEFINE new == issued + 1 .. issued + Len(b)
             n == issued + Len(b)
  <1>1. /\ new # {} /\ new \subseteq Ids /\ issued' = n /\ UNCHANGED <<seen, wrote, content>>
        /\ \A c \in Ids \ new : /\ tool'[c] = tool[c] /\ state'[c] = state[c]
                                /\ error'[c] = error[c] /\ result'[c] = result[c]
        /\ \A c \in new : result'[c] \in {result[c], "denied"}
    BY DEF StartBatch
  <1>2. Len(b) \in Nat /\ issued \in Nat
    BY ToolParameters DEF TypeOK
  <1>3. n \in Ids /\ n \in issued + 1 .. MaxCalls
    <2>1. n \in new
      BY <1>1, <1>2
    <2> QED
      BY <1>1, <1>2, <2>1 DEF Ids
  <1>4. \A c \in new : state[c] = "none" /\ result[c] = "none"
    BY <1>1, <1>2 DEF FreshInv
  <1>5. /\ MayReads' \in [Ids -> SUBSET Files] /\ MayWrites' \in [Ids -> SUBSET Files]
        /\ \A c \in Ids \ new : MayReads'[c] = MayReads[c] /\ MayWrites'[c] = MayWrites[c]
    BY <1>1 DEF MayReads, MayWrites, MayRead, MayWrite, Claims
  <1>6. \A c \in Ids : Abandoned(c)' <=> Abandoned(c)
    BY <1>1, <1>4 DEF Abandoned
  <1>7. UNCHANGED View
    BY <1>1, <1>6 DEF View
  <1>8. \A c \in Ids : c <= issued => c \notin new
    BY <1>2 DEF Ids
  <1>9. Settled \subseteq Settled'
    <2>1. issued <= issued'
      BY <1>1, <1>2
    <2> QED
      BY <1>1, <1>8, <2>1, SettledGrows
  <1>10. Settled' \subseteq Settled \cup new
    <2> SUFFICES ASSUME NEW c \in Settled', c \notin new PROVE c \in Settled
      OBVIOUS
    <2>1. c \in 1 .. n /\ (state'[c] \in Over \/ error'[c] # "none" \/ Abandoned(c)')
      BY <1>1 DEF Settled
    <2>2. c \in Ids /\ c \in 1 .. issued
      BY <1>2, <1>3, <2>1, ToolParameters DEF Ids
    <2> QED
      BY <1>1, <1>6, <2>1, <2>2 DEF Settled
  <1>11. Order!Issue(n)
    BY <1>1, <1>3, <1>5, <1>7, <1>9, <1>10
       DEF Order!Issue, Order!Ids, Ids, MayReads, MayWrites, View
  <1> QED
    BY <1>3, <1>11 DEF Order!Next, Order!Ids, Ids

(* A handler at work whose call is not given up on has its turn. *)
LEMMA HandlerMayTouch ==
    ASSUME Inv, NEW c \in Ids, Handling(c), ~Abandoned(c)
    PROVE  Order!MayTouch(c)
  <1> USE DEF Inv
  <1>1. c <= issued
    BY DEF FreshInv, Handling, TypeOK, Ids
  <1>2. c \notin Settled
    BY DEF Settled, Handling, Over
  <1>3. ASSUME NEW d \in Ids, d < c, Order!Clash(d, c)
        PROVE  d \in Settled
    <2>1. ClaimsConflict(Claims(d), Claims(c))
      BY <1>3, ClashIsConflict DEF Inv
    <2> QED
      BY <1>3, <2>1 DEF TurnInv, Handling
  <1> QED
    BY <1>1, <1>2, <1>3 DEF Order!MayTouch, Order!Ids, Ids

LEMMA ReadOrder ==
    ASSUME Inv, TypeOK', NEW c \in Ids, NEW f \in Files, Read(c, f)
    PROVE  [Order!Next]_Order!vars
  <1> USE DEF batchVars, planVars
  <1>1. /\ UNCHANGED <<issued, tool, state, error, result, wrote, content>>
        /\ Handling(c) /\ f \in MayRead(c) \ wrote[c]
        /\ seen' = [seen EXCEPT ![c][f] = content[f]]
    BY DEF Read
  <1>2. UNCHANGED <<MayReads, MayWrites>>
    BY <1>1, SameFiles
  <1>3. \A d \in Ids : Abandoned(d)' <=> Abandoned(d)
    BY <1>1 DEF Abandoned
  <1>4. UNCHANGED Settled
    BY <1>1 DEF Settled, Abandoned
  <1>5. /\ \A d \in Ids : d # c => seen'[d] = seen[d]
        /\ seen'[c] = [seen[c] EXCEPT ![f] = content[f]]
    BY <1>1 DEF Inv, TypeOK
  <1>6. CASE Abandoned(c)
    <2>1. UNCHANGED View
      BY <1>3, <1>5, <1>6 DEF View
    <2> QED
      BY <1>1, <1>2, <1>4, <2>1 DEF Order!vars, MayReads, MayWrites, View
  <1>7. CASE ~Abandoned(c)
    <2>1. Order!MayTouch(c)
      BY <1>1, <1>7, HandlerMayTouch
    <2>2. View' = [View EXCEPT ![c][f] = content[f]]
      BY <1>3, <1>5, <1>7 DEF View
    <2>3. f \in MayReads[c] \ wrote[c]
      BY <1>1 DEF MayReads
    <2>4. Order!Read(c, f)
      BY <1>1, <1>2, <1>4, <2>1, <2>2, <2>3 DEF Order!Read, MayReads, MayWrites, View
    <2> QED
      BY <2>4 DEF Order!Next, Order!Ids, Ids
  <1> QED
    BY <1>6, <1>7

LEMMA WriteOrder ==
    ASSUME Inv, TypeOK', NEW c \in Ids, NEW f \in Files, Write(c, f)
    PROVE  [Order!Next]_Order!vars
  <1> USE DEF batchVars, planVars
  <1>1. /\ UNCHANGED <<issued, tool, state, error, result, seen>>
        /\ Handling(c) /\ f \in MayWrite(c)
        /\ wrote' = [wrote EXCEPT ![c] = @ \cup {f}]
        /\ content' = [content EXCEPT ![f] = c]
    BY DEF Write
  <1>2. UNCHANGED <<MayReads, MayWrites>>
    BY <1>1, SameFiles
  <1>3. UNCHANGED <<Settled, View>>
    BY <1>1 DEF Settled, View, Abandoned
  <1>4. ~Abandoned(c)
    BY <1>1, ReadersWriteNothing DEF Abandoned, Inv
  <1>5. Order!MayTouch(c)
    BY <1>1, <1>4, HandlerMayTouch
  <1>6. f \in MayWrites[c]
    BY <1>1 DEF MayWrites
  <1>7. Order!Write(c, f)
    BY <1>1, <1>2, <1>3, <1>5, <1>6 DEF Order!Write, MayReads, MayWrites, View
  <1> QED
    BY <1>7 DEF Order!Next, Order!Ids, Ids

(* All other steps concern one call, and no file. *)
LEMMA OneCall ==
    ASSUME Inv, TypeOK', NEW c \in Ids, state[c] # "none",
           UNCHANGED <<issued, tool, seen, wrote, content>>,
           \A d \in Ids : d # c => /\ state'[d] = state[d] /\ error'[d] = error[d]
                                   /\ result'[d] = result[d],
           state[c] \in Over => state'[c] \in Over,
           error[c] # "none" => error'[c] # "none",
           result[c] = "timeout" => result'[c] = "timeout"
    PROVE  [Order!Next]_Order!vars
  <1> USE DEF Inv
  <1>1. c <= issued
    BY DEF FreshInv, TypeOK, Ids
  <1>2. \A d \in Ids : d # c => (Abandoned(d)' <=> Abandoned(d))
    BY DEF Abandoned
  <1>3. Settled \subseteq Settled'
    BY SettledGrows DEF TypeOK
  <1>4. Settled' \subseteq Settled \cup {c}
    <2> SUFFICES ASSUME NEW d \in Settled', d # c PROVE d \in Settled
      OBVIOUS
    <2>1. d \in 1 .. issued /\ (state'[d] \in Over \/ error'[d] # "none" \/ Abandoned(d)')
      BY DEF Settled
    <2>2. d \in Ids
      BY <2>1, ToolParameters DEF TypeOK, Ids
    <2> QED
      BY <1>2, <2>1, <2>2 DEF Settled
  <1>5. CASE Abandoned(c)'
    BY <1>1, <1>2, <1>3, <1>4, <1>5, AbandonStep
  <1>6. CASE ~Abandoned(c)'
    <2>1. \A d \in Ids : Abandoned(d)' <=> Abandoned(d)
      BY <1>2, <1>6 DEF Abandoned
    <2> QED
      BY <1>1, <1>3, <1>4, <2>1, QuietStep
  <1> QED
    BY <1>5, <1>6

LEMMA OtherOrder ==
    ASSUME Inv, TypeOK', NEW a \in Agents, NEW c \in Ids,
           \/ Prepare(a, c) \/ Recheck(a, c) \/ Refuse(a, c)
           \/ CollectAnswer(a, c) \/ CollectTimeout(a, c)
           \/ Begin(c) \/ Return(c) \/ Expire(c)
    PROVE  [Order!Next]_Order!vars
  <1> USE DEF Inv, batchVars, planVars, fileVars
  <1>1. CASE Prepare(a, c)
    <2>1. state[c] = "new" /\ error[c] = "none"
      BY <1>1 DEF Prepare, First, InState, FreshInv
    <2>2. /\ UNCHANGED <<issued, tool, seen, wrote, content, result>>
          /\ \A d \in Ids : d # c => state'[d] = state[d] /\ error'[d] = error[d]
      BY <1>1 DEF Prepare, Place, TypeOK
    <2> QED
      BY <2>1, <2>2, OneCall DEF Over
  <1>2. CASE Recheck(a, c)
    <2>1. state[c] = "ready"
      BY <1>2 DEF Recheck, First, Pending, InState
    <2>2. /\ UNCHANGED <<issued, tool, seen, wrote, content, result>>
          /\ \A d \in Ids : d # c => state'[d] = state[d] /\ error'[d] = error[d]
          /\ error'[c] \in {error[c], "conflict"}
      BY <1>2 DEF Recheck, TypeOK
    <2> QED
      BY <2>1, <2>2, OneCall DEF Over
  <1>3. CASE Refuse(a, c) \/ CollectAnswer(a, c) \/ CollectTimeout(a, c)
    <2>1. /\ UNCHANGED <<issued, tool, seen, wrote, content, error>>
          /\ \A d \in Ids : d # c => result'[d] = result[d]
      <3>1. CASE Refuse(a, c)
        BY <3>1 DEF Refuse, Proceed, TypeOK
      <3>2. CASE CollectAnswer(a, c)
        BY <3>2 DEF CollectAnswer, Proceed, TypeOK
      <3>3. CASE CollectTimeout(a, c)
        BY <3>3 DEF CollectTimeout, Proceed, TypeOK
      <3> QED
        BY <1>3, <3>1, <3>2, <3>3
    <2>2. c \in Mine(a)
      BY <1>3 DEF Refuse, Group, CollectAnswer, CollectTimeout, First, InFlight, Pending, InState
    <2>3. result[c] = "none" /\ state[c] # "none"
      BY <2>2 DEF Mine
    <2>4. /\ \A d \in Ids : d # c => state'[d] = state[d]
          /\ state'[c] \in Over \cup {state[c]}
      <3>1. CASE Refuse(a, c)
        BY <3>1 DEF Refuse, TypeOK, Over
      <3>2. CASE CollectAnswer(a, c)
        BY <3>2 DEF CollectAnswer
      <3>3. CASE CollectTimeout(a, c)
        BY <3>3 DEF CollectTimeout, TypeOK, Over
      <3> QED
        BY <1>3, <3>1, <3>2, <3>3
    <2> QED
      BY <2>1, <2>3, <2>4, OneCall
  <1>4. CASE Begin(c) \/ Return(c)
    <2>1. /\ UNCHANGED <<issued, tool, seen, wrote, content, error, result>>
          /\ state[c] \in {"queued", "running"}
          /\ \A d \in Ids : d # c => state'[d] = state[d]
      <3>1. CASE Begin(c)
        BY <3>1 DEF Begin, TypeOK
      <3>2. CASE Return(c)
        BY <3>2 DEF Return, TypeOK
      <3> QED
        BY <1>4, <3>1, <3>2
    <2> QED
      BY <2>1, OneCall DEF Over
  <1>5. CASE Expire(c)
    <2>1. /\ UNCHANGED <<issued, tool, seen, wrote, content, state, error, result>>
          /\ state[c] # "none"
      BY <1>5 DEF Expire
    <2> QED
      BY <2>1, OneCall
  <1> QED
    BY <1>1, <1>2, <1>3, <1>4, <1>5

LEMMA SubmitOrder ==
    ASSUME TypeOK, NEW a \in Agents, Submit(a)
    PROVE  UNCHANGED Order!vars
  <1>1. \A c \in Ids : state'[c] \in Over <=> state[c] \in Over
    BY DEF Submit, Group, Pending, InState, TypeOK, Over
  <1>2. UNCHANGED <<issued, tool, error, result, seen, wrote, content>>
    BY DEF Submit, batchVars, fileVars
  <1>3. UNCHANGED <<MayReads, MayWrites>>
    BY <1>2, SameFiles
  <1>4. \A c \in Ids : Abandoned(c)' <=> Abandoned(c)
    BY <1>2 DEF Abandoned
  <1>5. UNCHANGED View
    BY <1>2, <1>4 DEF View
  <1>6. 1 .. issued \subseteq Ids
    BY ToolParameters DEF TypeOK, Ids
  <1>7. UNCHANGED Settled
    BY <1>1, <1>2, <1>4, <1>6 DEF Settled
  <1> QED
    BY <1>2, <1>3, <1>5, <1>7 DEF Order!vars, MayReads, MayWrites, View

LEMMA OrderStep == Inv /\ TypeOK' /\ [Next]_vars => [Order!Next]_Order!vars
  <1> SUFFICES ASSUME Inv, TypeOK', [Next]_vars PROVE [Order!Next]_Order!vars
    OBVIOUS
  <1>1. PICK a \in Agents : TRUE
    BY ToolParameters
  <1>2. ASSUME NEW c \in Ids, Thread(c) \/ Expire(c) PROVE [Order!Next]_Order!vars
    <2>1. CASE \E f \in Files : Read(c, f) \/ Write(c, f)
      BY <2>1, ReadOrder, WriteOrder
    <2>2. CASE Begin(c) \/ Return(c) \/ Expire(c)
      BY <1>1, <2>2, OtherOrder
    <2> QED
      BY <1>2, <2>1, <2>2 DEF Thread
  <1>3. ASSUME NEW b \in Agents, Agent(b) PROVE [Order!Next]_Order!vars
    <2>1. CASE Submit(b)
      BY <2>1, SubmitOrder DEF Inv
    <2>2. CASE ~Submit(b)
      BY <1>3, <2>2, OtherOrder DEF Agent
    <2> QED
      BY <2>1, <2>2
  <1>4. CASE UNCHANGED vars
    <2>1. UNCHANGED <<issued, tool, state, error, result, seen, wrote, content>>
      BY <1>4 DEF vars, batchVars, fileVars
    <2>2. UNCHANGED <<MayReads, MayWrites>>
      BY <2>1, SameFiles
    <2>3. UNCHANGED <<Settled, View>>
      BY <2>1 DEF Settled, View, Abandoned
    <2> QED
      BY <2>1, <2>2, <2>3 DEF Order!vars, MayReads, MayWrites, View
  <1> QED
    BY <1>2, <1>3, <1>4, StartOrder DEF Next

(* The gateway, with its waves, rechecks and isolated calls, implements    *)
(* calls that run in call order, for any agents, tools and files.          *)
THEOREM WavesImplementCallOrder == Spec => ImplementsCallOrder
  <1>1. Inv => TypeOK
    BY DEF Inv
  <1> QED
    BY <1>1, OrderStep, OrderInit, Invariant, PTL DEF Spec, ImplementsCallOrder, Order!Spec

(* What holds of calls in call order holds of the gateway. *)
InOrder == INSTANCE CallOrderProofs WITH
    reads <- [c \in Ids |-> MayRead(c)],
    writes <- [c \in Ids |-> MayWrite(c)],
    settled <- Settled,
    seen <- [c \in Ids |-> IF Abandoned(c) THEN [f \in Files |-> Unread] ELSE seen[c]]

LEMMA SameOrder == ImplementsCallOrder <=> InOrder!Spec
  <1>1. Order!Init <=> InOrder!Init
    BY DEF Order!Init, InOrder!Init, Order!Ids, InOrder!Ids, Order!Unread, InOrder!Unread,
           Order!Original, InOrder!Original
  <1>2. Order!vars = InOrder!vars
    BY DEF Order!vars, InOrder!vars
  <1>3. Order!Next <=> InOrder!Next
    BY DEF Order!Next, InOrder!Next, Order!Ids, InOrder!Ids, Order!Unread, InOrder!Unread,
           Order!Original, InOrder!Original, Order!Issue, InOrder!Issue, Order!Read, InOrder!Read,
           Order!Write, InOrder!Write, Order!Settle, InOrder!Settle,
           Order!Abandon, InOrder!Abandon, Order!MayTouch, InOrder!MayTouch,
           Order!Clash, InOrder!Clash
  <1>4. [Order!Next]_Order!vars <=> [InOrder!Next]_InOrder!vars
    BY <1>3 DEF Order!vars, InOrder!vars
  <1> QED
    BY <1>1, <1>4, PTL DEF ImplementsCallOrder, Order!Spec, InOrder!Spec

(* No call has read anything else than what the calls before it left in    *)
(* the file (tools.py:174-181).                                            *)
THEOREM ReadsInOrder == Spec => []ReadsSeeCallOrder
  <1>1. InOrder!Spec => []InOrder!ReadsSeeCallOrder
    BY InOrder!ReadsInOrder, ToolParameters
  <1>2. InOrder!ReadsSeeCallOrder <=> ReadsSeeCallOrder
    BY DEF ReadsSeeCallOrder, Order!ReadsSeeCallOrder, InOrder!ReadsSeeCallOrder,
           Order!VersionBefore, InOrder!VersionBefore, Order!Ids, InOrder!Ids,
           Order!Unread, InOrder!Unread, Order!Original, InOrder!Original
  <1> QED
    BY <1>1, <1>2, SameOrder, WavesImplementCallOrder, PTL

(* Every file holds what the last of its writers in call order wrote, even *)
(* while calls that timed out go on (tools.py:174-181).                    *)
THEOREM WritesInOrder == Spec => []WritesInCallOrder
  <1>1. InOrder!Spec => []InOrder!WritesInCallOrder
    BY InOrder!WritesInOrder, ToolParameters
  <1>2. InOrder!WritesInCallOrder <=> WritesInCallOrder
    BY DEF WritesInCallOrder, Order!WritesInCallOrder, InOrder!WritesInCallOrder,
           Order!VersionBefore, InOrder!VersionBefore, Order!Ids, InOrder!Ids,
           Order!Original, InOrder!Original
  <1> QED
    BY <1>1, <1>2, SameOrder, WavesImplementCallOrder, PTL

(* Reads and writes are those of the calls run one after another.          *)
THEOREM CallsInOrder == Spec => []InCallOrder
  BY ReadsInOrder, WritesInOrder, PTL DEF InCallOrder

=============================================================================
