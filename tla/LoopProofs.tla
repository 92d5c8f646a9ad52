------------------------------ MODULE LoopProofs ------------------------------
(***************************************************************************)
(* The agent loop and the budget of a run, for every value of their        *)
(* constants: what is answered, sent, stopped, cancelled and diagnosed     *)
(* (AgentLoop), how far agents that share a budget may overrun it, and     *)
(* that the trace tells what they were charged (RunAccounting).            *)
(***************************************************************************)
EXTENDS AgentLoop, RunAccounting, DataLemmas

-----------------------------------------------------------------------------
(* The inductive invariant *)

Roles == {"system", "user", "assistant", "tool"}
LoopMessages == [role : Roles, ids : Seq(Nat)]
Outcomes == {"none", "succeeded", "cancelled", "stagnation", "token_budget",
             "max_iterations", "context", "error", "run_budget"}

\* What a read or an edit of a batch may return
Returns == Views \cup {"written", "failed"}

Signatures ==
    [kind : {"completion"}, entries : {"blank", "answer"} \X {"empty", "diagnostics", "none"}]
    \cup [kind : {"tools"}, entries : UNION {[E -> Nat] : E \in SUBSET (Tools \X Returns)}]

Budgets == [iteration : 0..MaxIterations, tokens : Nat, window : Seq(Signatures)]
Spendings == [tools : 0..MaxToolCalls, tokens : Nat]
LoopCalls == [tool : Tools, id : Nat]
Counts == [attempts : Nat, batches : Nat]

LoopTypeInv ==
    /\ history \in Seq(LoopMessages)
    /\ nextId \in Nat \ {0} /\ prompts \in Nat /\ turns \in Nat
    /\ pc \in Places /\ outcome \in Outcomes
    /\ cancelled \in BOOLEAN /\ late \in BOOLEAN
    /\ budget \in Budgets
    /\ spent \in Spendings
    /\ purpose \in {"turn", "summary"} /\ attempt \in 0..MaxAttempts
    /\ batch \in Seq(LoopCalls)
    /\ report \in SUBSET Paths /\ wrong \in SUBSET Paths
    /\ streak \in Nat
    /\ since \in Counts

\* What the place in the loop says of the other variables
LoopPlaceInv ==
    /\ pc # "idle" => outcome = "none"
    /\ pc = "call" => attempt < MaxAttempts
    /\ pc \in {"tools", "run", "asks"} <=> batch # <<>>
    /\ pc \notin {"call", "wait"} => purpose = "turn"
    /\ pc \notin {"call", "wait"} \/ purpose = "summary" => sent = <<>>

\* The window ends with the streak, and the round before it was another one.
Streaks(w, k) ==
    /\ Len(w) <= Window /\ k <= Len(w)
    /\ w # <<>> => k >= 1
    /\ \A i \in 1..Len(w) : i > Len(w) - k => w[i] = w[Len(w)]
    /\ k < Len(w) => w[Len(w) - k] # w[Len(w)]

StreakInv ==
    /\ Streaks(budget.window, streak)
    /\ pc \notin {"idle", "top"} => streak < Window
    /\ outcome = "stagnation" => streak = Window

\* Where a cancelled run is, and what it may have begun since
CancelInv ==
    cancelled =>
        /\ outcome # "succeeded"
        /\ since.batches <= IF pc = "tools" THEN 0 ELSE 1
        /\ since.attempts <= 2 * MaxAttempts
        /\ since.attempts = 0 \/ since.batches = 0
        /\ pc = "prepare" =>
            /\ since.batches = 0 /\ since.attempts <= MaxAttempts
            /\ since.attempts > 0 => SplitIndex(history) \in summaries
        /\ pc \in {"call", "wait"} =>
            /\ since.batches = 0
            /\ since.attempts <= IF purpose = "summary" THEN attempt ELSE MaxAttempts + attempt
        /\ pc \in {"tools", "run", "asks"} => since.attempts = 0

\* The completion gate knows of every file whose last change was found wrong.
ReportInv ==
    /\ wrong \subseteq report
    /\ outcome = "succeeded" => report = {}

\* A message carries ids when it makes calls or is the result of one.
Carries(m) ==
    /\ m.role \in {"system", "user"} => m.ids = <<>>
    /\ m.role = "tool" => Len(m.ids) = 1

\* A call comes after all ids before it, and a result after the earlier results.
Orders(h) ==
    \A i, j \in DOMAIN h :
        i < j /\ (h[j].role = "assistant" \/ (h[i].role = "tool" /\ h[j].role = "tool")) =>
            \A x \in Ids(h[i]), y \in Ids(h[j]) : x < y

\* Between a call and its result stand results, and a diagnosis if it is split.
Encloses(h, parted) ==
    \A i, j, k \in DOMAIN h :
        i < k /\ k < j /\ h[i].role = "assistant" /\ h[j].role = "tool" =>
            \A x \in Ids(h[i]) \cap Ids(h[j]) :
                h[k].role = "tool" \/ (h[k].role = "system" /\ x \in parted)

Protocol(h, n, parted) ==
    /\ Len(h) >= 1 /\ h[1].role = "system"
    /\ \A i \in DOMAIN h : Carries(h[i]) /\ Ids(h[i]) \subseteq 1..n
    /\ Orders(h) /\ Encloses(h, parted)

MessageInv ==
    /\ Protocol(history, nextId - 1, split)
    /\ torn \subseteq 1..(nextId - 1) /\ split \subseteq 1..(nextId - 1)

\* The calls without a result, and no result without a call
Unanswered(h, ids) == Called(h) \ Answered(h) = ids /\ Answered(h) \subseteq Called(h)

\* The batch at work is what the last message asked for.
OpenInv ==
    /\ Unanswered(history, torn \cup BatchIds)
    /\ torn \cap BatchIds = {}
    /\ batch # <<>> => /\ history[Len(history)].role = "assistant"
                       /\ Ids(history[Len(history)]) = BatchIds
    /\ \A i, j \in DOMAIN batch : i < j => batch[i].id < batch[j].id

LoopInv ==
    /\ LoopTypeInv /\ LoopPlaceInv /\ StreakInv /\ CancelInv /\ ReportInv
    /\ MessageInv /\ OpenInv /\ SentPairs

-----------------------------------------------------------------------------
(* What the messages of a batch's results are *)

Result(i) == Msg("tool", <<batch[i].id>>)

\* Calls of the batch behind whose result stand diagnostics messages
Speaking(told) == {i \in DOMAIN batch : Spoken(told, i) # {}}

\* The observations of the first n calls of the batch
Observed(obs, n, looked) ==
    /\ obs \in Seq(LoopMessages)
    /\ \A p \in DOMAIN obs :
        \/ obs[p] = System /\ \E k \in looked : k <= n
        \/ \E i \in 1..n : obs[p] = Result(i)
    /\ \A i \in 1..n : \E p \in DOMAIN obs : obs[p] = Result(i)
    /\ \A p, q \in DOMAIN obs : \A i, j \in 1..n :
        p < q /\ obs[p] = Result(i) /\ obs[q] = Result(j) => i < j
    /\ \A p, q \in DOMAIN obs : \A j \in 1..n :
        p < q /\ obs[p] = System /\ obs[q] = Result(j) => \E k \in looked : k < j

After(i, told) == [k \in 1..Cardinality(Spoken(told, i)) |-> System]

LEMMA ResultMessage ==
    ASSUME batch \in Seq(LoopCalls), NEW i \in DOMAIN batch
    PROVE  /\ Result(i) \in LoopMessages /\ Result(i) # System
           /\ Result(i).role = "tool" /\ Result(i).ids = <<batch[i].id>>
           /\ Ids(Result(i)) = {batch[i].id} /\ batch[i].id \in Nat
<1>1. batch[i] \in LoopCalls
    BY SeqElement
<1>2. batch[i].id \in Nat
    BY <1>1 DEF LoopCalls
<1>3. <<batch[i].id>> \in Seq(Nat)
    BY <1>2
<1> QED BY <1>2, <1>3 DEF Result, Msg, LoopMessages, System, Ids, Roles

LEMMA SystemMessage ==
    System \in LoopMessages /\ System.role = "system" /\ System.ids = <<>> /\ Ids(System) = {}
BY DEF System, Msg, LoopMessages, Ids, Roles

LEMMA ObservedStep ==
    ASSUME batch \in Seq(LoopCalls), NEW looked \in SUBSET DOMAIN batch,
           NEW n \in Nat, n < Len(batch), NEW obs,
           Observed(obs, n, looked),
           \A i, j \in DOMAIN batch : i < j => batch[i].id < batch[j].id
    PROVE  Observed(Append(obs, Result(n + 1)), n + 1, looked)
<1> DEFINE one == Append(obs, Result(n + 1))
           last == Len(obs) + 1
<1>1. n + 1 \in DOMAIN batch /\ Result(n + 1) \in LoopMessages /\ DOMAIN batch = 1..Len(batch)
    BY ResultMessage
<1>2. /\ one \in Seq(LoopMessages) /\ DOMAIN one = 1..last
      /\ \A p \in DOMAIN obs : one[p] = obs[p]
      /\ one[last] = Result(n + 1)
      /\ DOMAIN obs = 1..Len(obs) /\ Len(obs) \in Nat
    BY <1>1 DEF Observed
<1>3. \A i, j \in 1..(n + 1) : Result(i) = Result(j) => i = j
  <2> TAKE i, j \in 1..(n + 1)
  <2>1. i \in DOMAIN batch /\ j \in DOMAIN batch
      BY <1>1
  <2>2. /\ Ids(Result(i)) = {batch[i].id} /\ Ids(Result(j)) = {batch[j].id}
        /\ batch[i].id \in Nat /\ batch[j].id \in Nat
      BY <2>1, ResultMessage
  <2>3. ASSUME Result(i) = Result(j) PROVE batch[i].id = batch[j].id
    <3>1. Ids(Result(i)) = Ids(Result(j))
        BY <2>3
    <3>2. batch[i].id \in {batch[j].id}
        BY <2>2, <3>1
    <3> QED BY <3>2
  <2>4. i \in Nat /\ j \in Nat
      OBVIOUS
  <2>5. i < j => batch[i].id < batch[j].id
      BY <2>1
  <2>6. j < i => batch[j].id < batch[i].id
      BY <2>1
  <2> QED BY <2>2, <2>3, <2>4, <2>5, <2>6
<1>4. ASSUME NEW i \in 1..(n + 1) PROVE Result(i) # System
  <2>1. i \in DOMAIN batch
      BY <1>1
  <2> QED BY <2>1, ResultMessage
<1>5. \A k \in looked : k \in Nat
    BY <1>1
<1> HIDE DEF one
<1>6. ASSUME NEW p \in DOMAIN one
      PROVE  \/ one[p] = System /\ \E k \in looked : k <= n + 1
             \/ \E i \in 1..(n + 1) : one[p] = Result(i)
  <2>1. CASE p = last
      BY <1>2, <2>1
  <2>2. CASE p \in DOMAIN obs
    <3>1. CASE obs[p] = System /\ \E k \in looked : k <= n
        BY <1>2, <1>5, <2>2, <3>1
    <3>2. CASE \E i \in 1..n : obs[p] = Result(i)
        BY <1>2, <2>2, <3>2
    <3> QED BY <2>2, <3>1, <3>2 DEF Observed
  <2> QED BY <1>2, <2>1, <2>2
<1>7. ASSUME NEW i \in 1..(n + 1) PROVE \E p \in DOMAIN one : one[p] = Result(i)
  <2>1. CASE i = n + 1
      BY <1>2, <2>1
  <2>2. CASE i \in 1..n
    <3>1. PICK p \in DOMAIN obs : obs[p] = Result(i)
        BY <2>2 DEF Observed
    <3> QED BY <1>2, <3>1
  <2> QED BY <2>1, <2>2
\* The place of an earlier result
<1>8. ASSUME NEW p \in DOMAIN obs, NEW i \in 1..(n + 1), one[p] = Result(i)
      PROVE  i \in 1..n /\ obs[p] = Result(i)
  <2>1. PICK k \in 1..n : obs[p] = Result(k)
      BY <1>2, <1>4, <1>8 DEF Observed
  <2>2. i = k
      BY <1>2, <1>3, <1>8, <2>1
  <2> QED BY <2>1, <2>2
<1>9. ASSUME NEW p \in DOMAIN one, NEW q \in DOMAIN one, NEW i \in 1..(n + 1),
             NEW j \in 1..(n + 1), p < q, one[p] = Result(i), one[q] = Result(j)
      PROVE  i < j
  <2>1. p \in DOMAIN obs
      BY <1>2, <1>9
  <2>2. i \in 1..n /\ obs[p] = Result(i)
      BY <1>8, <1>9, <2>1
  <2>3. CASE q = last
    <3>1. j = n + 1
        BY <1>2, <1>3, <1>9, <2>3
    <3> QED BY <2>2, <3>1
  <2>4. CASE q \in DOMAIN obs
    <3>1. j \in 1..n /\ obs[q] = Result(j)
        BY <1>8, <1>9, <2>4
    <3> QED BY <1>9, <2>1, <2>2, <2>4, <3>1 DEF Observed
  <2> QED BY <1>2, <2>3, <2>4
<1>10. ASSUME NEW p \in DOMAIN one, NEW q \in DOMAIN one, NEW j \in 1..(n + 1),
              p < q, one[p] = System, one[q] = Result(j)
       PROVE  \E k \in looked : k < j
  <2>1. p \in DOMAIN obs /\ obs[p] = System
      BY <1>2, <1>10
  <2>2. CASE q = last
    <3>1. j = n + 1
        BY <1>2, <1>3, <1>10, <2>2
    <3>2. \E k \in looked : k <= n
      <4>1. ASSUME NEW i \in 1..n PROVE obs[p] # Result(i)
          BY <1>4, <2>1, <4>1
      <4> QED BY <2>1, <4>1 DEF Observed
    <3> QED BY <1>5, <3>1, <3>2
  <2>3. CASE q \in DOMAIN obs
    <3>1. j \in 1..n /\ obs[q] = Result(j)
        BY <1>8, <1>10, <2>3
    <3> QED BY <1>10, <2>1, <2>3, <3>1 DEF Observed
  <2>4. q = last \/ q \in DOMAIN obs
      BY <1>2
  <2> QED BY <2>2, <2>3, <2>4
<1>11. Observed(one, n + 1, looked)
    BY <1>2, <1>6, <1>7, <1>9, <1>10 DEF Observed
<1> QED BY <1>11 DEF one

\* A diagnosis behind the results so far
LEMMA DiagnosedStep ==
    ASSUME batch \in Seq(LoopCalls), NEW looked \in SUBSET DOMAIN batch,
           NEW n \in looked, n <= Len(batch), NEW obs,
           Observed(obs, n, looked)
    PROVE  Observed(Append(obs, System), n, looked)
<1> DEFINE one == Append(obs, System)
           last == Len(obs) + 1
<1>1. DOMAIN batch = 1..Len(batch) /\ n \in Nat /\ n <= n
    BY SeqElement
<1>2. /\ one \in Seq(LoopMessages) /\ DOMAIN one = 1..last
      /\ \A p \in DOMAIN obs : one[p] = obs[p]
      /\ one[last] = System
      /\ DOMAIN obs = 1..Len(obs) /\ Len(obs) \in Nat
    BY SystemMessage DEF Observed
<1>3. \A i \in 1..n : Result(i) # System
    BY <1>1, ResultMessage
<1> HIDE DEF one
<1>4. ASSUME NEW p \in DOMAIN one
      PROVE  \/ one[p] = System /\ \E k \in looked : k <= n
             \/ \E i \in 1..n : one[p] = Result(i)
  <2>1. CASE p = last
      BY <1>1, <1>2, <2>1
  <2>2. CASE p \in DOMAIN obs
    <3>1. one[p] = obs[p]
        BY <1>2, <2>2
    <3> QED BY <2>2, <3>1 DEF Observed
  <2> QED BY <1>2, <2>1, <2>2
<1>5. ASSUME NEW i \in 1..n PROVE \E p \in DOMAIN one : one[p] = Result(i)
  <2>1. PICK p \in DOMAIN obs : obs[p] = Result(i)
      BY DEF Observed
  <2> QED BY <1>2, <2>1
<1>6. ASSUME NEW p \in DOMAIN one, NEW i \in 1..n, one[p] = Result(i)
      PROVE  p \in DOMAIN obs /\ obs[p] = Result(i)
    BY <1>2, <1>3, <1>6
<1>7. ASSUME NEW p \in DOMAIN one, NEW q \in DOMAIN one, NEW i \in 1..n,
             NEW j \in 1..n, p < q, one[p] = Result(i), one[q] = Result(j)
      PROVE  i < j
  <2>1. /\ p \in DOMAIN obs /\ obs[p] = Result(i)
        /\ q \in DOMAIN obs /\ obs[q] = Result(j)
      BY <1>6, <1>7
  <2> QED BY <1>7, <2>1 DEF Observed
<1>8. ASSUME NEW p \in DOMAIN one, NEW q \in DOMAIN one, NEW j \in 1..n,
             p < q, one[p] = System, one[q] = Result(j)
      PROVE  \E k \in looked : k < j
  <2>1. q \in DOMAIN obs /\ obs[q] = Result(j)
      BY <1>6, <1>8
  <2>2. p \in DOMAIN obs /\ obs[p] = System
      BY <1>2, <1>8, <2>1
  <2>3. \A a, b \in DOMAIN obs : \A c \in 1..n :
            a < b /\ obs[a] = System /\ obs[b] = Result(c) => \E k \in looked : k < c
      BY DEF Observed
  <2>4. \A k \in looked : k \in Nat
      BY <1>1
  <2> QED BY <1>8, <2>1, <2>2, <2>3, <2>4
<1>9. Observed(one, n, looked)
    BY <1>2, <1>4, <1>5, <1>7, <1>8 DEF Observed
<1> QED BY <1>9 DEF one

\* Any number of them
LEMMA DiagnosedSteps ==
    ASSUME batch \in Seq(LoopCalls), NEW looked \in SUBSET DOMAIN batch,
           NEW n \in looked, n <= Len(batch), NEW obs, Observed(obs, n, looked),
           NEW c \in Nat
    PROVE  Observed(obs \o [k \in 1..c |-> System], n, looked)
<1> DEFINE More(m) == obs \o [k \in 1..m |-> System]
           P(m) == Observed(More(m), n, looked)
           S == {m \in Nat : P(m)}
<1>1. obs \in Seq(LoopMessages) /\ System \in LoopMessages
    BY SystemMessage DEF Observed
<1>2. \A m \in Nat : /\ [k \in 1..m |-> System] \in Seq(LoopMessages)
                     /\ Len([k \in 1..m |-> System]) = m
    BY <1>1
<1>3. P(0)
  <2>1. [k \in 1..0 |-> System] = <<>>
      OBVIOUS
  <2>2. More(0) = obs
      BY <1>1, <2>1
  <2> QED BY <2>2
<1>4. ASSUME NEW m \in Nat, P(m) PROVE P(m + 1)
  <2>1. [k \in 1..(m + 1) |-> System] = Append([k \in 1..m |-> System], System)
    <3> DEFINE a == [k \in 1..(m + 1) |-> System]
               b == Append([k \in 1..m |-> System], System)
    <3>1. a \in Seq(LoopMessages) /\ Len(a) = m + 1 /\ \A k \in 1..(m + 1) : a[k] = System
        BY <1>2
    <3>2. b \in Seq(LoopMessages) /\ Len(b) = m + 1 /\ \A k \in 1..(m + 1) : b[k] = System
        BY <1>1, <1>2
    <3> HIDE DEF a, b
    <3>3. a = b
        BY <3>1, <3>2
    <3> QED BY <3>3 DEF a, b
  <2>2. More(m + 1) = Append(More(m), System)
    <3> DEFINE a == [k \in 1..m |-> System]
    <3>1. a \in Seq(LoopMessages)
        BY <1>2
    <3>2. More(m + 1) = obs \o Append(a, System)
        BY <2>1
    <3> HIDE DEF a
    <3>3. obs \o Append(a, System) = Append(obs \o a, System)
        BY <1>1, <3>1
    <3> QED BY <3>2, <3>3 DEF a
  <2> HIDE DEF More
  <2>3. Observed(Append(More(m), System), n, looked)
      BY <1>4, DiagnosedStep
  <2> QED BY <2>2, <2>3
<1> HIDE DEF P
<1>5. Nat \subseteq S
  <2>1. 0 \in S
      BY <1>3
  <2>2. \A m \in Nat : m \in S => m + 1 \in S
      BY <1>4
  <2> HIDE DEF S
  <2> QED BY <2>1, <2>2, SetInduction
<1>6. P(c)
    BY <1>5
<1> QED BY <1>6 DEF P

\* The recursion of Observations, up to the n-th call
Collects(g, n, told) ==
    g = [i \in 0..n |-> IF i = 0 THEN <<>>
                        ELSE g[i - 1] \o <<Result(i)>> \o After(i, told)]

LEMMA CollectsExists ==
    ASSUME NEW n \in Nat, NEW told
    PROVE  \E g : Collects(g, n, told)
<1> DEFINE Some(m) == \E g : Collects(g, m, told)
           S == {m \in Nat : Some(m)}
<1>1. Some(0)
  <2> DEFINE g == [i \in 0..0 |-> <<>>]
  <2>1. g = [i \in 0..0 |-> IF i = 0 THEN <<>>
                            ELSE g[i - 1] \o <<Result(i)>> \o After(i, told)]
      OBVIOUS
  <2> QED BY <2>1 DEF Collects
<1>2. ASSUME NEW m \in Nat, Some(m) PROVE Some(m + 1)
  <2>1. PICK g : Collects(g, m, told)
      BY <1>2
  <2> DEFINE next == g[m] \o <<Result(m + 1)>> \o After(m + 1, told)
             h == [i \in 0..(m + 1) |-> IF i = m + 1 THEN next ELSE g[i]]
  <2>2. ASSUME NEW i \in 0..(m + 1)
        PROVE  h[i] = IF i = 0 THEN <<>>
                      ELSE h[i - 1] \o <<Result(i)>> \o After(i, told)
    <3>1. CASE i = m + 1
      <4>1. h[i - 1] = g[m] /\ h[i] = next /\ i # 0
          BY <3>1
      <4> QED BY <3>1, <4>1
    <3>2. CASE i = 0
        BY <2>1, <3>2 DEF Collects
    <3>3. CASE i \in 1..m
      <4>1. h[i] = g[i] /\ h[i - 1] = g[i - 1] /\ i \in 0..m /\ i # 0
          BY <3>3
      <4>2. g[i] = g[i - 1] \o <<Result(i)>> \o After(i, told)
          BY <2>1, <4>1 DEF Collects
      <4> QED BY <4>1, <4>2
    <3> QED BY <3>1, <3>2, <3>3
  <2>3. Collects(h, m + 1, told)
    <3>1. h = [i \in 0..(m + 1) |-> h[i]]
        OBVIOUS
    <3> HIDE DEF h
    <3> QED BY <2>2, <3>1 DEF Collects
  <2> QED BY <2>3
<1> HIDE DEF Some
<1>3. Nat \subseteq S
  <2>1. 0 \in S
      BY <1>1
  <2>2. \A m \in Nat : m \in S => m + 1 \in S
      BY <1>2
  <2> HIDE DEF S
  <2> QED BY <2>1, <2>2, SetInduction
<1> QED BY <1>3 DEF Some

LEMMA ObservationsCollect ==
    ASSUME NEW told, NEW n \in Nat
    PROVE  \E g : Collects(g, n, told) /\ Observations(told, n) = g[n]
<1> DEFINE g == CHOOSE g : Collects(g, n, told)
<1>1. Collects(g, n, told)
    BY CollectsExists
<1>2. Observations(told, n) = g[n]
    BY DEF Observations, Collects, Result, After
<1> QED BY <1>1, <1>2

LEMMA SpokenCount ==
    ASSUME NEW told, NEW i
    PROVE  /\ Cardinality(Spoken(told, i)) \in Nat
           /\ Spoken(told, i) = {} => Cardinality(Spoken(told, i)) = 0
<1>1. Spoken(told, i) \in SUBSET Paths /\ IsFiniteSet(Paths)
    BY LoopAssumption DEF Spoken
<1>2. IsFiniteSet(Spoken(told, i))
    BY <1>1, FS_Subset
<1> QED BY <1>2, FS_CardinalityType, FS_EmptySet

\* The first n results in call order, and a diagnosis between two of them only
\* behind an edit whose diagnosis has something to say
LEMMA ObservationsOrdered ==
    ASSUME batch \in Seq(LoopCalls), NEW told, NEW n \in 0..Len(batch),
           \A i, j \in DOMAIN batch : i < j => batch[i].id < batch[j].id
    PROVE  Observed(Observations(told, n), n, Speaking(told))
<1> DEFINE looked == Speaking(told)
<1>0. looked \in SUBSET DOMAIN batch
    BY DEF Speaking
<1>1. PICK g : Collects(g, n, told) /\ Observations(told, n) = g[n]
    BY ObservationsCollect
<1> DEFINE P(m) == m <= n => Observed(g[m], m, looked)
           S == {m \in Nat : P(m)}
<1>2. Len(batch) \in Nat /\ DOMAIN batch = 1..Len(batch) /\ n \in Nat /\ n <= Len(batch)
    BY SeqElement
<1>3. P(0)
  <2>1. g[0] = <<>>
      BY <1>1, <1>2 DEF Collects
  <2> QED BY <2>1 DEF Observed
<1>4. ASSUME NEW m \in Nat, P(m) PROVE P(m + 1)
  <2> SUFFICES ASSUME m + 1 <= n PROVE Observed(g[m + 1], m + 1, looked)
      OBVIOUS
  <2>1. Observed(g[m], m, looked) /\ m < Len(batch)
      BY <1>2, <1>4
  <2>2. g[m + 1] = g[m] \o <<Result(m + 1)>> \o After(m + 1, told)
    <3>1. m + 1 \in 0..n /\ m + 1 # 0 /\ (m + 1) - 1 = m
        BY <1>2, <2>1
    <3> QED BY <1>1, <3>1 DEF Collects
  <2> DEFINE one == Append(g[m], Result(m + 1))
             c == Cardinality(Spoken(told, m + 1))
  <2>3. g[m] \in Seq(LoopMessages) /\ Result(m + 1) \in LoopMessages /\ m + 1 \in DOMAIN batch
    <3>1. m + 1 \in DOMAIN batch
        BY <1>2, <2>1
    <3> QED BY <2>1, <3>1, ResultMessage DEF Observed
  <2>4. one \in Seq(LoopMessages) /\ g[m] \o <<Result(m + 1)>> = one
      BY <2>3
  <2>5. Observed(one, m + 1, looked)
      BY <1>0, <2>1, ObservedStep
  <2>6. g[m + 1] = one \o [k \in 1..c |-> System]
      BY <2>2, <2>4 DEF After
  <2>7. CASE m + 1 \in looked
    <3>1. c \in Nat /\ m + 1 <= Len(batch)
        BY <1>2, <2>1, SpokenCount
    <3> HIDE DEF one, c, looked
    <3>2. Observed(one \o [k \in 1..c |-> System], m + 1, looked)
        BY <1>0, <2>5, <2>7, <3>1, DiagnosedSteps
    <3> QED BY <2>6, <3>2
  <2>8. CASE m + 1 \notin looked
    <3>1. c = 0
        BY <2>3, <2>8, SpokenCount DEF Speaking
    <3>2. [k \in 1..c |-> System] = <<>>
        BY <3>1
    <3> HIDE DEF one, c
    <3>3. one \o <<>> = one
        BY <2>4
    <3>4. g[m + 1] = one
        BY <2>6, <3>2, <3>3
    <3> QED BY <2>5, <3>4
  <2> QED BY <2>7, <2>8
<1> HIDE DEF P
<1>5. Nat \subseteq S
  <2>1. 0 \in S
      BY <1>3
  <2>2. \A m \in Nat : m \in S => m + 1 \in S
      BY <1>4
  <2> HIDE DEF S
  <2> QED BY <2>1, <2>2, SetInduction
<1>6. P(n)
    BY <1>2, <1>5
<1> QED BY <1>1, <1>2, <1>6 DEF P

-----------------------------------------------------------------------------
(* The window of the budget and the streak *)

\* Streaks without the bound on the length
EndsAt(w, k) ==
    /\ k <= Len(w)
    /\ w # <<>> => k >= 1
    /\ \A i \in 1..Len(w) : i > Len(w) - k => w[i] = w[Len(w)]
    /\ k < Len(w) => w[Len(w) - k] # w[Len(w)]

LEMMA EndsGrow ==
    ASSUME NEW S, NEW w \in Seq(S), NEW s \in S, NEW k \in Nat, EndsAt(w, k)
    PROVE  EndsAt(Append(w, s), IF w # <<>> /\ s = w[Len(w)] THEN k + 1 ELSE 1)
<1> DEFINE g == Append(w, s)
           n == Len(w)
<1>1. /\ g \in Seq(S) /\ Len(g) = n + 1 /\ g[n + 1] = s /\ n \in Nat
      /\ \A i \in 1..n : g[i] = w[i]
    OBVIOUS
<1>2. g # <<>>
    BY <1>1
<1>3. w = <<>> <=> n = 0
    BY <1>1
<1> HIDE DEF g
<1>4. CASE w # <<>> /\ s = w[n]
  <2>1. \A i \in 1..(n + 1) : i > n + 1 - (k + 1) => g[i] = s
    <3> SUFFICES ASSUME NEW i \in 1..(n + 1), i > n + 1 - (k + 1) PROVE g[i] = s
        OBVIOUS
    <3>1. CASE i = n + 1
        BY <1>1, <3>1
    <3>2. CASE i \in 1..n
      <4>1. i > n - k
          BY <1>1
      <4> QED BY <1>1, <1>4, <3>2, <4>1 DEF EndsAt
    <3> QED BY <1>1, <3>1, <3>2
  <2>2. k + 1 < n + 1 => g[n + 1 - (k + 1)] # s
    <3> SUFFICES ASSUME k < n PROVE g[n - k] # s
        BY <1>1
    <3>1. k >= 1 /\ w[n - k] # w[n] /\ n - k \in 1..n
        BY <1>1, <1>4 DEF EndsAt
    <3> QED BY <1>1, <1>4, <3>1
  <2>3. k + 1 <= n + 1
      BY <1>1 DEF EndsAt
  <2>4. EndsAt(g, k + 1)
      BY <1>1, <2>1, <2>2, <2>3 DEF EndsAt
  <2> QED BY <1>4, <2>4 DEF g
<1>5. CASE ~(w # <<>> /\ s = w[n])
  <2>1. \A i \in 1..(n + 1) : i > n + 1 - 1 => g[i] = s
      BY <1>1
  <2>2. 1 < n + 1 => g[n + 1 - 1] # s
    <3> SUFFICES ASSUME 1 < n + 1 PROVE g[n] # s
        BY <1>1
    <3>1. n \in 1..n /\ w # <<>>
        BY <1>1, <1>3
    <3> QED BY <1>1, <1>5, <3>1
  <2>3. EndsAt(g, 1)
      BY <1>1, <2>1, <2>2 DEF EndsAt
  <2> QED BY <1>5, <2>3 DEF g
<1> QED BY <1>4, <1>5

LEMMA RememberType ==
    ASSUME NEW S, NEW w \in Seq(S), NEW s \in S, Len(w) <= Window
    PROVE  Remember(w, s) \in Seq(S) /\ Len(Remember(w, s)) <= Window
<1> DEFINE g == Append(w, s)
<1>1. g \in Seq(S) /\ Len(g) = Len(w) + 1 /\ Len(w) \in Nat
    OBVIOUS
<1>2. Window \in Nat
    BY LoopAssumption
<1> HIDE DEF g
<1>3. g # <<>>
    BY <1>1
<1>4. Tail(g) \in Seq(S) /\ Len(Tail(g)) = Len(g) - 1
    BY <1>1, <1>3
<1>5. Remember(w, s) = IF Len(g) > Window THEN Tail(g) ELSE g
    BY DEF Remember, g
<1> QED BY <1>1, <1>2, <1>4, <1>5

LEMMA StreaksGrow ==
    ASSUME NEW S, NEW w \in Seq(S), NEW s \in S, NEW k \in Nat, Streaks(w, k), k < Window
    PROVE  Streaks(Remember(w, s), IF w # <<>> /\ s = w[Len(w)] THEN k + 1 ELSE 1)
<1> DEFINE g == Append(w, s)
           m == IF w # <<>> /\ s = w[Len(w)] THEN k + 1 ELSE 1
<1>1. g \in Seq(S) /\ Len(g) = Len(w) + 1 /\ Len(w) \in Nat
    OBVIOUS
<1>2. EndsAt(g, m)
    BY EndsGrow DEF Streaks, EndsAt
<1>3. m \in 1..Window /\ Window \in Nat \ {0, 1}
    BY LoopAssumption
<1>4. Len(g) <= Window + 1
    BY <1>1, <1>3 DEF Streaks
<1>5. Remember(w, s) = IF Len(g) > Window THEN Tail(g) ELSE g
    BY DEF Remember
<1> HIDE DEF g, m
<1>6. CASE Len(g) <= Window
  <2>1. Remember(w, s) = g
      BY <1>1, <1>3, <1>5, <1>6
  <2>2. Streaks(g, m)
      BY <1>2, <1>6 DEF Streaks, EndsAt
  <2> QED BY <2>1, <2>2 DEF g, m
<1>7. CASE Len(g) = Window + 1
  <2> DEFINE t == Tail(g)
  <2>1. t = Remember(w, s)
      BY <1>3, <1>5, <1>7
  <2>2. g # <<>>
      BY <1>3, <1>7
  <2>3. Len(t) = Window /\ \A i \in 1..Window : t[i] = g[i + 1]
      BY <1>1, <1>3, <1>7, <2>2
  <2> HIDE DEF t
  <2>4. t[Window] = g[Len(g)] /\ t # <<>>
    <3>1. Window \in 1..Window /\ Window + 1 = Len(g)
        BY <1>3, <1>7
    <3> QED BY <1>3, <2>3, <3>1
  <2>5. \A i \in 1..Window : i > Window - m => t[i] = t[Window]
    <3> SUFFICES ASSUME NEW i \in 1..Window, i > Window - m PROVE t[i] = t[Window]
        OBVIOUS
    <3>1. i + 1 \in 1..Len(g) /\ i + 1 > Len(g) - m
        BY <1>3, <1>7
    <3>2. g[i + 1] = g[Len(g)]
        BY <1>2, <3>1 DEF EndsAt
    <3> QED BY <2>3, <2>4, <3>2
  <2>6. m < Window => t[Window - m] # t[Window]
    <3> SUFFICES ASSUME m < Window PROVE t[Window - m] # t[Window]
        OBVIOUS
    <3>1. /\ m < Len(g) /\ Window - m \in 1..Window /\ (Window - m) + 1 = Len(g) - m
        BY <1>3, <1>7
    <3>2. g[Len(g) - m] # g[Len(g)]
        BY <1>2, <3>1 DEF EndsAt
    <3>3. t[Window - m] = g[Len(g) - m]
        BY <2>3, <3>1
    <3> QED BY <2>4, <3>2, <3>3
  <2>7. Streaks(t, m)
      BY <1>3, <2>3, <2>4, <2>5, <2>6 DEF Streaks
  <2> QED BY <2>1, <2>7 DEF m
<1> QED BY <1>1, <1>3, <1>4, <1>6, <1>7

\* A stagnant window is one long streak, and a streak as long as the window
\* makes it stagnant.
LEMMA StagnantStreak ==
    ASSUME NEW S, NEW w \in Seq(S), NEW k \in Nat, Streaks(w, k)
    PROVE  Stagnant(w) <=> k = Window
<1>1. Window \in Nat \ {0, 1} /\ Len(w) \in Nat
    BY LoopAssumption
<1>2. ASSUME Stagnant(w) PROVE k = Window
  <2>1. Len(w) = Window /\ \A i \in 1..Window : w[i] = w[1]
      BY <1>2 DEF Stagnant
  <2>2. w # <<>>
      BY <1>1, <2>1
  <2>3. k >= 1 /\ k <= Window
      BY <2>1, <2>2 DEF Streaks
  <2>4. k < Window => Window - k \in 1..Window /\ Window \in 1..Window
      BY <1>1, <2>3
  <2>5. ~(k < Window)
      BY <1>1, <2>1, <2>4 DEF Streaks
  <2> QED BY <1>1, <2>3, <2>5
<1>3. ASSUME k = Window PROVE Stagnant(w)
  <2>1. Len(w) = Window
      BY <1>1, <1>3 DEF Streaks
  <2>2. \A i \in 1..Window : w[i] = w[Window]
      BY <1>1, <1>3, <2>1 DEF Streaks
  <2>3. 1 \in 1..Window
      BY <1>1
  <2> QED BY <2>1, <2>2, <2>3 DEF Stagnant
<1> QED BY <1>2, <1>3

\* The window holds rounds.
LEMMA RoundIsSignature ==
    ASSUME NEW tools, NEW results, NEW n \in Nat, DOMAIN tools = 1..n,
           \A i \in 1..n : tools[i] \in Tools /\ results[i] \in Returns
    PROVE  RoundSignature(tools, results) \in Signatures
<1> DEFINE Entry(i) == <<tools[i], results[i]>>
           E == {Entry(i) : i \in DOMAIN tools}
           C(e) == {i \in DOMAIN tools : Entry(i) = e}
<1>1. E \in SUBSET (Tools \X Returns)
    OBVIOUS
<1>2. ASSUME NEW e \in E PROVE Cardinality(C(e)) \in Nat
  <2>1. IsFiniteSet(1..n)
    <3>1. 1 \in Int /\ n \in Int
        OBVIOUS
    <3> QED BY <3>1, FS_Interval, Zenon
  <2>2. C(e) \subseteq 1..n
      OBVIOUS
  <2> HIDE DEF C
  <2> QED BY <2>1, <2>2, FS_Subset, FS_CardinalityType
<1>3. [e \in E |-> Cardinality(C(e))] \in [E -> Nat]
  <2> HIDE DEF C, E
  <2> QED BY <1>2
<1>4. RoundSignature(tools, results) = [kind |-> "tools", entries |-> [e \in E |-> Cardinality(C(e))]]
    BY DEF RoundSignature
<1> HIDE DEF C, E
<1>5. [e \in E |-> Cardinality(C(e))] \in UNION {[D -> Nat] : D \in SUBSET (Tools \X Returns)}
    BY <1>1, <1>3
<1> QED BY <1>4, <1>5 DEF Signatures

LEMMA RejectionIsSignature ==
    ASSUME NEW text \in {"blank", "answer"}
    PROVE  RejectionSignature(text, Feedback(text)) \in Signatures
BY DEF RejectionSignature, Signatures, Feedback

-----------------------------------------------------------------------------
(* Types *)

LEMMA SilentMessages ==
    /\ Msg("user", <<>>) \in LoopMessages /\ Msg("assistant", <<>>) \in LoopMessages
    /\ System \in LoopMessages
BY DEF Msg, LoopMessages, System, Roles

LEMMA GiveUpPlace ==
    ASSUME NEW how, GiveUp(how)
    PROVE  /\ purpose' = "turn" /\ attempt' = 0 /\ sent' = <<>>
           /\ \/ /\ purpose = "summary" /\ pc' = "prepare"
                 /\ summaries' = summaries \cup {SplitIndex(history)}
                 /\ history' = history /\ outcome' = outcome
              \/ /\ purpose = "turn" /\ pc' = "idle" /\ outcome' = how
                 /\ history' \in {history, Append(history, System)}
                 /\ summaries' = summaries
BY DEF GiveUp, LeaveCall, Raise, Finish

LEMMA AskedTypes ==
    ASSUME nextId \in Nat \ {0}, NEW tools \in Batches
    PROVE  LET asked == [i \in DOMAIN tools |-> nextId + i - 1]
           IN  /\ Len(tools) \in Nat \ {0} /\ DOMAIN tools = 1..Len(tools)
               /\ \A i \in DOMAIN tools : tools[i] \in Tools
               /\ asked \in Seq(Nat) /\ Len(asked) = Len(tools)
               /\ Msg("assistant", asked) \in LoopMessages
               /\ [i \in DOMAIN tools |-> [tool |-> tools[i], id |-> asked[i]]]
                        \in Seq(LoopCalls)
<1> DEFINE asked == [i \in DOMAIN tools |-> nextId + i - 1]
           b == [i \in DOMAIN tools |-> [tool |-> tools[i], id |-> asked[i]]]
<1>1. tools \in Seq(Tools) /\ tools # <<>>
    BY LoopAssumption
<1>2. Len(tools) \in Nat \ {0} /\ DOMAIN tools = 1..Len(tools)
      /\ \A i \in DOMAIN tools : tools[i] \in Tools
    BY <1>1
<1>3. \A i \in DOMAIN tools : asked[i] \in Nat
    BY <1>2
<1>4. asked \in Seq(Nat) /\ Len(asked) = Len(tools)
    BY <1>2, <1>3
<1>5. \A i \in DOMAIN tools : [tool |-> tools[i], id |-> asked[i]] \in LoopCalls
  <2> HIDE DEF asked
  <2> QED BY <1>2, <1>3 DEF LoopCalls
<1>6. b \in Seq(LoopCalls)
  <2> HIDE DEF asked
  <2> QED BY <1>2, <1>5
<1>7. Msg("assistant", asked) \in LoopMessages
  <2> HIDE DEF asked
  <2> QED BY <1>4 DEF Msg, LoopMessages, Roles
<1> QED BY <1>2, <1>4, <1>6, <1>7

\* The results of a batch are a round of the window.
LEMMA BatchSignature ==
    ASSUME batch \in Seq(LoopCalls), NEW results \in Results
    PROVE  RoundSignature([i \in DOMAIN batch |-> batch[i].tool], results) \in Signatures
<1> DEFINE tools == [i \in DOMAIN batch |-> batch[i].tool]
<1>1. /\ Len(batch) \in Nat /\ DOMAIN batch = 1..Len(batch)
      /\ \A i \in DOMAIN batch : batch[i] \in LoopCalls
    BY SeqElement
<1>2. DOMAIN tools = 1..Len(batch)
    BY <1>1
<1>3. \A i \in 1..Len(batch) : tools[i] \in Tools /\ results[i] \in Returns
    BY <1>1 DEF Results, Returns, LoopCalls
<1> HIDE DEF tools
<1>4. RoundSignature(tools, results) \in Signatures
    BY <1>1, <1>2, <1>3, RoundIsSignature
<1> QED BY <1>4 DEF tools

LEMMA ObservationsType ==
    ASSUME LoopInv, NEW told, NEW n \in 0..Len(batch)
    PROVE  /\ Observed(Observations(told, n), n, Speaking(told))
           /\ Observations(told, n) \in Seq(LoopMessages)
           /\ Speaking(told) \in SUBSET DOMAIN batch
<1>1. Observed(Observations(told, n), n, Speaking(told))
    BY ObservationsOrdered DEF LoopInv, LoopTypeInv, OpenInv
<1> QED BY <1>1 DEF Observed, Speaking

LEMMA BudgetType ==
    ASSUME LoopInv
    PROVE  /\ budget \in Budgets
           /\ budget.iteration \in 0..MaxIterations /\ budget.tokens \in Nat
           /\ budget.window \in Seq(Signatures) /\ Len(budget.window) <= Window
           /\ spent \in Spendings /\ spent.tools \in 0..MaxToolCalls /\ spent.tokens \in Nat
           /\ since \in Counts /\ since.attempts \in Nat /\ since.batches \in Nat
           /\ streak \in Nat
BY DEF LoopInv, LoopTypeInv, StreakInv, Streaks, Budgets, Spendings, Counts

LEMMA HistoryType ==
    ASSUME LoopInv
    PROVE  /\ history \in Seq(LoopMessages) /\ Append(history, System) \in Seq(LoopMessages)
           /\ Append(history, Msg("user", <<>>)) \in Seq(LoopMessages)
           /\ Append(history, Msg("assistant", <<>>)) \in Seq(LoopMessages)
           /\ history \o <<Msg("assistant", <<>>), System>> \in Seq(LoopMessages)
<1>1. history \in Seq(LoopMessages)
    BY DEF LoopInv, LoopTypeInv
<1> QED BY <1>1, SilentMessages

LEMMA Constants ==
    /\ \A cost \in Costs : cost \in Nat
    /\ MaxAttempts \in Nat \ {0} /\ MaxIterations \in Nat \ {0} /\ MaxToolCalls \in Nat
    /\ Window \in Nat \ {0, 1} /\ RetainRounds \in Nat \ {0} /\ MinTail \in Nat \ {0}
BY LoopAssumption

LEMMA ChargeTypes ==
    ASSUME LoopInv, NEW cost \in Costs
    PROVE  /\ [spent EXCEPT !.tokens = @ + cost] \in Spendings
           /\ [budget EXCEPT !.tokens = @ + cost] \in Budgets
           /\ budget.tokens + cost \in Nat
<1>1. spent.tokens + cost \in Nat /\ budget.tokens + cost \in Nat
  <2>1. cost \in Nat /\ spent.tokens \in Nat /\ budget.tokens \in Nat
      BY Constants, BudgetType
  <2> QED BY <2>1
<1>2. [spent EXCEPT !.tokens = spent.tokens + cost] \in Spendings
    BY <1>1, BudgetType DEF Spendings
<1>3. [budget EXCEPT !.tokens = budget.tokens + cost] \in Budgets
    BY <1>1, BudgetType DEF Budgets
<1> QED BY <1>1, <1>2, <1>3

LEMMA TypeInit == Init => LoopTypeInv
<1> SUFFICES ASSUME Init PROVE LoopTypeInv
    OBVIOUS
<1>1. /\ history \in Seq(LoopMessages) /\ nextId \in Nat \ {0} /\ prompts \in Nat /\ turns \in Nat
      /\ pc \in Places /\ outcome \in Outcomes /\ cancelled \in BOOLEAN /\ late \in BOOLEAN
  <2>1. history = <<System>> /\ System \in LoopMessages
      BY SystemMessage DEF Init
  <2>2. <<System>> \in Seq(LoopMessages)
      BY <2>1
  <2>3. cancelled \in BOOLEAN /\ late \in BOOLEAN
      BY Zenon DEF Init
  <2>4. history \in Seq(LoopMessages)
      BY <2>1, <2>2
  <2> QED BY <2>3, <2>4 DEF Init, Places, Outcomes
<1>2. budget \in Budgets /\ spent \in Spendings /\ since \in Counts
    BY Constants DEF Init, FreshBudget, Budgets, Spendings, Counts
<1>3. /\ purpose \in {"turn", "summary"} /\ attempt \in 0..MaxAttempts
      /\ batch \in Seq(LoopCalls)
      /\ report \in SUBSET Paths /\ wrong \in SUBSET Paths
      /\ streak \in Nat
    BY Constants DEF Init
<1> QED BY <1>1, <1>2, <1>3 DEF LoopTypeInv

\* A step of the model call or of the loop around it
LEMMA CallTypes ==
    ASSUME LoopInv, LoopTypeInv,
           \/ Top \/ AskSummary \/ Prepare \/ Attempt
           \/ \E retryable \in BOOLEAN : AttemptFails(retryable)
           \/ \E cost \in Costs : SummaryAnswered(cost) \/ AnswerDropped(cost)
    PROVE  LoopTypeInv'
<1> USE DEF session, call, edits, pairs
<1>1. history' \in {history, Append(history, System)} => history' \in Seq(LoopMessages)
    BY HistoryType
<1>2. \A cost \in Costs :
        [spent EXCEPT !.tokens = @ + cost] \in Spendings /\ [budget EXCEPT !.tokens = @ + cost] \in Budgets
    BY ChargeTypes
<1>3. CASE Top
  <2>1. CASE cancelled
      BY <1>3, <2>1 DEF Top, LoopTypeInv, Finish, Places, Outcomes
  <2>2. CASE ~cancelled /\ BudgetCheck # "within_budget"
    <3>1. BudgetCheck \in Outcomes
        BY <2>2 DEF BudgetCheck, Outcomes
    <3> QED BY <1>3, <2>2, <3>1 DEF Top, LoopTypeInv, Finish, Places
  <2>3. CASE ~cancelled /\ BudgetCheck = "within_budget"
    <3>1. budget.iteration + 1 \in 0..MaxIterations
        BY Constants, <2>3, BudgetType DEF BudgetCheck
    <3>2. budget' = [budget EXCEPT !.iteration = budget.iteration + 1]
        BY <1>3, <2>3 DEF Top
    <3>3. budget' \in Budgets
        BY <3>1, <3>2, BudgetType DEF Budgets
    <3> QED BY <1>3, <2>3, <3>3 DEF Top, LoopTypeInv, Places
  <2> QED BY <2>1, <2>2, <2>3
<1>4. CASE AskSummary
    BY <1>4, Constants DEF AskSummary, LoopTypeInv, Places
<1>5. CASE Prepare
    BY <1>1, <1>5, Constants DEF Prepare, LoopTypeInv, Raise, Finish, Places, Outcomes
<1>6. CASE Attempt
  <2>1. CASE ~late
    <3>1. pc = "call" /\ attempt + 1 \in 0..MaxAttempts
        BY Constants, <1>6 DEF LoopInv, LoopTypeInv, LoopPlaceInv, Attempt
    <3>2. since' \in Counts
        BY <1>6, <2>1, BudgetType DEF Attempt, Counts
    <3> QED BY <1>6, <2>1, <3>1, <3>2 DEF Attempt, LoopTypeInv, Places
  <2>2. CASE late
    <3>1. GiveUp("run_budget") /\ UNCHANGED since
        BY <1>6, <2>2 DEF Attempt
    <3>2. /\ pc' \in Places /\ outcome' \in Outcomes /\ purpose' = "turn" /\ attempt' = 0
          /\ history' \in Seq(LoopMessages)
        BY <1>1, <3>1, GiveUpPlace DEF LoopTypeInv, Places, Outcomes
    <3> QED BY Constants, <1>6, <3>1, <3>2 DEF Attempt, LoopTypeInv
  <2> QED BY <2>1, <2>2 DEF LoopTypeInv
<1>7. ASSUME NEW retryable \in BOOLEAN, AttemptFails(retryable) PROVE LoopTypeInv'
    BY <1>1, Constants, <1>7, GiveUpPlace DEF AttemptFails, LoopTypeInv, Places, Outcomes
<1>8. ASSUME NEW cost \in Costs, SummaryAnswered(cost) PROVE LoopTypeInv'
  <2>1. spent' \in Spendings
      BY <1>2, <1>8 DEF SummaryAnswered
  <2> QED BY <1>1, Constants, <1>8, <2>1, GiveUpPlace DEF SummaryAnswered, LoopTypeInv, Places, Outcomes
<1>9. ASSUME NEW cost \in Costs, AnswerDropped(cost) PROVE LoopTypeInv'
  <2>1. spent' \in Spendings
      BY <1>2, <1>9 DEF AnswerDropped
  <2>2. budget' \in Budgets
      BY <1>2, <1>9, BudgetType DEF AnswerDropped
  <2> QED BY <1>1, Constants, <1>9, <2>1, <2>2
        DEF AnswerDropped, LeaveCall, Raise, Finish, LoopTypeInv, Places, Outcomes
<1> QED BY <1>3, <1>4, <1>5, <1>6, <1>7, <1>8, <1>9

\* What the loop does with an answer
LEMMA AnswerTypes ==
    ASSUME LoopInv, LoopTypeInv, NEW cost \in Costs,
           \/ AcceptText(cost)
           \/ \E text \in {"blank", "answer"} : RejectText(cost, text)
           \/ \E tools \in Batches : AskTools(cost, tools)
    PROVE  LoopTypeInv'
<1> USE DEF session, call, edits, pairs
<1>1. [spent EXCEPT !.tokens = @ + cost] \in Spendings /\ [budget EXCEPT !.tokens = @ + cost] \in Budgets
    BY ChargeTypes
<1>2. Arrives(cost)
    BY DEF AcceptText, RejectText, AskTools
<1>3. spent' \in Spendings /\ purpose' = "turn" /\ attempt' \in 0..MaxAttempts
    BY <1>1, <1>2, Constants DEF Arrives, LeaveCall
<1>4. CASE AcceptText(cost)
  <2>1. budget' \in Budgets
      BY <1>1, <1>4 DEF AcceptText
  <2>2. history' \in Seq(LoopMessages)
      BY <1>4, HistoryType DEF AcceptText
  <2> QED BY <1>3, <1>4, <2>1, <2>2 DEF AcceptText, Finish, LoopTypeInv, Places, Outcomes
<1>5. ASSUME NEW text \in {"blank", "answer"}, RejectText(cost, text) PROVE LoopTypeInv'
  <2> DEFINE signature == RejectionSignature(text, Feedback(text))
  <2>1. Remember(budget.window, signature) \in Seq(Signatures)
    <3>1. signature \in Signatures
        BY RejectionIsSignature
    <3> HIDE DEF signature
    <3> QED BY <3>1, BudgetType, RememberType
  <2>2. budget' = [budget EXCEPT !.tokens = budget.tokens + cost,
                                 !.window = Remember(budget.window, signature)]
      BY <1>5 DEF RejectText
  <2>3. streak' \in Nat
      BY <1>5, BudgetType DEF RejectText, Streak
  <2> HIDE DEF signature
  <2>4. budget' \in Budgets
    <3>1. budget.tokens + cost \in Nat
        BY ChargeTypes
    <3> QED BY <2>1, <2>2, <3>1, BudgetType DEF Budgets
  <2>5. history' \in Seq(LoopMessages)
      BY <1>5, HistoryType DEF RejectText
  <2> QED BY <1>3, <1>5, <2>3, <2>4, <2>5 DEF RejectText, LoopTypeInv, Places
<1>6. ASSUME NEW tools \in Batches, AskTools(cost, tools) PROVE LoopTypeInv'
  <2>1. budget' \in Budgets
      BY <1>1, <1>6 DEF AskTools
  <2> DEFINE asked == [i \in DOMAIN tools |-> nextId + i - 1]
  <2>2. /\ Len(tools) \in Nat /\ Msg("assistant", asked) \in LoopMessages
        /\ [i \in DOMAIN tools |-> [tool |-> tools[i], id |-> asked[i]]] \in Seq(LoopCalls)
    <3>1. nextId \in Nat \ {0}
        BY DEF LoopTypeInv
    <3> QED BY <3>1, AskedTypes
  <2>3. /\ history' = Append(history, Msg("assistant", asked))
        /\ batch' = [i \in DOMAIN tools |-> [tool |-> tools[i], id |-> asked[i]]]
        /\ nextId' = nextId + Len(tools)
      BY <1>6 DEF AskTools
  <2> HIDE DEF asked
  <2>4. history' \in Seq(LoopMessages)
      BY <2>2, <2>3, HistoryType
  <2>5. batch' \in Seq(LoopCalls)
      BY <2>2, <2>3
  <2>6. nextId' \in Nat \ {0}
      BY <2>2, <2>3 DEF LoopTypeInv
  <2> QED BY <1>3, <1>6, <2>1, <2>4, <2>5, <2>6 DEF AskTools, LoopTypeInv, Places
<1> QED BY <1>4, <1>5, <1>6

LEMMA BatchTypes ==
    ASSUME LoopInv, LoopTypeInv, StartBatch \/ BatchTorn \/ Block \/ Unblock
    PROVE  LoopTypeInv'
<1> USE DEF session, call, edits, pairs
<1>1. history' \in {history, Append(history, System)} => history' \in Seq(LoopMessages)
    BY HistoryType
<1>2. <<>> \in Seq(LoopCalls)
    OBVIOUS
<1>3. CASE StartBatch
  <2>1. Len(batch) \in Nat
      BY DEF LoopTypeInv
  <2>2. spent' \in Spendings
    <3>1. \/ /\ spent' = [spent EXCEPT !.tools = spent.tools + Len(batch)]
             /\ spent.tools + Len(batch) <= MaxToolCalls
          \/ spent' = [spent EXCEPT !.tools = IF late THEN spent.tools ELSE MaxToolCalls]
        BY <1>3 DEF StartBatch
    <3>2. (IF late THEN spent.tools ELSE MaxToolCalls) \in 0..MaxToolCalls
        BY Constants, BudgetType
    <3>3. spent.tools + Len(batch) <= MaxToolCalls => spent.tools + Len(batch) \in 0..MaxToolCalls
        BY <2>1, Constants, BudgetType
    <3> QED BY <3>1, <3>2, <3>3, BudgetType DEF Spendings
  <2>3. since' \in Counts
      BY <1>3, BudgetType DEF StartBatch, Counts
  <2>4. CASE pc' = "run"
      BY <1>3, <2>2, <2>3, <2>4 DEF StartBatch, Tear, Raise, Finish, LoopTypeInv, Places
  <2>5. CASE Tear("run_budget")
      BY <1>1, <1>2, <1>3, <2>2, <2>3, <2>5
      DEF StartBatch, Tear, Raise, Finish, LoopTypeInv, Places, Outcomes
  <2> QED BY <1>3, <2>4, <2>5 DEF StartBatch
<1>4. CASE BatchTorn
    BY <1>1, <1>2, <1>4 DEF BatchTorn, Tear, Raise, Finish, LoopTypeInv, Places, Outcomes
<1>5. CASE Block \/ Unblock
    BY <1>5 DEF Block, Unblock, LoopTypeInv, Places
<1> QED BY <1>3, <1>4, <1>5

LEMMA EndTypes ==
    ASSUME LoopInv, LoopTypeInv, NEW results \in Results, NEW told, EndBatch(results, told)
    PROVE  LoopTypeInv'
<1> USE DEF session, call, edits, pairs
<1> DEFINE signature == RoundSignature([i \in DOMAIN batch |-> batch[i].tool], results)
           obs == Observations(told, Len(batch))
<1>1. signature \in Signatures
    BY BatchSignature DEF LoopTypeInv
<1>2. obs \in Seq(LoopMessages)
  <2>1. Len(batch) \in 0..Len(batch)
      BY DEF LoopTypeInv
  <2> QED BY <2>1, ObservationsType
<1>3. history' \in Seq(LoopMessages)
  <2>1. \/ history' = history \o obs \o <<System>>
        \/ history' = history \o obs \o <<>>
    <3>1. history' = history \o obs
                        \o (IF /\ Repeated(Remember(budget.window, signature)) >= 2
                               /\ Repeated(Remember(budget.window, signature)) = Window - 1
                            THEN <<System>> ELSE <<>>)
        BY DEF EndBatch
    <3> HIDE DEF signature
    <3> QED BY <3>1, Zenon
  <2>2. \A m \in Seq(LoopMessages) : history \o m \in Seq(LoopMessages)
      BY HistoryType
  <2>3. \A m \in Seq(LoopMessages) : m \o <<System>> \in Seq(LoopMessages) /\ m \o <<>> \in Seq(LoopMessages)
      BY SilentMessages
  <2> HIDE DEF obs
  <2> QED BY <1>2, <2>1, <2>2, <2>3, Zenon
<1>4. budget' = [budget EXCEPT !.window = Remember(budget.window, signature)]
      /\ streak' = Streak(signature)
    BY DEF EndBatch
<1> HIDE DEF signature
<1>5. budget' \in Budgets
  <2>1. Remember(budget.window, signature) \in Seq(Signatures)
      BY <1>1, BudgetType, RememberType
  <2> QED BY <1>4, <2>1, BudgetType DEF Budgets
<1>6. streak' \in Nat
    BY <1>4, BudgetType DEF Streak
<1>7. report' \in SUBSET Paths /\ wrong' \in SUBSET Paths
    BY DEF EndBatch, LoopTypeInv, SaidErrors
<1>8. <<>> \in Seq(LoopCalls)
    OBVIOUS
<1> QED BY <1>3, <1>5, <1>6, <1>7, <1>8 DEF EndBatch, Finish, LoopTypeInv, Places, Outcomes

\* What an exception in the middle of the results leaves alone
LEMMA BreakOffStep ==
    ASSUME NEW told, NEW n, BreakOff(told, n)
    PROVE  /\ pc = "run" /\ n \in DOMAIN batch /\ batch' = <<>>
           /\ pc' = "idle" /\ outcome' = "error"
           /\ \/ history' = history \o Observations(told, n) \o <<System>>
              \/ history' = history \o Observations(told, n) \o <<>>
           /\ torn' = torn \cup {batch[i].id : i \in {j \in DOMAIN batch : j > n}}
           /\ split' = split \cup Parted(told)
           /\ UNCHANGED <<session, cancelled, budget, spent, late, call, edits, streak, since>>
<1>1. \/ history' = history \o Observations(told, n) \o <<System>>
      \/ history' = history \o Observations(told, n) \o <<>>
    BY Zenon DEF BreakOff
<1> QED BY <1>1 DEF BreakOff, Finish

LEMMA BreakOffTypes ==
    ASSUME LoopInv, LoopTypeInv, NEW told, NEW n, BreakOff(told, n)
    PROVE  LoopTypeInv'
<1> USE DEF session, call, edits
<1> DEFINE obs == Observations(told, n)
<1>1. obs \in Seq(LoopMessages)
  <2>1. n \in 0..Len(batch)
      BY BreakOffStep DEF LoopTypeInv
  <2> QED BY <2>1, ObservationsType
<1>2. \A m \in Seq(LoopMessages) :
          history \o m \o <<System>> \in Seq(LoopMessages) /\ history \o m \o <<>> \in Seq(LoopMessages)
  <2> TAKE m \in Seq(LoopMessages)
  <2>1. history \o m \in Seq(LoopMessages)
      BY HistoryType
  <2> QED BY <2>1, SilentMessages
<1>3. history' = history \o obs \o <<System>> \/ history' = history \o obs \o <<>>
    BY BreakOffStep
<1> HIDE DEF obs
<1>4. history' \in Seq(LoopMessages)
    BY <1>1, <1>2, <1>3, Zenon
<1>5. /\ pc' = "idle" /\ outcome' = "error" /\ batch' = <<>>
      /\ UNCHANGED <<session, cancelled, budget, spent, late, call, edits, streak, since>>
    BY BreakOffStep
<1>6. <<>> \in Seq(LoopCalls)
    OBVIOUS
<1> QED BY <1>4, <1>5, <1>6 DEF LoopTypeInv, Places, Outcomes

LEMMA UserTypes ==
    ASSUME LoopInv, LoopTypeInv, Submit \/ Clear \/ Cancel \/ Deadline
    PROVE  LoopTypeInv'
<1> USE DEF session, call, edits, pairs
<1>1. [attempts |-> 0, batches |-> 0] \in Counts
    BY DEF Counts
<1>2. CASE Submit
  <2>1. history' \in Seq(LoopMessages)
      BY <1>2, HistoryType DEF Submit
  <2>2. FreshBudget \in Budgets /\ [tools |-> 0, tokens |-> 0] \in Spendings
    <3>1. 0 \in 0..MaxIterations /\ 0 \in 0..MaxToolCalls /\ <<>> \in Seq(Signatures)
        BY Constants
    <3> QED BY <3>1 DEF FreshBudget, Budgets, Spendings
  <2>3. late' \in BOOLEAN
      BY <1>2, Zenon DEF Submit
  <2> QED BY <1>1, <1>2, <2>1, <2>2, <2>3 DEF Submit, LoopTypeInv, Places, Outcomes
<1>3. CASE Clear
  <2>1. history' \in Seq(LoopMessages)
      BY <1>3, HistoryType DEF Clear
  <2> QED BY <1>3, <2>1 DEF Clear, LoopTypeInv, Outcomes
<1>4. CASE Cancel
    BY <1>1, <1>4 DEF Cancel, LoopTypeInv
<1>5. CASE Deadline
    BY <1>5 DEF Deadline, LoopTypeInv
<1> QED BY <1>2, <1>3, <1>4, <1>5

-----------------------------------------------------------------------------
(* The place in the loop *)

\* What the end of a batch leaves alone and where it goes
LEMMA EndBatchStep ==
    ASSUME NEW results, NEW told, EndBatch(results, told)
    PROVE  /\ pc = "run" /\ batch' = <<>>
           /\ budget' = [budget EXCEPT !.window = Remember(budget.window,
                    RoundSignature([i \in DOMAIN batch |-> batch[i].tool], results))]
           /\ streak' = Streak(RoundSignature([i \in DOMAIN batch |-> batch[i].tool], results))
           /\ \/ history' = history \o Observations(told, Len(batch)) \o <<System>>
              \/ history' = history \o Observations(told, Len(batch)) \o <<>>
           /\ \/ cancelled /\ pc' = "idle" /\ outcome' = "cancelled"
              \/ ~cancelled /\ pc' = "top" /\ outcome' = outcome
           /\ report' = SaidErrors(told) \cup {p \in report : Diagnosed(told, p) = {}}
           /\ wrong' = SaidErrors(told) \cup {p \in wrong : Untouched(told, p)}
           /\ split' = split \cup Parted(told)
           /\ nextId' = nextId /\ cancelled' = cancelled /\ torn' = torn /\ since' = since
           /\ purpose' = purpose /\ attempt' = attempt /\ sent' = sent /\ summaries' = summaries
<1> DEFINE signature == RoundSignature([i \in DOMAIN batch |-> batch[i].tool], results)
           warned == /\ Repeated(Remember(budget.window, signature)) >= 2
                     /\ Repeated(Remember(budget.window, signature)) = Window - 1
<1>1. history' = history \o Observations(told, Len(batch)) \o (IF warned THEN <<System>> ELSE <<>>)
    BY DEF EndBatch
<1> HIDE DEF warned
<1>2. \/ history' = history \o Observations(told, Len(batch)) \o <<System>>
      \/ history' = history \o Observations(told, Len(batch)) \o <<>>
    BY <1>1, Zenon
<1> QED BY <1>2 DEF EndBatch, Finish, session, call

\* A batch ends with all its results, or with the first of them.
AnyEnd == \E results \in Results, told \in Reports : EndBatch(results, told)
AnyBreak == \E told \in Reports : \E n \in DOMAIN batch : BreakOff(told, n)

AnyCall ==
    \/ Top \/ AskSummary \/ Prepare \/ Attempt
    \/ \E retryable \in BOOLEAN : AttemptFails(retryable)
    \/ \E cost \in Costs : SummaryAnswered(cost) \/ AnswerDropped(cost)

AnyAnswer ==
    \E cost \in Costs :
        \/ AcceptText(cost)
        \/ \E text \in {"blank", "answer"} : RejectText(cost, text)
        \/ \E tools \in Batches : AskTools(cost, tools)

LEMMA NextCases ==
    ASSUME Next
    PROVE  \/ AnyCall \/ AnyAnswer \/ StartBatch \/ BatchTorn \/ Block \/ Unblock
           \/ AnyEnd \/ AnyBreak \/ Submit \/ Clear \/ Cancel \/ Deadline
BY DEF Next, Work, AnyCall, AnyAnswer, AnyEnd, AnyBreak

LEMMA TypeStep ==
    ASSUME LoopInv, Next
    PROVE  LoopTypeInv'
<1>1. LoopTypeInv
    BY DEF LoopInv
<1>2. CASE AnyCall
    BY <1>1, <1>2, CallTypes DEF AnyCall
<1>3. CASE AnyAnswer
    BY <1>1, <1>3, AnswerTypes DEF AnyAnswer
<1>4. CASE StartBatch \/ BatchTorn \/ Block \/ Unblock
    BY <1>1, <1>4, BatchTypes
<1>5. CASE AnyEnd \/ AnyBreak
    BY <1>1, <1>5, EndTypes, BreakOffTypes DEF AnyEnd, AnyBreak
<1>6. CASE Submit \/ Clear \/ Cancel \/ Deadline
    BY <1>1, <1>6, UserTypes
<1> QED BY <1>2, <1>3, <1>4, <1>5, <1>6, NextCases

LEMMA PlaceStep ==
    ASSUME LoopInv, Next
    PROVE  LoopPlaceInv'
<1> USE DEF session, call, edits, pairs
<1>1. LoopPlaceInv
    BY DEF LoopInv
<1>2. CASE AnyCall
  <2>1. CASE Top
      BY <1>1, <2>1 DEF Top, Finish, LoopPlaceInv
  <2>2. CASE AskSummary
      BY <1>1, <2>2, Constants DEF AskSummary, LoopPlaceInv
  <2>3. CASE Prepare
      BY <1>1, <2>3, Constants DEF Prepare, Raise, Finish, LoopPlaceInv
  <2>4. CASE Attempt
      BY <1>1, <2>4, GiveUpPlace DEF Attempt, LoopPlaceInv
  <2>5. ASSUME NEW retryable \in BOOLEAN, AttemptFails(retryable) PROVE LoopPlaceInv'
      BY <1>1, <2>5, GiveUpPlace DEF AttemptFails, LoopPlaceInv
  <2>6. ASSUME NEW cost \in Costs, SummaryAnswered(cost) PROVE LoopPlaceInv'
      BY <1>1, <2>6, GiveUpPlace DEF SummaryAnswered, LoopPlaceInv
  <2>7. ASSUME NEW cost \in Costs, AnswerDropped(cost) PROVE LoopPlaceInv'
      BY <1>1, <2>7 DEF AnswerDropped, LeaveCall, Raise, Finish, LoopPlaceInv
  <2> QED BY <1>2, <2>1, <2>2, <2>3, <2>4, <2>5, <2>6, <2>7 DEF AnyCall
<1>3. ASSUME NEW cost \in Costs, AcceptText(cost) PROVE LoopPlaceInv'
    BY <1>1, <1>3 DEF AcceptText, Arrives, LeaveCall, Finish, LoopPlaceInv
<1>4. ASSUME NEW cost \in Costs, NEW text \in {"blank", "answer"}, RejectText(cost, text)
      PROVE  LoopPlaceInv'
    BY <1>1, <1>4 DEF RejectText, Arrives, LeaveCall, LoopPlaceInv
<1>5. ASSUME NEW cost \in Costs, NEW tools \in Batches, AskTools(cost, tools) PROVE LoopPlaceInv'
  <2> DEFINE asked == [i \in DOMAIN tools |-> nextId + i - 1]
  <2>1. Len(tools) \in Nat \ {0} /\ DOMAIN tools = 1..Len(tools)
      BY AskedTypes DEF LoopInv, LoopTypeInv
  <2>2. batch' = [i \in DOMAIN tools |-> [tool |-> tools[i], id |-> asked[i]]]
      BY <1>5 DEF AskTools
  <2> HIDE DEF asked
  <2>3. batch' # <<>>
      BY <2>1, <2>2
  <2> QED BY <1>1, <1>5, <2>3 DEF AskTools, Arrives, LeaveCall, LoopPlaceInv
<1>6. CASE StartBatch \/ BatchTorn \/ Block \/ Unblock
    BY <1>1, <1>6 DEF StartBatch, BatchTorn, Tear, Raise, Finish, Block, Unblock, LoopPlaceInv
<1>7. CASE AnyEnd
    BY <1>1, <1>7, EndBatchStep DEF AnyEnd, LoopPlaceInv
<1>9. CASE AnyBreak
    BY <1>1, <1>9, BreakOffStep DEF AnyBreak, LoopPlaceInv
<1>8. CASE Submit \/ Clear \/ Cancel \/ Deadline
    BY <1>1, <1>8 DEF Submit, Clear, Cancel, Deadline, LoopPlaceInv
<1> QED BY <1>2, <1>3, <1>4, <1>5, <1>6, <1>7, <1>8, <1>9, NextCases DEF AnyAnswer

-----------------------------------------------------------------------------
(* Stagnation *)

LEMMA StreakKept ==
    ASSUME LoopInv, UNCHANGED <<budget, streak>>,
           pc' \notin {"idle", "top"} => pc \notin {"idle", "top"},
           outcome' = outcome \/ outcome' # "stagnation"
    PROVE  StreakInv'
BY DEF LoopInv, StreakInv

LEMMA StreakGrows ==
    ASSUME LoopInv, pc \notin {"idle", "top"}, pc' \in {"idle", "top"},
           outcome' = outcome \/ outcome' # "stagnation",
           NEW signature \in Signatures, streak' = Streak(signature),
           budget'.window = Remember(budget.window, signature)
    PROVE  StreakInv'
<1>1. Streaks(budget.window, streak) /\ streak < Window /\ outcome = "none"
    BY DEF LoopInv, StreakInv, LoopPlaceInv
<1>2. Streaks(budget'.window, streak')
    BY <1>1, BudgetType, StreaksGrow DEF Streak
<1> QED BY <1>1, <1>2 DEF StreakInv

LEMMA StreakStep ==
    ASSUME LoopInv, Next
    PROVE  StreakInv'
<1> USE DEF session, call, edits, pairs
<1>1. StreakInv /\ LoopPlaceInv
    BY DEF LoopInv
<1>2. CASE Top
  <2>1. Streaks(budget.window, streak) /\ budget.window \in Seq(Signatures) /\ streak \in Nat
      BY <1>1, BudgetType DEF StreakInv
  <2>2. Stagnant(budget.window) <=> streak = Window
      BY <2>1, StagnantStreak
  <2>3. streak <= Window
      BY <2>1, BudgetType, Constants, SeqElement DEF Streaks
  <2>4. CASE cancelled
      BY <1>1, <1>2, <2>4 DEF Top, Finish, StreakInv
  <2>5. CASE ~cancelled /\ BudgetCheck # "within_budget"
    <3>1. BudgetCheck = "stagnation" => streak = Window
        BY <2>2 DEF BudgetCheck
    <3> QED BY <1>1, <1>2, <2>5, <3>1 DEF Top, Finish, StreakInv
  <2>6. CASE ~cancelled /\ BudgetCheck = "within_budget"
    <3>1. streak < Window
        BY <2>2, <2>3, <2>6, Constants, BudgetType DEF BudgetCheck
    <3>2. /\ pc = "top" /\ outcome' = outcome /\ streak' = streak
          /\ budget' = [budget EXCEPT !.iteration = @ + 1]
        BY <1>2, <2>6 DEF Top
    <3>3. budget'.window = budget.window
        BY <3>2, BudgetType DEF Budgets
    <3> QED BY <1>1, <3>1, <3>2, <3>3 DEF StreakInv, LoopPlaceInv
  <2> QED BY <2>4, <2>5, <2>6
<1>3. CASE AskSummary \/ Prepare \/ Attempt \/ \E retryable \in BOOLEAN : AttemptFails(retryable)
  <2>1. UNCHANGED <<budget, streak>> /\ pc \notin {"idle", "top"}
      BY <1>3 DEF AskSummary, Prepare, Attempt, AttemptFails
  <2>2. outcome' = outcome \/ outcome' # "stagnation"
      BY <1>3, GiveUpPlace DEF AskSummary, Prepare, Attempt, AttemptFails, Raise, Finish
  <2> QED BY <2>1, <2>2, StreakKept
<1>4. ASSUME NEW cost \in Costs, SummaryAnswered(cost) PROVE StreakInv'
    BY <1>4, GiveUpPlace, StreakKept DEF SummaryAnswered
<1>5. ASSUME NEW cost \in Costs, AnswerDropped(cost) \/ AcceptText(cost)
             \/ \E tools \in Batches : AskTools(cost, tools)
      PROVE  StreakInv'
  <2>1. /\ pc = "wait" /\ streak' = streak /\ (outcome' = outcome \/ outcome' # "stagnation")
        /\ budget' \in {budget, [budget EXCEPT !.tokens = @ + cost]}
      BY <1>5 DEF AnswerDropped, AcceptText, AskTools, Arrives, Raise, Finish
  <2>2. budget'.window = budget.window
      BY <2>1, BudgetType DEF Budgets
  <2> QED BY <1>1, <2>1, <2>2 DEF StreakInv
<1>6. ASSUME NEW cost \in Costs, NEW text \in {"blank", "answer"}, RejectText(cost, text)
      PROVE  StreakInv'
  <2> DEFINE signature == RejectionSignature(text, Feedback(text))
  <2>1. signature \in Signatures
      BY RejectionIsSignature
  <2>2. /\ pc = "wait" /\ pc' = "top" /\ outcome' = outcome /\ streak' = Streak(signature)
        /\ budget' = [budget EXCEPT !.tokens = @ + cost,
                                    !.window = Remember(budget.window, signature)]
      BY <1>6 DEF RejectText, Arrives
  <2> HIDE DEF signature
  <2>3. budget'.window = Remember(budget.window, signature)
      BY <2>2, BudgetType DEF Budgets
  <2> QED BY <2>1, <2>2, <2>3, StreakGrows
<1>7. ASSUME NEW results \in Results, NEW told, EndBatch(results, told)
      PROVE  StreakInv'
  <2> DEFINE signature == RoundSignature([i \in DOMAIN batch |-> batch[i].tool], results)
  <2>1. signature \in Signatures
      BY BatchSignature DEF LoopInv, LoopTypeInv
  <2>2. /\ pc = "run" /\ pc' \in {"idle", "top"} /\ (outcome' = outcome \/ outcome' # "stagnation")
        /\ streak' = Streak(signature)
        /\ budget' = [budget EXCEPT !.window = Remember(budget.window, signature)]
      BY <1>7, EndBatchStep
  <2> HIDE DEF signature
  <2>3. budget'.window = Remember(budget.window, signature)
      BY <2>2, BudgetType DEF Budgets
  <2> QED BY <2>1, <2>2, <2>3, StreakGrows
<1>8. CASE StartBatch \/ BatchTorn \/ Block \/ Unblock \/ AnyBreak
  <2>1. /\ UNCHANGED <<budget, streak>> /\ pc \notin {"idle", "top"}
        /\ (outcome' = outcome \/ outcome' # "stagnation")
      BY <1>8, BreakOffStep
      DEF StartBatch, BatchTorn, Tear, Raise, Finish, Block, Unblock, AnyBreak
  <2> QED BY <2>1, StreakKept
<1>9. CASE Submit
  <2>1. budget' = FreshBudget /\ streak' = 0 /\ pc' = "top" /\ outcome' = "none"
      BY <1>9 DEF Submit
  <2>2. budget'.window = <<>>
      BY <2>1 DEF FreshBudget
  <2>3. Streaks(<<>>, 0)
      BY Constants DEF Streaks
  <2> QED BY <2>1, <2>2, <2>3 DEF StreakInv
<1>10. CASE Clear \/ Cancel \/ Deadline
  <2>1. /\ UNCHANGED <<budget, streak>> /\ pc' = pc
        /\ (outcome' = outcome \/ outcome' # "stagnation")
      BY <1>10 DEF Clear, Cancel, Deadline
  <2> QED BY <2>1, StreakKept
<1> QED BY <1>2, <1>3, <1>4, <1>5, <1>6, <1>7, <1>8, <1>9, <1>10, NextCases
      DEF AnyCall, AnyAnswer, AnyEnd

-----------------------------------------------------------------------------
(* Cancellation *)

\* A step that begins nothing and leaves the run, or stays where it is
LEMMA CancelKept ==
    ASSUME LoopInv, cancelled' = cancelled, since' = since, outcome' # "succeeded" \/ ~cancelled,
           \/ pc' = "idle"
           \/ pc' = pc /\ UNCHANGED <<purpose, attempt, history, summaries>>
    PROVE  CancelInv'
<1>1. since.attempts \in Nat /\ since.batches \in Nat
    BY BudgetType
<1> QED BY <1>1 DEF LoopInv, CancelInv

LEMMA CancelStep ==
    ASSUME LoopInv, Next
    PROVE  CancelInv'
<1> USE DEF session, call, edits, pairs
<1>1. /\ CancelInv /\ LoopPlaceInv /\ since.attempts \in Nat /\ since.batches \in Nat
      /\ attempt \in 0..MaxAttempts /\ pc \in Places
      /\ MaxAttempts \in Nat \ {0}
    BY BudgetType, Constants DEF LoopInv, LoopTypeInv
<1>2. CASE Top
  <2>1. CASE cancelled
      BY <1>2, <2>1, CancelKept DEF Top, Finish
  <2>2. CASE ~cancelled
      BY <1>2, <2>2 DEF Top, CancelInv
  <2> QED BY <2>1, <2>2
<1>3. CASE AskSummary
  <2>1. /\ pc = "prepare" /\ SplitIndex(history) \notin summaries
        /\ pc' = "call" /\ purpose' = "summary" /\ attempt' = 0
        /\ UNCHANGED <<cancelled, since, outcome>>
      BY <1>3 DEF AskSummary
  <2> QED BY <1>1, <2>1 DEF CancelInv
<1>4. CASE Prepare
  <2>1. CASE pc' = "idle"
      BY <1>1, <1>4, <2>1, CancelKept DEF Prepare, Raise, Finish
  <2>2. CASE pc' # "idle"
    <3>1. /\ pc = "prepare" /\ pc' = "call" /\ purpose' = "turn" /\ attempt' = 0
          /\ UNCHANGED <<cancelled, since, outcome>>
        BY <1>4, <2>2 DEF Prepare, Raise, Finish
    <3> QED BY <1>1, <3>1 DEF CancelInv
  <2> QED BY <2>1, <2>2
\* The client is given up on: the run ends, or a summary's place is prepared again.
<1>5. ASSUME NEW how \in {"none", "run_budget", "error"}, GiveUp(how), pc \in {"call", "wait"},
             cancelled' = cancelled, since' = since
      PROVE  CancelInv'
  <2>1. CASE purpose = "turn"
      BY <1>5, <2>1, CancelKept, GiveUpPlace
  <2>2. CASE purpose = "summary"
    <3>1. /\ pc' = "prepare" /\ outcome' = outcome /\ history' = history
          /\ summaries' = summaries \cup {SplitIndex(history)}
        BY <1>5, <2>2, GiveUpPlace
    <3>2. SplitIndex(history)' = SplitIndex(history)
        BY <3>1 DEF SplitIndex, Users, LeadingSystem
    <3>3. SplitIndex(history)' \in summaries'
        BY <3>1, <3>2
    <3> QED BY <1>1, <1>5, <2>2, <3>1, <3>3 DEF CancelInv
  <2>3. purpose \in {"turn", "summary"}
      BY DEF LoopInv, LoopTypeInv
  <2> QED BY <2>1, <2>2, <2>3
<1>6. CASE Attempt
  <2>1. CASE ~late
    <3>1. /\ pc = "call" /\ pc' = "wait" /\ attempt' = attempt + 1 /\ purpose' = purpose
          /\ cancelled' = cancelled /\ outcome' = outcome
          /\ since' = [since EXCEPT !.attempts =
                  IF cancelled /\ since.attempts <= 2 * MaxAttempts THEN since.attempts + 1
                  ELSE since.attempts]
        BY <1>6, <2>1 DEF Attempt
    <3>2. since'.batches = since.batches /\ since'.attempts <= since.attempts + 1
          /\ since'.attempts \in Nat
        BY <1>1, <3>1, BudgetType DEF Counts
    <3>3. cancelled => /\ outcome # "succeeded" /\ since.batches = 0
                       /\ since.attempts <= IF purpose = "summary" THEN attempt
                                            ELSE MaxAttempts + attempt
                       /\ attempt + 1 <= MaxAttempts
        BY <1>1, <3>1 DEF CancelInv, LoopPlaceInv
    <3> QED BY <1>1, <3>1, <3>2, <3>3 DEF CancelInv
  <2>2. CASE late
      BY <1>5, <1>6, <2>2 DEF Attempt
  <2> QED BY <2>1, <2>2 DEF LoopInv, LoopTypeInv
<1>7. ASSUME NEW retryable \in BOOLEAN, AttemptFails(retryable) PROVE CancelInv'
  <2>1. CASE pc' = "call"
    <3>1. /\ pc = "wait" /\ UNCHANGED <<cancelled, since, outcome, purpose, attempt>>
        BY <1>1, <1>7, <2>1, GiveUpPlace DEF AttemptFails
    <3> QED BY <1>1, <2>1, <3>1 DEF CancelInv
  <2>2. CASE pc' # "call"
      BY <1>5, <1>7, <2>2 DEF AttemptFails
  <2> QED BY <2>1, <2>2
<1>8. ASSUME NEW cost \in Costs, SummaryAnswered(cost) PROVE CancelInv'
    BY <1>5, <1>8 DEF SummaryAnswered
<1>9. ASSUME NEW cost \in Costs, AnswerDropped(cost) PROVE CancelInv'
    BY <1>9, CancelKept DEF AnswerDropped, Raise, Finish
<1>10. ASSUME NEW cost \in Costs, Arrives(cost), cancelled' = cancelled PROVE CancelInv'
    BY <1>10 DEF Arrives, CancelInv
<1>11. CASE AnyAnswer
    BY <1>10, <1>11 DEF AnyAnswer, AcceptText, RejectText, AskTools
<1>12. CASE StartBatch \/ BatchTorn
  <2>1. CASE pc' = "idle"
      BY <1>1, <1>12, <2>1, CancelKept DEF StartBatch, BatchTorn, Tear, Raise, Finish
  <2>2. CASE pc' # "idle"
    <3>1. /\ pc = "tools" /\ pc' = "run" /\ cancelled' = cancelled /\ outcome' = outcome
          /\ since' = [since EXCEPT !.batches =
                  IF cancelled /\ since.batches <= 1 THEN since.batches + 1 ELSE since.batches]
        BY <1>12, <2>2 DEF StartBatch, BatchTorn, Tear, Raise, Finish
    <3>2. since'.attempts = since.attempts /\ since'.batches <= since.batches + 1
        BY <1>1, <3>1, BudgetType DEF Counts
    <3>3. cancelled => since.attempts = 0 /\ since.batches = 0 /\ outcome # "succeeded"
        BY <1>1, <3>1 DEF CancelInv
    <3>4. since'.batches \in Nat
        BY <1>1, <3>1, BudgetType DEF Counts
    <3> QED BY <1>1, <3>1, <3>2, <3>3, <3>4 DEF CancelInv
  <2> QED BY <2>1, <2>2
<1>13. CASE AnyEnd
  <2>1. CASE cancelled
      BY <1>13, <2>1, EndBatchStep, CancelKept DEF AnyEnd
  <2>2. CASE ~cancelled
      BY <1>13, <2>2, EndBatchStep DEF AnyEnd, CancelInv
  <2> QED BY <2>1, <2>2
<1>14. CASE Submit \/ Cancel
  <2>1. since' = [attempts |-> 0, batches |-> 0] /\ outcome' = "none"
      BY <1>1, <1>14 DEF Submit, Cancel, LoopPlaceInv
  <2>2. pc' \in Places /\ attempt' \in 0..MaxAttempts
      BY TypeStep DEF LoopTypeInv
  <2>3. /\ since'.attempts = 0 /\ since'.batches = 0 /\ outcome' # "succeeded"
        /\ attempt' \in Nat
    <3>1. since'.attempts = 0 /\ since'.batches = 0
        BY <2>1
    <3>2. attempt' \in Nat
        BY <1>1, <2>2
    <3> QED BY <2>1, <3>1, <3>2
  <2>4. \A a, m \in Nat : 0 <= 2 * m /\ 0 <= m /\ 0 <= m + a /\ 0 <= a
      OBVIOUS
  <2>5. MaxAttempts \in Nat
      BY <1>1
  <2>6. CancelInv'
    <3>1. ~(since'.attempts > 0)
        BY <2>3
    <3>2. since'.attempts <= 2 * MaxAttempts /\ since'.attempts <= MaxAttempts
        BY <2>3, <2>4, <2>5, Zenon
    <3>3. since'.attempts <= MaxAttempts + attempt' /\ since'.attempts <= attempt'
        BY <2>3, <2>4, <2>5, Zenon
    <3>4. since'.batches <= 0 /\ since'.batches <= 1
        BY <2>3
    <3> QED BY <2>3, <3>1, <3>2, <3>3, <3>4 DEF CancelInv
  <2> QED BY <2>6
<1>16. CASE Block \/ Unblock
    BY <1>1, <1>16 DEF Block, Unblock, CancelInv
<1>17. CASE AnyBreak
  <2>1. pc' = "idle" /\ outcome' = "error" /\ cancelled' = cancelled /\ since' = since
      BY <1>17, BreakOffStep DEF AnyBreak
  <2> QED BY <2>1, CancelKept
<1>15. CASE Clear \/ Deadline
  <2>1. CASE Clear
      BY <2>1, CancelKept DEF Clear
  <2>2. CASE Deadline
      BY <1>1, <2>2, CancelKept DEF Deadline, LoopPlaceInv
  <2> QED BY <1>15, <2>1, <2>2
<1> QED BY <1>2, <1>3, <1>4, <1>6, <1>7, <1>8, <1>9, <1>11, <1>12, <1>13, <1>14, <1>15, <1>16, <1>17,
          NextCases DEF AnyCall

-----------------------------------------------------------------------------
(* The completion gate *)

LEMMA ReportStep ==
    ASSUME LoopInv, Next
    PROVE  ReportInv'
<1> USE DEF session, call, edits, pairs
<1>1. ReportInv /\ LoopPlaceInv
    BY DEF LoopInv
<1>2. ASSUME UNCHANGED <<report, wrong>>, outcome' = outcome \/ outcome' # "succeeded"
      PROVE  ReportInv'
    BY <1>1, <1>2 DEF ReportInv
<1>3. CASE AnyCall
  <2>1. UNCHANGED <<report, wrong>>
      BY <1>3 DEF AnyCall, Top, AskSummary, Prepare, Attempt, AttemptFails, SummaryAnswered,
                  AnswerDropped
  <2>2. CASE Top
      BY <1>2, <2>1, <2>2 DEF Top, Finish, BudgetCheck
  <2>3. CASE ~Top
      BY <1>2, <1>3, <2>1, <2>3, GiveUpPlace
      DEF AnyCall, AskSummary, Prepare, Attempt, AttemptFails, SummaryAnswered,
          AnswerDropped, Raise, Finish
  <2> QED BY <2>2, <2>3
<1>4. ASSUME NEW cost \in Costs, AcceptText(cost) PROVE ReportInv'
  <2>1. UNCHANGED <<report, wrong>> /\ report = {}
      BY <1>4 DEF AcceptText, Feedback
  <2> QED BY <1>1, <2>1 DEF ReportInv
<1>5. ASSUME NEW cost \in Costs,
             \/ \E text \in {"blank", "answer"} : RejectText(cost, text)
             \/ \E tools \in Batches : AskTools(cost, tools)
      PROVE  ReportInv'
    BY <1>2, <1>5 DEF RejectText, AskTools
<1>6. CASE StartBatch \/ BatchTorn \/ Block \/ Unblock \/ AnyBreak
  <2>1. UNCHANGED <<report, wrong>> /\ (outcome' = outcome \/ outcome' # "succeeded")
      BY <1>6, BreakOffStep
      DEF StartBatch, BatchTorn, Tear, Raise, Finish, Block, Unblock, AnyBreak
  <2> QED BY <1>2, <2>1
<1>7. ASSUME NEW results \in Results, NEW told \in Reports, EndBatch(results, told)
      PROVE  ReportInv'
  <2>1. /\ report' = SaidErrors(told) \cup {p \in report : Diagnosed(told, p) = {}}
        /\ wrong' = SaidErrors(told) \cup {p \in wrong : Untouched(told, p)}
      BY <1>7, EndBatchStep
  <2>2. outcome' # "succeeded"
    <3>1. pc = "run" /\ (outcome' = "cancelled" \/ outcome' = outcome)
        BY <1>7, EndBatchStep
    <3> QED BY <1>1, <3>1 DEF LoopPlaceInv
  <2>3. \A p : Untouched(told, p) => Diagnosed(told, p) = {}
      BY DEF Untouched, Diagnosed, Said
  <2> QED BY <1>1, <2>1, <2>2, <2>3 DEF ReportInv
<1>8. CASE Submit
    BY <1>8 DEF Submit, ReportInv
<1>9. CASE Clear \/ Cancel \/ Deadline
    BY <1>2, <1>9 DEF Clear, Cancel, Deadline
<1> QED BY <1>3, <1>4, <1>5, <1>6, <1>7, <1>8, <1>9, NextCases DEF AnyAnswer, AnyEnd

-----------------------------------------------------------------------------
(* The messages of the history *)

LEMMA MessageIds ==
    ASSUME NEW m \in LoopMessages
    PROVE  /\ m.role \in Roles /\ m.ids \in Seq(Nat) /\ Ids(m) \subseteq Nat
           /\ m.ids = <<>> => Ids(m) = {}
           /\ Len(m.ids) = 1 => Ids(m) = {m.ids[1]} /\ m.ids[1] \in Nat
<1>1. m.role \in Roles /\ m.ids \in Seq(Nat)
    BY DEF LoopMessages
<1>2. Len(m.ids) \in Nat /\ DOMAIN m.ids = 1..Len(m.ids) /\ \A i \in DOMAIN m.ids : m.ids[i] \in Nat
    BY <1>1, SeqElement
<1>3. Ids(m) \subseteq Nat
    BY <1>2 DEF Ids
<1>4. m.ids = <<>> => Ids(m) = {}
    BY DEF Ids
<1>5. Len(m.ids) = 1 => Ids(m) = {m.ids[1]} /\ m.ids[1] \in Nat
  <2> SUFFICES ASSUME Len(m.ids) = 1 PROVE Ids(m) = {m.ids[1]} /\ m.ids[1] \in Nat
      OBVIOUS
  <2>1. DOMAIN m.ids = {1}
      BY <1>2
  <2> QED BY <1>2, <2>1 DEF Ids
<1> QED BY <1>1, <1>3, <1>4, <1>5

LEMMA CalledBy ==
    ASSUME NEW h, NEW x
    PROVE  /\ x \in Called(h) <=> \E i \in DOMAIN h : h[i].role = "assistant" /\ x \in Ids(h[i])
           /\ x \in Answered(h) <=> \E i \in DOMAIN h : h[i].role = "tool" /\ x \in Ids(h[i])
BY DEF Called, Answered

LEMMA ConcatIds ==
    ASSUME NEW h \in Seq(LoopMessages), NEW g \in Seq(LoopMessages)
    PROVE  /\ Called(h \o g) = Called(h) \cup Called(g)
           /\ Answered(h \o g) = Answered(h) \cup Answered(g)
<1> DEFINE c == h \o g
<1>1. /\ DOMAIN h \subseteq DOMAIN c
      /\ \A j \in DOMAIN g : Len(h) + j \in DOMAIN c
      /\ \A i \in DOMAIN h : c[i] = h[i]
      /\ \A i \in DOMAIN g : c[Len(h) + i] = g[i]
      /\ \A i \in DOMAIN c : i \in DOMAIN h \/ \E j \in DOMAIN g : i = Len(h) + j
  <2>1. DOMAIN h \subseteq DOMAIN c /\ \A j \in DOMAIN g : Len(h) + j \in DOMAIN c
      BY ConcatElement
  <2> QED BY <2>1, ConcatElement
<1> HIDE DEF c
<1>2. ASSUME NEW x PROVE x \in Called(c) <=> x \in Called(h) \cup Called(g)
    BY <1>1, CalledBy
<1>3. ASSUME NEW x PROVE x \in Answered(c) <=> x \in Answered(h) \cup Answered(g)
    BY <1>1, CalledBy
<1> QED BY <1>2, <1>3 DEF c

LEMMA OneIds ==
    ASSUME NEW m
    PROVE  /\ Called(<<m>>) = IF m.role = "assistant" THEN Ids(m) ELSE {}
           /\ Answered(<<m>>) = IF m.role = "tool" THEN Ids(m) ELSE {}
<1>1. DOMAIN <<m>> = {1} /\ <<m>>[1] = m
    OBVIOUS
<1>2. ASSUME NEW x
      PROVE  x \in Called(<<m>>) <=> x \in IF m.role = "assistant" THEN Ids(m) ELSE {}
    BY <1>1, CalledBy
<1>3. ASSUME NEW x
      PROVE  x \in Answered(<<m>>) <=> x \in IF m.role = "tool" THEN Ids(m) ELSE {}
    BY <1>1, CalledBy
<1> QED BY <1>2, <1>3

\* A message without ids changes nothing of the protocol, nor does a call with
\* fresh ids.
LEMMA ProtocolAppend ==
    ASSUME NEW h \in Seq(LoopMessages), NEW m \in LoopMessages, NEW n \in Nat, NEW k \in Nat, n <= k,
           NEW parted, Protocol(h, n, parted), Carries(m),
           \/ Ids(m) = {}
           \/ m.role = "assistant" /\ Ids(m) \subseteq (n + 1)..k
    PROVE  Protocol(Append(h, m), k, parted)
<1> DEFINE g == Append(h, m)
           last == Len(h) + 1
<1>1. /\ Len(h) \in Nat /\ DOMAIN h = 1..Len(h) /\ g[last] = m
      /\ \A i \in DOMAIN h : g[i] = h[i]
      /\ Len(g) = last /\ DOMAIN g = 1..last
    BY SeqAppend
<1>2. Len(h) >= 1 /\ g[1] = h[1]
    BY <1>1 DEF Protocol
<1> HIDE DEF g
<1>3. Len(g) >= 1 /\ g[1].role = "system"
    BY <1>1, <1>2 DEF Protocol
<1>4. \A i \in DOMAIN h : Carries(h[i]) /\ Ids(h[i]) \subseteq 1..n
    BY DEF Protocol
<1>5. ASSUME NEW i \in DOMAIN g PROVE Carries(g[i]) /\ Ids(g[i]) \subseteq 1..k
  <2>1. 1..n \subseteq 1..k /\ (n + 1)..k \subseteq 1..k
      OBVIOUS
  <2>2. CASE i \in DOMAIN h
      BY <1>1, <1>4, <2>1, <2>2
  <2>3. CASE i = last
      BY <1>1, <2>1, <2>3
  <2> QED BY <1>1, <2>2, <2>3
<1>6. Orders(g)
  <2> SUFFICES ASSUME NEW i \in DOMAIN g, NEW j \in DOMAIN g, i < j,
                      g[j].role = "assistant" \/ (g[i].role = "tool" /\ g[j].role = "tool"),
                      NEW x \in Ids(g[i]), NEW y \in Ids(g[j])
               PROVE  x < y
      BY DEF Orders
  <2>1. i \in DOMAIN h
      BY <1>1
  <2>2. CASE j \in DOMAIN h
      BY <1>1, <2>1, <2>2 DEF Protocol, Orders
  <2>3. CASE j = last
    <3>1. y \in (n + 1)..k
        BY <1>1, <2>3
    <3>2. x \in 1..n
        BY <1>1, <1>4, <2>1
    <3> QED BY <3>1, <3>2
  <2> QED BY <1>1, <2>2, <2>3
<1>7. Encloses(g, parted)
  <2> SUFFICES ASSUME NEW i \in DOMAIN g, NEW j \in DOMAIN g, NEW l \in DOMAIN g,
                      i < l, l < j, g[i].role = "assistant", g[j].role = "tool",
                      NEW x \in Ids(g[i]) \cap Ids(g[j])
               PROVE  g[l].role = "tool" \/ (g[l].role = "system" /\ x \in parted)
      BY DEF Encloses
  <2>1. j # last
      BY <1>1
  <2>2. i \in DOMAIN h /\ j \in DOMAIN h /\ l \in DOMAIN h
      BY <1>1, <2>1
  <2>3. h[i].role = "assistant" /\ h[j].role = "tool" /\ x \in Ids(h[i]) \cap Ids(h[j]) /\ g[l] = h[l]
      BY <1>1, <2>2
  <2> QED BY <2>2, <2>3 DEF Protocol, Encloses
<1>8. Protocol(g, k, parted)
    BY <1>3, <1>5, <1>6, <1>7 DEF Protocol
<1> QED BY <1>8 DEF g

\* The calls that a diagnosis separates from their results
LoopParts(looked) == {batch[i].id : i \in {j \in DOMAIN batch : \E k \in looked : k < j}}

LEMMA PartedIds ==
    ASSUME NEW told
    PROVE  Parted(told) = LoopParts(Speaking(told))
BY DEF Parted, LoopParts, Speaking

\* The ids of the calls of the batch with and without a result after the first ones
Ran(first) == {batch[i].id : i \in 1..first}
Left(first) == {batch[i].id : i \in {j \in DOMAIN batch : j > first}}

\* The first results of the batch behind the message that asked for it
LEMMA ProtocolResults ==
    ASSUME batch \in Seq(LoopCalls), NEW h \in Seq(LoopMessages), NEW obs, NEW n \in Nat, NEW parted,
           NEW looked \in SUBSET DOMAIN batch, NEW first \in 0..Len(batch),
           Protocol(h, n, parted), Observed(obs, first, looked),
           \A i, j \in DOMAIN batch : i < j => batch[i].id < batch[j].id,
           h[Len(h)].role = "assistant", Ids(h[Len(h)]) = BatchIds
    PROVE  /\ Protocol(h \o obs, n, parted \cup LoopParts(looked))
           /\ Called(obs) = {} /\ Answered(obs) = Ran(first)
           /\ LoopParts(looked) \subseteq BatchIds
<1> DEFINE parts == LoopParts(looked)
           g == h \o obs
           m == Len(h)
           Res(p, b) == b \in 1..first /\ obs[p] = Result(b)
<1>1. /\ obs \in Seq(LoopMessages) /\ DOMAIN batch = 1..Len(batch) /\ Len(batch) \in Nat
      /\ 1..first \subseteq DOMAIN batch
    BY SeqElement DEF Observed
<1>2. /\ m \in Nat /\ DOMAIN h = 1..m /\ DOMAIN obs = 1..Len(obs) /\ Len(obs) \in Nat
      /\ Len(g) = m + Len(obs) /\ DOMAIN g = 1..(m + Len(obs))
      /\ \A i \in DOMAIN h : g[i] = h[i]
      /\ \A i \in DOMAIN obs : g[m + i] = obs[i]
      /\ \A i \in DOMAIN g : i \in DOMAIN h \/ \E j \in DOMAIN obs : i = m + j
    BY <1>1, ConcatElement
<1>3. m >= 1 /\ m \in DOMAIN h /\ h[1].role = "system" /\ Orders(h) /\ Encloses(h, parted)
      /\ \A i \in DOMAIN h : Carries(h[i]) /\ Ids(h[i]) \subseteq 1..n
    BY <1>2 DEF Protocol
<1> HIDE DEF g, parts, m
\* What the observations are
<1>4. ASSUME NEW p \in DOMAIN obs
      PROVE  \/ obs[p] = System
             \/ \E b \in DOMAIN batch : Res(p, b)
    BY <1>1 DEF Observed
<1>5. ASSUME NEW p \in DOMAIN obs, NEW b, Res(p, b)
      PROVE  /\ obs[p].role = "tool" /\ Ids(obs[p]) = {batch[b].id} /\ Len(obs[p].ids) = 1
             /\ batch[b].id \in Nat /\ b \in DOMAIN batch /\ obs[p] # System
  <2>1. b \in DOMAIN batch /\ obs[p] = Result(b)
      BY <1>1, <1>5
  <2>2. Result(b).role = "tool" /\ Result(b).ids = <<batch[b].id>> /\ Ids(Result(b)) = {batch[b].id}
        /\ batch[b].id \in Nat /\ Result(b) # System
      BY <2>1, ResultMessage
  <2> QED BY <2>1, <2>2
<1>6. ASSUME NEW p \in DOMAIN obs, NEW x \in Ids(obs[p])
      PROVE  /\ obs[p].role = "tool"
             /\ \E b \in DOMAIN batch : Res(p, b) /\ x = batch[b].id
  <2>1. obs[p] # System
      BY SystemMessage
  <2>2. PICK b \in DOMAIN batch : Res(p, b)
      BY <1>4, <2>1
  <2> QED BY <1>5, <2>2
<1>7. ASSUME NEW p \in DOMAIN obs
      PROVE  /\ obs[p].role \in {"tool", "system"} /\ Ids(obs[p]) \subseteq BatchIds
             /\ Carries(obs[p])
  <2>1. CASE obs[p] = System
      BY <2>1, SystemMessage DEF Carries
  <2>2. CASE \E b \in DOMAIN batch : Res(p, b)
    <3>1. PICK b \in DOMAIN batch : Res(p, b)
        BY <2>2
    <3>2. batch[b].id \in BatchIds
        BY DEF BatchIds
    <3> QED BY <1>5, <3>1, <3>2 DEF Carries
  <2> QED BY <1>4, <2>1, <2>2
\* All ids before the last message are below the batch's.
<1>8. ASSUME NEW i \in DOMAIN h, i < m, NEW x \in Ids(h[i]), NEW y \in BatchIds
      PROVE  x < y
  <2>1. y \in Ids(h[m]) /\ h[m].role = "assistant"
      BY DEF m
  <2> QED BY <1>3, <1>8, <2>1 DEF Orders
<1>9. Len(g) >= 1 /\ g[1].role = "system"
  <2>1. 1 \in DOMAIN h
      BY <1>2, <1>3
  <2> QED BY <1>2, <1>3, <2>1
<1>10. BatchIds \subseteq 1..n
    BY <1>3 DEF m
<1>11. ASSUME NEW i \in DOMAIN g PROVE Carries(g[i]) /\ Ids(g[i]) \subseteq 1..n
  <2>1. CASE i \in DOMAIN h
      BY <1>2, <1>3, <2>1
  <2>2. CASE \E j \in DOMAIN obs : i = m + j
      BY <1>2, <1>7, <1>10, <2>2
  <2> QED BY <1>2, <2>1, <2>2
<1>12. Orders(g)
  <2> SUFFICES ASSUME NEW i \in DOMAIN g, NEW j \in DOMAIN g, i < j,
                      g[j].role = "assistant" \/ (g[i].role = "tool" /\ g[j].role = "tool"),
                      NEW x \in Ids(g[i]), NEW y \in Ids(g[j])
               PROVE  x < y
      BY DEF Orders
  <2>1. CASE j \in DOMAIN h
    <3>1. i \in DOMAIN h
        BY <1>2, <2>1
    <3>2. g[i] = h[i] /\ g[j] = h[j]
        BY <1>2, <2>1, <3>1
    <3> QED BY <1>3, <2>1, <3>1, <3>2 DEF Orders
  <2>2. ASSUME NEW q \in DOMAIN obs, j = m + q PROVE x < y
    <3>1. g[j] = obs[q] /\ y \in Ids(obs[q])
        BY <1>2, <2>2
    <3>2. PICK c \in DOMAIN batch : Res(q, c) /\ y = batch[c].id
        BY <1>6, <3>1
    <3>3. g[i].role = "tool"
        BY <1>5, <3>1, <3>2
    <3>4. CASE i \in DOMAIN h
      <4>1. i # m
          BY <1>2, <3>3, <3>4 DEF m
      <4>2. i < m /\ g[i] = h[i]
          BY <1>2, <3>4, <4>1
      <4>3. y \in BatchIds
          BY <3>2 DEF BatchIds
      <4> QED BY <1>8, <3>4, <4>2, <4>3
    <3>5. ASSUME NEW p \in DOMAIN obs, i = m + p PROVE x < y
      <4>1. g[i] = obs[p] /\ x \in Ids(obs[p]) /\ p < q
          BY <1>2, <2>2, <3>5
      <4>2. PICK b \in DOMAIN batch : Res(p, b) /\ x = batch[b].id
          BY <1>6, <4>1
      <4>3. b < c
          BY <1>1, <3>2, <4>1, <4>2 DEF Observed
      <4> QED BY <3>2, <4>2, <4>3
    <3> QED BY <1>2, <3>4, <3>5
  <2> QED BY <1>2, <2>1, <2>2
<1>13. Encloses(g, parted \cup parts)
  <2> SUFFICES ASSUME NEW i \in DOMAIN g, NEW j \in DOMAIN g, NEW l \in DOMAIN g,
                      i < l, l < j, g[i].role = "assistant", g[j].role = "tool",
                      NEW x \in Ids(g[i]) \cap Ids(g[j])
               PROVE  g[l].role = "tool" \/ (g[l].role = "system" /\ x \in parted \cup parts)
      BY DEF Encloses
  <2>1. CASE j \in DOMAIN h
    <3>1. i \in DOMAIN h /\ l \in DOMAIN h
        BY <1>2, <2>1
    <3>2. g[i] = h[i] /\ g[j] = h[j] /\ g[l] = h[l]
        BY <1>2, <2>1, <3>1
    <3> QED BY <1>3, <2>1, <3>1, <3>2 DEF Encloses
  <2>2. ASSUME NEW q \in DOMAIN obs, j = m + q
        PROVE  g[l].role = "tool" \/ (g[l].role = "system" /\ x \in parted \cup parts)
    <3>1. g[j] = obs[q] /\ x \in Ids(obs[q])
        BY <1>2, <2>2
    <3>2. PICK c \in DOMAIN batch : Res(q, c) /\ x = batch[c].id
        BY <1>6, <3>1
    <3>3. x \in BatchIds
        BY <3>2 DEF BatchIds
    <3>4. i \in DOMAIN h
      <4> SUFFICES ASSUME NEW p \in DOMAIN obs, i = m + p PROVE FALSE
          BY <1>2
      <4>1. g[i] = obs[p]
          BY <1>2
      <4> QED BY <1>7, <4>1
    <3>5. g[i] = h[i] /\ x \in Nat
        BY <1>2, <1>10, <3>3, <3>4
    <3>6. i = m
      <4>1. ~(i < m)
        <5> SUFFICES ASSUME i < m PROVE FALSE
            OBVIOUS
        <5>1. x < x
            BY <1>8, <3>3, <3>4, <3>5
        <5> QED BY <3>5, <5>1
      <4> QED BY <1>2, <3>4, <4>1
    <3>7. PICK p \in DOMAIN obs : l = m + p
      <4>1. l \notin DOMAIN h
          BY <1>2, <3>6
      <4> QED BY <1>2, <4>1
    <3>8. g[l] = obs[p] /\ p < q
        BY <1>2, <2>2, <3>7
    <3>9. CASE \E b \in DOMAIN batch : Res(p, b)
        BY <1>5, <3>8, <3>9
    <3>10. CASE obs[p] = System
      <4>1. \E k \in looked : k < c
          BY <1>1, <3>2, <3>8, <3>10 DEF Observed
      <4>2. x \in parts
          BY <3>2, <3>10, <4>1 DEF parts, LoopParts
      <4> QED BY <3>8, <3>10, <4>2, SystemMessage
    <3> QED BY <1>4, <3>9, <3>10
  <2> QED BY <1>2, <2>1, <2>2
<1>14. Protocol(g, n, parted \cup parts)
    BY <1>9, <1>11, <1>12, <1>13 DEF Protocol
<1>15. Called(obs) = {}
  <2> SUFFICES ASSUME NEW x \in Called(obs) PROVE FALSE
      OBVIOUS
  <2>1. PICK p \in DOMAIN obs : obs[p].role = "assistant" /\ x \in Ids(obs[p])
      BY CalledBy
  <2> QED BY <1>7, <2>1
<1>16. ASSUME NEW x PROVE x \in Answered(obs) <=> x \in Ran(first)
  <2>1. ASSUME x \in Answered(obs) PROVE x \in Ran(first)
    <3>1. PICK p \in DOMAIN obs : x \in Ids(obs[p])
        BY <2>1, CalledBy
    <3>2. PICK b \in DOMAIN batch : Res(p, b) /\ x = batch[b].id
        BY <1>6, <3>1
    <3> QED BY <3>2 DEF Ran
  <2>2. ASSUME x \in Ran(first) PROVE x \in Answered(obs)
    <3>1. PICK b \in 1..first : x = batch[b].id
        BY <2>2 DEF Ran
    <3>2. PICK p \in DOMAIN obs : obs[p] = Result(b)
        BY <1>1 DEF Observed
    <3>3. Res(p, b)
        BY <3>2
    <3>4. obs[p].role = "tool" /\ x \in Ids(obs[p])
        BY <1>5, <3>1, <3>3
    <3> QED BY <3>4, CalledBy
  <2> QED BY <2>1, <2>2
<1>17. parts \subseteq BatchIds
    BY DEF parts, LoopParts, BatchIds
<1> QED BY <1>14, <1>15, <1>16, <1>17 DEF g, parts
-----------------------------------------------------------------------------
(* The history stays in order, and its open calls are known *)

LEMMA HistoryFacts ==
    ASSUME LoopInv
    PROVE  /\ history \in Seq(LoopMessages) /\ nextId - 1 \in Nat /\ nextId \in Nat \ {0}
           /\ batch \in Seq(LoopCalls)
           /\ Protocol(history, nextId - 1, split)
           /\ Unanswered(history, torn \cup BatchIds)
BY DEF LoopInv, LoopTypeInv, MessageInv, OpenInv

LEMMA OpenAppend ==
    ASSUME NEW h \in Seq(LoopMessages), NEW m \in LoopMessages, NEW ids, Unanswered(h, ids), Ids(m) = {}
    PROVE  Unanswered(Append(h, m), ids)
<1>1. <<m>> \in Seq(LoopMessages) /\ Append(h, m) = h \o <<m>>
    OBVIOUS
<1>2. Called(<<m>>) = {} /\ Answered(<<m>>) = {}
    BY OneIds
<1>3. Called(h \o <<m>>) = Called(h) /\ Answered(h \o <<m>>) = Answered(h)
  <2>1. /\ Called(h \o <<m>>) = Called(h) \cup Called(<<m>>)
        /\ Answered(h \o <<m>>) = Answered(h) \cup Answered(<<m>>)
      BY <1>1, ConcatIds
  <2> QED BY <1>2, <2>1, Zenon
<1> QED BY <1>1, <1>3 DEF Unanswered

LEMMA SilentStep ==
    ASSUME LoopInv, NEW m \in LoopMessages, Ids(m) = {}, Carries(m)
    PROVE  /\ Protocol(Append(history, m), nextId - 1, split)
           /\ Unanswered(Append(history, m), torn \cup BatchIds)
<1>1. nextId - 1 <= nextId - 1
    BY HistoryFacts
<1> QED BY <1>1, HistoryFacts, ProtocolAppend, OpenAppend

LEMMA Silent ==
    /\ Ids(Msg("user", <<>>)) = {} /\ Carries(Msg("user", <<>>))
    /\ Ids(Msg("assistant", <<>>)) = {} /\ Carries(Msg("assistant", <<>>))
    /\ Ids(System) = {} /\ Carries(System)
BY DEF Msg, Ids, Carries, System

\* The history is as it was, or a message without ids is added.
LoopQuiet == history' \in {history} \cup
            {Append(history, m) : m \in {System, Msg("user", <<>>), Msg("assistant", <<>>)}}

LEMMA QuietHistory ==
    ASSUME LoopInv, LoopQuiet
    PROVE  Protocol(history', nextId - 1, split) /\ Unanswered(history', torn \cup BatchIds)
<1>1. CASE history' = history
    BY <1>1, HistoryFacts
<1>2. ASSUME NEW m \in {System, Msg("user", <<>>), Msg("assistant", <<>>)},
             history' = Append(history, m)
      PROVE  Protocol(history', nextId - 1, split) /\ Unanswered(history', torn \cup BatchIds)
    BY <1>2, Silent, SilentMessages, SilentStep
<1> QED BY <1>1, <1>2 DEF LoopQuiet

LEMMA QuietStep ==
    ASSUME LoopInv, LoopQuiet, batch' = batch, batch # <<>> => history' = history,
           UNCHANGED <<nextId, torn, split>>
    PROVE  MessageInv' /\ OpenInv'
<1>1. BatchIds' = BatchIds
    BY DEF BatchIds
<1>2. Protocol(history', nextId - 1, split) /\ Unanswered(history', torn \cup BatchIds)
    BY QuietHistory
<1> QED BY <1>1, <1>2 DEF LoopInv, MessageInv, OpenInv

LEMMA OpenCalls ==
    ASSUME LoopInv
    PROVE  BatchIds \subseteq 1..(nextId - 1)
<1>1. BatchIds = {} \/ batch # <<>>
    BY DEF BatchIds
<1>2. ASSUME batch # <<>> PROVE BatchIds \subseteq 1..(nextId - 1)
  <2>1. Len(history) \in DOMAIN history
      BY HistoryFacts DEF Protocol
  <2>2. Ids(history[Len(history)]) = BatchIds
      BY <1>2 DEF LoopInv, OpenInv
  <2> QED BY <2>1, <2>2, HistoryFacts DEF Protocol
<1> QED BY <1>1, <1>2

LEMMA TearStep ==
    ASSUME LoopInv, NEW how, Tear(how), UNCHANGED <<nextId, split>>
    PROVE  MessageInv' /\ OpenInv'
<1>1. LoopQuiet /\ torn' = torn \cup BatchIds /\ batch' = <<>>
    BY DEF Tear, Raise, LoopQuiet
<1>2. Protocol(history', nextId - 1, split) /\ Unanswered(history', torn \cup BatchIds)
    BY <1>1, QuietHistory
<1>3. BatchIds' = {}
    BY <1>1 DEF BatchIds
<1>4. BatchIds \subseteq 1..(nextId - 1)
    BY OpenCalls
<1>5. MessageInv'
    BY <1>1, <1>2, <1>4 DEF LoopInv, MessageInv
<1>6. OpenInv'
    BY <1>1, <1>2, <1>3 DEF LoopInv, OpenInv
<1> QED BY <1>5, <1>6

LEMMA RejectStep ==
    ASSUME LoopInv, history' = history \o <<Msg("assistant", <<>>), System>>,
           batch = <<>>, UNCHANGED <<nextId, torn, split, batch>>
    PROVE  MessageInv' /\ OpenInv'
<1> DEFINE one == Append(history, Msg("assistant", <<>>))
<1>1. Protocol(one, nextId - 1, split) /\ Unanswered(one, torn \cup BatchIds) /\ one \in Seq(LoopMessages)
    BY Silent, SilentMessages, SilentStep, HistoryType
<1>2. history' = Append(one, System)
    BY HistoryFacts, SilentMessages
<1> HIDE DEF one
<1>3. Protocol(history', nextId - 1, split) /\ Unanswered(history', torn \cup BatchIds)
  <2>1. nextId - 1 <= nextId - 1 /\ nextId - 1 \in Nat
      BY HistoryFacts
  <2> QED BY <1>1, <1>2, <2>1, Silent, SilentMessages, ProtocolAppend, OpenAppend
<1>4. BatchIds' = BatchIds
    BY DEF BatchIds
<1> QED BY <1>3, <1>4 DEF LoopInv, MessageInv, OpenInv

LEMMA AskStep ==
    ASSUME LoopInv, NEW cost \in Costs, NEW tools \in Batches, AskTools(cost, tools)
    PROVE  MessageInv' /\ OpenInv'
<1> DEFINE asked == [i \in DOMAIN tools |-> nextId + i - 1]
           m == Msg("assistant", asked)
           n == nextId - 1
           k == n + Len(tools)
<1>1. /\ Len(tools) \in Nat \ {0} /\ DOMAIN tools = 1..Len(tools)
      /\ asked \in Seq(Nat) /\ m \in LoopMessages
  <2>1. nextId \in Nat \ {0}
      BY HistoryFacts
  <2> QED BY <2>1, AskedTypes
<1>2. /\ history' = Append(history, m) /\ nextId' = nextId + Len(tools)
      /\ batch' = [i \in DOMAIN tools |-> [tool |-> tools[i], id |-> asked[i]]]
      /\ UNCHANGED <<torn, split>> /\ pc = "wait"
    BY DEF AskTools, Arrives, pairs
<1>3. batch = <<>> /\ BatchIds = {}
    BY <1>2 DEF LoopInv, LoopPlaceInv, BatchIds
<1>4. /\ n \in Nat /\ k \in Nat /\ n <= k /\ nextId' - 1 = k
    BY <1>1, <1>2, HistoryFacts
<1>5. m.role = "assistant" /\ Carries(m) /\ m.ids = asked
    BY DEF Msg, Carries
<1>6. Ids(m) = {asked[i] : i \in DOMAIN tools}
    BY <1>5 DEF Ids
<1>7. Ids(m) \subseteq (n + 1)..k
  <2>1. \A i \in 1..Len(tools) : nextId + i - 1 \in (n + 1)..k
      BY <1>1, <1>4, HistoryFacts
  <2> QED BY <1>1, <1>6, <2>1
<1>8. BatchIds' = Ids(m)
    BY <1>2, <1>6 DEF BatchIds
<1>9. \A i, j \in DOMAIN batch' : i < j => batch'[i].id < batch'[j].id
  <2> SUFFICES ASSUME NEW i \in DOMAIN tools, NEW j \in DOMAIN tools, i < j
               PROVE  asked[i] < asked[j]
      BY <1>2
  <2> QED BY <1>1, HistoryFacts
<1> HIDE DEF asked, n, k, m
<1>10. Protocol(history', k, split)
    BY <1>1, <1>2, <1>4, <1>5, <1>7, HistoryFacts, ProtocolAppend DEF n
<1>11. Called(history') = Called(history) \cup Ids(m) /\ Answered(history') = Answered(history)
  <2>1. history' = history \o <<m>> /\ <<m>> \in Seq(LoopMessages)
      BY <1>1, <1>2, HistoryFacts
  <2>2. Called(<<m>>) = Ids(m) /\ Answered(<<m>>) = {}
      BY <1>5, OneIds
  <2>3. /\ Called(history') = Called(history) \cup Called(<<m>>)
        /\ Answered(history') = Answered(history) \cup Answered(<<m>>)
      BY <2>1, HistoryFacts, ConcatIds
  <2> QED BY <2>2, <2>3, Zenon
<1>12. Answered(history) \cap Ids(m) = {} /\ torn \cap Ids(m) = {}
  <2>1. Answered(history) \subseteq 1..n
    <3> SUFFICES ASSUME NEW x \in Answered(history) PROVE x \in 1..n
        OBVIOUS
    <3>1. PICK i \in DOMAIN history : x \in Ids(history[i])
        BY CalledBy
    <3> QED BY <3>1, HistoryFacts DEF Protocol, n
  <2>2. torn \subseteq 1..n
      BY DEF LoopInv, MessageInv, n
  <2>3. \A x \in 1..n : x \notin (n + 1)..k
      BY <1>4
  <2> QED BY <1>7, <2>1, <2>2, <2>3
<1>13. Unanswered(history', torn' \cup BatchIds')
  <2>1. Unanswered(history, torn)
      BY <1>3, HistoryFacts
  <2> QED BY <1>2, <1>8, <1>11, <1>12, <2>1 DEF Unanswered
<1>14. 1..n \subseteq 1..k
    BY <1>4
<1>15. MessageInv'
    BY <1>2, <1>4, <1>10, <1>14 DEF LoopInv, MessageInv, n
<1>16. history'[Len(history')] = m
    BY <1>1, <1>2, HistoryFacts, SeqAppend
<1>17. OpenInv'
    BY <1>2, <1>5, <1>8, <1>9, <1>12, <1>13, <1>16 DEF OpenInv
<1> QED BY <1>15, <1>17

\* The batch is over with its first results: all, or those before an exception.
LEMMA ResultsStep ==
    ASSUME LoopInv, batch # <<>>, NEW told, NEW first \in 0..Len(batch),
           \/ history' = history \o Observations(told, first) \o <<System>>
           \/ history' = history \o Observations(told, first) \o <<>>,
           batch' = <<>>, nextId' = nextId,
           torn' = torn \cup Left(first), split' = split \cup Parted(told)
    PROVE  MessageInv' /\ OpenInv'
<1> DEFINE obs == Observations(told, first)
           looked == Speaking(told)
           one == history \o obs
           n == nextId - 1
<1>1. Observed(obs, first, looked) /\ obs \in Seq(LoopMessages) /\ looked \in SUBSET DOMAIN batch
    BY ObservationsType
<1>2. /\ history[Len(history)].role = "assistant" /\ Ids(history[Len(history)]) = BatchIds
      /\ \A i, j \in DOMAIN batch : i < j => batch[i].id < batch[j].id
      /\ torn \cap BatchIds = {}
    BY DEF LoopInv, OpenInv
<1>3. history' \in {one \o <<System>>, one \o <<>>} /\ split' = split \cup LoopParts(looked)
    BY PartedIds
<1> HIDE DEF obs, looked
\* The batch is its calls with and without a result.
<1>4. BatchIds = Ran(first) \cup Left(first) /\ Ran(first) \cap Left(first) = {}
  <2>1. /\ DOMAIN batch = 1..Len(batch) /\ Len(batch) \in Nat
        /\ \A i \in DOMAIN batch : batch[i].id \in Nat
      BY HistoryFacts, ResultMessage, SeqElement
  <2>2. BatchIds = Ran(first) \cup Left(first)
    <3>1. \A i \in DOMAIN batch : i \in 1..first \/ i > first
        BY <2>1
    <3>2. 1..first \subseteq DOMAIN batch
        BY <2>1
    <3> QED BY <3>1, <3>2, Zenon DEF BatchIds, Ran, Left
  <2>3. ASSUME NEW x \in Ran(first), x \in Left(first) PROVE FALSE
    <3>1. PICK i \in 1..first : x = batch[i].id
        BY DEF Ran
    <3>2. PICK j \in DOMAIN batch : j > first /\ x = batch[j].id
        BY <2>3 DEF Left
    <3>3. i \in DOMAIN batch /\ i < j
        BY <2>1, <3>2
    <3>4. batch[i].id < batch[j].id /\ batch[i].id \in Nat
        BY <1>2, <2>1, <3>2, <3>3
    <3>5. x < x /\ x \in Nat
        BY <3>1, <3>2, <3>4
    <3> QED BY <3>5
  <2> QED BY <2>2, <2>3
<1>5. /\ Protocol(one, n, split \cup LoopParts(looked))
      /\ Called(obs) = {} /\ Answered(obs) = Ran(first)
      /\ LoopParts(looked) \subseteq BatchIds
  <2>1. Protocol(history, n, split) /\ n \in Nat /\ history \in Seq(LoopMessages) /\ batch \in Seq(LoopCalls)
      BY HistoryFacts
  <2> HIDE DEF n, one
  <2> QED BY <1>1, <1>2, <2>1, ProtocolResults DEF one
<1>6. Called(one) = Called(history) /\ Answered(one) = Answered(history) \cup Ran(first)
  <2>1. /\ Called(one) = Called(history) \cup Called(obs)
        /\ Answered(one) = Answered(history) \cup Answered(obs)
      BY <1>1, HistoryFacts, ConcatIds
  <2> QED BY <1>5, <2>1, Zenon
<1>7. one \in Seq(LoopMessages)
    BY <1>1, HistoryFacts, ConcatElement
<1> HIDE DEF one
<1>8. Unanswered(one, torn')
    BY <1>2, <1>4, <1>6, HistoryFacts DEF Unanswered
<1>9. history' = one \/ history' = Append(one, System)
  <2>1. one \o <<>> = one /\ one \o <<System>> = Append(one, System)
      BY <1>7, SystemMessage
  <2> QED BY <1>3, <2>1
<1>10. Protocol(history', n, split \cup LoopParts(looked)) /\ Unanswered(history', torn')
  <2>1. n <= n /\ n \in Nat
      BY HistoryFacts
  <2>2. Protocol(Append(one, System), n, split \cup LoopParts(looked))
      BY <1>5, <1>7, <2>1, Silent, SystemMessage, ProtocolAppend
  <2>3. Unanswered(Append(one, System), torn')
      BY <1>7, <1>8, Silent, SystemMessage, OpenAppend
  <2> QED BY <1>5, <1>8, <1>9, <2>2, <2>3
<1>11. BatchIds' = {} /\ batch' = <<>>
    BY DEF BatchIds
<1>12. BatchIds \subseteq 1..n
    BY OpenCalls
<1>13. MessageInv'
    BY <1>3, <1>4, <1>5, <1>10, <1>12 DEF LoopInv, MessageInv, n
<1>14. OpenInv'
    BY <1>10, <1>11 DEF OpenInv
<1> QED BY <1>13, <1>14

LEMMA EndStep ==
    ASSUME LoopInv, AnyEnd \/ AnyBreak
    PROVE  MessageInv' /\ OpenInv'
<1>1. batch # <<>> /\ Len(batch) \in 0..Len(batch) /\ DOMAIN batch = 1..Len(batch)
  <2>1. pc = "run"
      BY EndBatchStep, BreakOffStep DEF AnyEnd, AnyBreak
  <2> QED BY <2>1 DEF LoopInv, LoopTypeInv, LoopPlaceInv
<1>2. ASSUME NEW results, NEW told, EndBatch(results, told) PROVE MessageInv' /\ OpenInv'
  <2>1. Left(Len(batch)) = {}
      BY <1>1 DEF Left
  <2>2. torn' = torn \cup Left(Len(batch))
    <3>1. torn' = torn
        BY <1>2, EndBatchStep
    <3> QED BY <2>1, <3>1
  <2> QED BY <1>1, <1>2, <2>2, EndBatchStep, ResultsStep
<1>3. ASSUME NEW told, NEW n, BreakOff(told, n) PROVE MessageInv' /\ OpenInv'
  <2>1. n \in 0..Len(batch) /\ torn' = torn \cup Left(n) /\ nextId' = nextId
      BY <1>1, <1>3, BreakOffStep DEF Left, session
  <2> QED BY <1>1, <1>3, <2>1, BreakOffStep, ResultsStep
<1> QED BY <1>2, <1>3 DEF AnyEnd, AnyBreak

LEMMA ClearStep ==
    ASSUME LoopInv, Clear
    PROVE  MessageInv' /\ OpenInv'
<1>1. /\ pc = "idle" /\ history' = SubSeq(history, 1, 1) /\ torn' = {} /\ split' = {}
      /\ batch' = batch /\ nextId' = nextId
    BY DEF Clear, session
<1>2. batch = <<>> /\ BatchIds' = {}
    BY <1>1 DEF LoopInv, LoopPlaceInv, BatchIds
<1>3. Len(history) >= 1 /\ history \in Seq(LoopMessages) /\ history[1].role = "system"
      /\ Carries(history[1]) /\ 1 \in DOMAIN history
    BY HistoryFacts DEF Protocol
<1>4. Len(history') = 1 /\ history'[1] = history[1] /\ DOMAIN history' = {1}
    BY <1>1, <1>3
<1>5. Ids(history[1]) = {}
    BY <1>3 DEF Carries, Ids
<1>6. Protocol(history', nextId - 1, {})
    BY <1>3, <1>4, <1>5 DEF Protocol, Orders, Encloses
<1>7. Called(history') = {} /\ Answered(history') = {}
    BY <1>3, <1>4, <1>5, CalledBy
<1>8. Unanswered(history', {})
    BY <1>7 DEF Unanswered
<1> QED BY <1>1, <1>2, <1>6, <1>8 DEF MessageInv, OpenInv

LEMMA HistoryStep ==
    ASSUME LoopInv, Next
    PROVE  MessageInv' /\ OpenInv'
<1> USE DEF session, call, edits, pairs
<1>1. batch # <<>> => pc \in {"tools", "run", "asks"}
    BY DEF LoopInv, LoopPlaceInv
<1>2. CASE Top \/ AskSummary \/ Cancel \/ Deadline \/ Block \/ Unblock
  <2>1. UNCHANGED <<history, batch, nextId, torn, split>>
      BY <1>2 DEF Top, AskSummary, Cancel, Deadline, Block, Unblock
  <2> QED BY <2>1, QuietStep DEF LoopQuiet
<1>3. CASE Prepare \/ Attempt \/ \E retryable \in BOOLEAN : AttemptFails(retryable)
  <2>1. pc \notin {"tools", "run", "asks"} /\ UNCHANGED <<batch, nextId, torn, split>>
      BY <1>3 DEF Prepare, Attempt, AttemptFails
  <2>2. LoopQuiet
      BY <1>3, GiveUpPlace DEF Prepare, Attempt, AttemptFails, Raise, LoopQuiet
  <2> QED BY <1>1, <2>1, <2>2, QuietStep
<1>4. ASSUME NEW cost \in Costs, SummaryAnswered(cost) \/ AnswerDropped(cost) \/ AcceptText(cost)
      PROVE  MessageInv' /\ OpenInv'
  <2>1. pc \notin {"tools", "run", "asks"} /\ UNCHANGED <<batch, nextId, torn, split>>
      BY <1>4 DEF SummaryAnswered, AnswerDropped, AcceptText, Arrives
  <2>2. LoopQuiet
      BY <1>4, GiveUpPlace DEF SummaryAnswered, AnswerDropped, AcceptText, Raise, LoopQuiet
  <2> QED BY <1>1, <2>1, <2>2, QuietStep
<1>5. ASSUME NEW cost \in Costs, NEW text \in {"blank", "answer"}, RejectText(cost, text)
      PROVE  MessageInv' /\ OpenInv'
    BY <1>1, <1>5, RejectStep DEF RejectText, Arrives
<1>6. ASSUME NEW cost \in Costs, NEW tools \in Batches, AskTools(cost, tools)
      PROVE  MessageInv' /\ OpenInv'
    BY <1>6, AskStep
<1>7. CASE StartBatch
  <2>1. nextId' = nextId /\ split' = split
      BY <1>7 DEF StartBatch
  <2>2. CASE Tear("run_budget")
      BY <2>1, <2>2, TearStep
  <2>3. CASE UNCHANGED <<history, torn, batch>>
      BY <2>1, <2>3, QuietStep DEF LoopQuiet
  <2> QED BY <1>7, <2>2, <2>3 DEF StartBatch
<1>8. CASE BatchTorn
    BY <1>8, TearStep DEF BatchTorn
<1>9. CASE AnyEnd \/ AnyBreak
    BY <1>9, EndStep
<1>10. CASE Submit
    BY <1>1, <1>10, QuietStep DEF Submit, LoopQuiet
<1>11. CASE Clear
    BY <1>11, ClearStep
<1> QED BY <1>2, <1>3, <1>4, <1>5, <1>6, <1>7, <1>8, <1>9, <1>10, <1>11, NextCases
      DEF AnyCall, AnyAnswer
-----------------------------------------------------------------------------
(* What is sent of the history *)

LEMMA LeadingSystemType ==
    ASSUME NEW h \in Seq(LoopMessages)
    PROVE  /\ LeadingSystem(h) \in 0..Len(h)
           /\ \A i \in 1..LeadingSystem(h) : h[i].role = "system"
<1> DEFINE Leads(n) == /\ \A i \in 1..n : h[i].role = "system"
                       /\ n < Len(h) => h[n + 1].role # "system"
           T == {n \in 0..Len(h) : n < Len(h) => h[n + 1].role # "system"}
<1>1. Len(h) \in Nat
    OBVIOUS
<1>2. Len(h) \in T /\ T \in SUBSET Nat
    BY <1>1
<1>3. PICK n \in T : \A y \in T : n <= y
    BY <1>2, LeastNatural
<1>4. ASSUME NEW i \in 1..n PROVE h[i].role = "system"
  <2>1. i - 1 \in 0..Len(h) /\ i - 1 < Len(h) /\ (i - 1) + 1 = i /\ ~(n <= i - 1)
      BY <1>1, <1>3
  <2>2. i - 1 \notin T
      BY <1>3, <2>1
  <2> QED BY <2>1, <2>2
<1>5. n \in 0..Len(h) /\ Leads(n)
    BY <1>3, <1>4
<1>6. LeadingSystem(h) = CHOOSE k \in 0..Len(h) : Leads(k)
    BY DEF LeadingSystem
<1> HIDE DEF Leads
<1>7. LeadingSystem(h) \in 0..Len(h) /\ Leads(LeadingSystem(h))
    BY <1>5, <1>6
<1> QED BY <1>7 DEF Leads

\* The suffix that is kept does not start with a result.
LEMMA SplitStart ==
    ASSUME NEW h \in Seq(LoopMessages), SplitIndex(h) > LeadingSystem(h)
    PROVE  SplitIndex(h) + 1 \in 1..Len(h) /\ h[SplitIndex(h) + 1].role # "tool"
<1> DEFINE s == SplitIndex(h)
           lead == LeadingSystem(h)
           candidate == Len(h) - MinTail
           starts == {c \in candidate..(Len(h) - 1) : h[c + 1].role # "tool"}
<1>1. Len(h) \in Nat /\ lead \in 0..Len(h) /\ MinTail \in Nat \ {0} /\ RetainRounds \in Nat \ {0}
    BY LeadingSystemType, Constants
<1>2. CASE Cardinality(Users(h)) > RetainRounds
  <2> DEFINE Tailed(u) == Cardinality({v \in Users(h) : v >= u}) = RetainRounds
  <2>1. Users(h) \in SUBSET (0..Len(h)) /\ Cardinality(Users(h)) \in Nat
    <3>1. Users(h) \in SUBSET (0..Len(h))
        BY <1>1 DEF Users
    <3>2. IsFiniteSet(0..Len(h))
        BY <1>1, FS_Interval
    <3> QED BY <3>1, <3>2, FS_Subset, FS_CardinalityType
  <2>2. \E u \in Users(h) : Tailed(u)
    <3>1. RetainRounds <= Cardinality(Users(h)) /\ Len(h) \in Nat /\ RetainRounds \in Nat \ {0}
        BY <1>1, <1>2, <2>1
    <3> QED BY <2>1, <3>1, LargestOnes, Zenon
  <2> DEFINE u == CHOOSE u \in Users(h) : Tailed(u)
  <2>3. u \in Users(h)
      BY <2>2
  <2>4. s = u - 1
      BY <1>2 DEF SplitIndex
  <2>5. u \in 1..Len(h) /\ h[u].role = "user"
      BY <2>3 DEF Users
  <2> HIDE DEF u
  <2>6. s + 1 = u
      BY <2>4, <2>5
  <2> QED BY <2>5, <2>6
<1>3. CASE ~(Cardinality(Users(h)) > RetainRounds)
  <2>1. s = IF Len(h) <= MinTail + lead \/ starts = {} THEN 0
            ELSE CHOOSE c \in starts : \A d \in starts : c <= d
      BY <1>3 DEF SplitIndex
  <2>2. s # 0
      BY <1>1
  <2>3. ~(Len(h) <= MinTail + lead) /\ starts # {}
        /\ s = CHOOSE c \in starts : \A d \in starts : c <= d
      BY <2>1, <2>2
  <2>4. starts \in SUBSET Nat
      BY <1>1, <2>3
  <2>5. s \in starts
    <3> HIDE DEF starts
    <3>1. \E c \in starts : \A d \in starts : c <= d
        BY <2>3, <2>4, LeastNatural
    <3> QED BY <2>3, <3>1
  <2>6. s \in candidate..(Len(h) - 1) /\ h[s + 1].role # "tool" /\ s \in Nat
      BY <2>4, <2>5
  <2> QED BY <1>1, <2>6
<1> QED BY <1>2, <1>3

\* The ids of a segment
LEMMA SegmentIds ==
    ASSUME NEW h \in Seq(LoopMessages), NEW a \in Nat \ {0}, NEW b \in Nat, b <= Len(h), a <= b + 1,
           NEW x
    PROVE  /\ SubSeq(h, a, b) \in Seq(LoopMessages)
           /\ x \in Called(SubSeq(h, a, b)) <=>
                \E i \in a..b : h[i].role = "assistant" /\ x \in Ids(h[i])
           /\ x \in Answered(SubSeq(h, a, b)) <=>
                \E i \in a..b : h[i].role = "tool" /\ x \in Ids(h[i])
<1> DEFINE g == SubSeq(h, a, b)
<1>1. /\ g \in Seq(LoopMessages) /\ DOMAIN g = 1..(b - a + 1)
      /\ \A i \in 1..(b - a + 1) : g[i] = h[a + i - 1]
    BY SubSeqElement
<1> HIDE DEF g
<1>2. \A i \in 1..(b - a + 1) : a + i - 1 \in a..b
    OBVIOUS
<1>3. \A k \in a..b : k - a + 1 \in 1..(b - a + 1) /\ g[k - a + 1] = h[k]
  <2> TAKE k \in a..b
  <2>1. k - a + 1 \in 1..(b - a + 1) /\ a + (k - a + 1) - 1 = k
      OBVIOUS
  <2> QED BY <1>1, <2>1
<1>4. ASSUME NEW role PROVE
        (\E i \in DOMAIN g : g[i].role = role /\ x \in Ids(g[i]))
        <=> (\E i \in a..b : h[i].role = role /\ x \in Ids(h[i]))
  <2>1. ASSUME NEW i \in DOMAIN g, g[i].role = role, x \in Ids(g[i])
        PROVE  \E k \in a..b : h[k].role = role /\ x \in Ids(h[k])
    <3>1. a + i - 1 \in a..b /\ g[i] = h[a + i - 1]
        BY <1>1, <1>2
    <3> QED BY <2>1, <3>1
  <2>2. ASSUME NEW k \in a..b, h[k].role = role, x \in Ids(h[k])
        PROVE  \E i \in DOMAIN g : g[i].role = role /\ x \in Ids(g[i])
    <3>1. k - a + 1 \in DOMAIN g /\ g[k - a + 1] = h[k]
        BY <1>1, <1>3
    <3> QED BY <2>2, <3>1
  <2> QED BY <2>1, <2>2
<1> QED BY <1>1, <1>4, CalledBy DEF g

\* A system message put between two segments carries no ids.
LEMMA InsertIds ==
    ASSUME NEW f \in Seq(LoopMessages), NEW g \in Seq(LoopMessages)
    PROVE  /\ f \o <<System>> \o g \in Seq(LoopMessages)
           /\ Called(f \o <<System>> \o g) = Called(f) \cup Called(g)
           /\ Answered(f \o <<System>> \o g) = Answered(f) \cup Answered(g)
<1>1. <<System>> \in Seq(LoopMessages)
    BY SystemMessage
<1>2. Called(<<System>>) = {} /\ Answered(<<System>>) = {}
    BY OneIds, SystemMessage
<1>3. /\ f \o <<System>> \in Seq(LoopMessages)
      /\ Called(f \o <<System>>) = Called(f) \cup Called(<<System>>)
      /\ Answered(f \o <<System>>) = Answered(f) \cup Answered(<<System>>)
  <2>1. f \o <<System>> \in Seq(LoopMessages)
      BY <1>1, ConcatElement
  <2> QED BY <1>1, <2>1, ConcatIds
<1>4. /\ f \o <<System>> \o g \in Seq(LoopMessages)
      /\ Called(f \o <<System>> \o g) = Called(f \o <<System>>) \cup Called(g)
      /\ Answered(f \o <<System>> \o g) = Answered(f \o <<System>>) \cup Answered(g)
  <2>1. f \o <<System>> \o g \in Seq(LoopMessages)
      BY <1>3, ConcatElement
  <2> QED BY <1>3, <2>1, ConcatIds
<1> QED BY <1>2, <1>3, <1>4, Zenon

LEMMA CompactedPairs ==
    ASSUME NEW h \in Seq(LoopMessages), NEW n, NEW parted, NEW ids,
           Protocol(h, n, parted), Unanswered(h, ids)
    PROVE  /\ Compacted(h) \in Seq(LoopMessages)
           /\ Answered(Compacted(h)) \ Called(Compacted(h)) \subseteq parted
           /\ Called(Compacted(h)) \ Answered(Compacted(h)) \subseteq ids
<1> DEFINE c == Compacted(h)
           s == SplitIndex(h)
           lead == LeadingSystem(h)
           kept == SubSeq(h, s + 1, Len(h))
           front == SubSeq(h, 1, lead)
<1>1. CASE ~Compacts(h)
  <2>1. c = h
      BY <1>1 DEF Compacted
  <2> QED BY <2>1 DEF Unanswered
<1>2. CASE Compacts(h)
  <2>1. s > lead /\ c = front \o <<System>> \o kept
      BY <1>2 DEF Compacts, Compacted
  <2>2. /\ Len(h) \in Nat /\ DOMAIN h = 1..Len(h) /\ lead \in 0..Len(h)
        /\ \A i \in 1..lead : h[i].role = "system"
      BY LeadingSystemType
  <2>3. s + 1 \in 1..Len(h) /\ h[s + 1].role # "tool"
      BY <2>1, SplitStart
  <2> HIDE DEF s, lead
  <2>4. /\ kept \in Seq(LoopMessages)
        /\ \A x : x \in Called(kept) <=>
                \E i \in (s + 1)..Len(h) : h[i].role = "assistant" /\ x \in Ids(h[i])
        /\ \A x : x \in Answered(kept) <=>
                \E i \in (s + 1)..Len(h) : h[i].role = "tool" /\ x \in Ids(h[i])
      BY <2>2, <2>3, SegmentIds
  <2>5. /\ front \in Seq(LoopMessages)
        /\ \A x : x \in Called(front) <=>
                \E i \in 1..lead : h[i].role = "assistant" /\ x \in Ids(h[i])
        /\ \A x : x \in Answered(front) <=>
                \E i \in 1..lead : h[i].role = "tool" /\ x \in Ids(h[i])
    <3>1. 1 \in Nat \ {0} /\ lead \in Nat /\ lead <= Len(h) /\ 1 <= lead + 1
        BY <2>2
    <3> QED BY <3>1, SegmentIds
  <2>6. Called(front) = {} /\ Answered(front) = {}
      BY <2>2, <2>5
  <2> HIDE DEF kept, front
  <2>7. c \in Seq(LoopMessages) /\ Called(c) = Called(kept) /\ Answered(c) = Answered(kept)
    <3>1. /\ c \in Seq(LoopMessages) /\ Called(c) = Called(front) \cup Called(kept)
          /\ Answered(c) = Answered(front) \cup Answered(kept)
        BY <2>1, <2>4, <2>5, InsertIds
    <3> QED BY <2>6, <3>1, Zenon
  <2> HIDE DEF c
  <2>8. ASSUME NEW x, x \in Answered(kept), x \notin Called(kept) PROVE x \in parted
    <3>1. PICK j \in (s + 1)..Len(h) : h[j].role = "tool" /\ x \in Ids(h[j])
        BY <2>4, <2>8
    <3>2. j \in DOMAIN h /\ s + 1 \in DOMAIN h /\ s + 1 < j
        BY <2>2, <2>3, <3>1
    <3>3. x \in Called(h)
        BY <3>1, <3>2, CalledBy DEF Unanswered
    <3>4. PICK i \in DOMAIN h : h[i].role = "assistant" /\ x \in Ids(h[i])
        BY <3>3, CalledBy
    <3>5. ~(i \in (s + 1)..Len(h))
        BY <2>4, <2>8, <3>4
    <3>6. i < s + 1
        BY <2>2, <2>3, <3>4, <3>5
    <3> QED BY <2>3, <3>1, <3>2, <3>4, <3>6 DEF Protocol, Encloses
  <2>9. ASSUME NEW x, x \in Called(kept), x \notin Answered(kept) PROVE x \in ids
    <3>1. PICK i \in (s + 1)..Len(h) : h[i].role = "assistant" /\ x \in Ids(h[i])
        BY <2>4, <2>9
    <3>2. i \in DOMAIN h
        BY <2>2, <2>3
    <3>3. x \in Called(h)
        BY <3>1, <3>2, CalledBy
    <3>4. x \notin Answered(h)
      <4> SUFFICES ASSUME x \in Answered(h) PROVE FALSE
          OBVIOUS
      <4>1. PICK j \in DOMAIN h : h[j].role = "tool" /\ x \in Ids(h[j])
          BY CalledBy
      <4>2. ~(j \in (s + 1)..Len(h))
          BY <2>4, <2>9, <4>1
      <4>3. j < i
          BY <2>2, <2>3, <4>1, <4>2
      <4>4. x < x /\ x \in Nat
        <5>1. h[j] \in LoopMessages
            BY <4>1, SeqElement
        <5> QED BY <3>1, <3>2, <4>1, <4>3, <5>1, MessageIds DEF Protocol, Orders
      <4> QED BY <4>4
    <3> QED BY <3>3, <3>4 DEF Unanswered
  <2> QED BY <2>7, <2>8, <2>9 DEF c
<1> QED BY <1>1, <1>2

LEMMA PreparedPairs ==
    ASSUME NEW h \in Seq(LoopMessages), NEW n, NEW parted, NEW ids,
           Protocol(h, n, parted), Unanswered(h, ids)
    PROVE  /\ Answered(Prepared(h)) \ Called(Prepared(h)) \subseteq parted
           /\ Called(Prepared(h)) \ Answered(Prepared(h)) \subseteq ids
<1> DEFINE c == Compacted(h)
           k == LeadingSystem(c)
           front == SubSeq(c, 1, k)
           others == SubSeq(c, k + 1, Len(c))
<1>1. /\ c \in Seq(LoopMessages)
      /\ Answered(c) \ Called(c) \subseteq parted /\ Called(c) \ Answered(c) \subseteq ids
    BY CompactedPairs
<1>2. Prepared(h) = front \o <<System>> \o others
    BY DEF Prepared
<1> HIDE DEF c
<1>3. Len(c) \in Nat /\ DOMAIN c = 1..Len(c) /\ k \in 0..Len(c)
    BY <1>1, LeadingSystemType
<1> HIDE DEF k
<1>4. /\ front \in Seq(LoopMessages)
      /\ \A x : x \in Called(front) <=>
                \E i \in 1..k : c[i].role = "assistant" /\ x \in Ids(c[i])
      /\ \A x : x \in Answered(front) <=>
                \E i \in 1..k : c[i].role = "tool" /\ x \in Ids(c[i])
  <2>1. 1 \in Nat \ {0} /\ k \in Nat /\ k <= Len(c) /\ 1 <= k + 1
      BY <1>3
  <2> QED BY <1>1, <2>1, SegmentIds
<1>5. /\ others \in Seq(LoopMessages)
      /\ \A x : x \in Called(others) <=>
                \E i \in (k + 1)..Len(c) : c[i].role = "assistant" /\ x \in Ids(c[i])
      /\ \A x : x \in Answered(others) <=>
                \E i \in (k + 1)..Len(c) : c[i].role = "tool" /\ x \in Ids(c[i])
  <2>1. k + 1 \in Nat \ {0} /\ Len(c) <= Len(c) /\ k + 1 <= Len(c) + 1
      BY <1>3
  <2> QED BY <1>1, <1>3, <2>1, SegmentIds
<1> HIDE DEF front, others
<1>6. \A i \in 1..Len(c) : i \in 1..k \/ i \in (k + 1)..Len(c)
    BY <1>3
<1>7. 1..k \subseteq 1..Len(c) /\ (k + 1)..Len(c) \subseteq 1..Len(c)
    BY <1>3
<1>8. Called(front) \cup Called(others) = Called(c)
  <2>1. ASSUME NEW x PROVE x \in Called(front) \cup Called(others) <=> x \in Called(c)
      BY <1>3, <1>4, <1>5, <1>6, <1>7, CalledBy
  <2> QED BY <2>1
<1>9. Answered(front) \cup Answered(others) = Answered(c)
  <2>1. ASSUME NEW x PROVE x \in Answered(front) \cup Answered(others) <=> x \in Answered(c)
      BY <1>3, <1>4, <1>5, <1>6, <1>7, CalledBy
  <2> QED BY <2>1
<1>10. Called(Prepared(h)) = Called(c) /\ Answered(Prepared(h)) = Answered(c)
    BY <1>2, <1>4, <1>5, <1>8, <1>9, InsertIds
<1> QED BY <1>1, <1>10

LEMMA SentStep ==
    ASSUME LoopInv, Next
    PROVE  SentPairs'
<1> USE DEF session, call, edits, pairs
<1>1. CASE sent' = <<>>
  <2>1. Called(sent') = {} /\ Answered(sent') = {}
      BY <1>1 DEF Called, Answered
  <2> QED BY <2>1 DEF SentPairs
<1>2. CASE UNCHANGED <<sent, torn, split>>
    BY <1>2 DEF LoopInv, SentPairs
<1>3. CASE Prepare
  <2>1. CASE sent' = Prepared(history)
    <3>1. batch = <<>> /\ torn' = torn /\ split' = split
        BY <1>3 DEF Prepare, LoopInv, LoopPlaceInv
    <3>2. torn \cup BatchIds = torn
        BY <3>1 DEF BatchIds
    <3>3. /\ Answered(Prepared(history)) \ Called(Prepared(history)) \subseteq split
          /\ Called(Prepared(history)) \ Answered(Prepared(history)) \subseteq torn
        BY <3>2, HistoryFacts, PreparedPairs
    <3> QED BY <2>1, <3>1, <3>3 DEF SentPairs
  <2>2. CASE sent' = sent
      BY <1>2, <1>3, <2>2 DEF Prepare
  <2> QED BY <1>3, <2>1, <2>2 DEF Prepare
<1>4. CASE AnyCall /\ ~Prepare
  <2>1. UNCHANGED <<torn, split>> /\ (sent' = <<>> \/ sent' = sent)
      BY <1>4, GiveUpPlace
      DEF AnyCall, Top, AskSummary, Attempt, AttemptFails, SummaryAnswered, AnswerDropped, LeaveCall
  <2> QED BY <1>1, <1>2, <2>1
<1>5. CASE AnyAnswer
  <2>1. sent' = <<>>
      BY <1>5 DEF AnyAnswer, AcceptText, RejectText, AskTools, Arrives, LeaveCall
  <2> QED BY <1>1, <2>1
<1>6. CASE StartBatch \/ BatchTorn \/ AnyEnd \/ AnyBreak \/ Submit \/ Clear
  <2>1. pc \notin {"call", "wait"} /\ sent' = sent
      BY <1>6, EndBatchStep, BreakOffStep DEF StartBatch, BatchTorn, AnyEnd, AnyBreak, Submit, Clear
  <2>2. sent' = <<>>
      BY <2>1 DEF LoopInv, LoopPlaceInv
  <2> QED BY <1>1, <2>2
<1>7. CASE Cancel \/ Deadline \/ Block \/ Unblock
    BY <1>2, <1>7 DEF Cancel, Deadline, Block, Unblock
<1> QED BY <1>3, <1>4, <1>5, <1>6, <1>7, NextCases

-----------------------------------------------------------------------------
(* The invariant holds *)

LEMMA LoopInit == Init => LoopInv
<1> SUFFICES ASSUME Init PROVE LoopInv
    OBVIOUS
<1>1. LoopTypeInv
    BY TypeInit
<1>2. LoopPlaceInv /\ CancelInv /\ ReportInv
    BY Constants DEF Init, LoopPlaceInv, CancelInv, ReportInv
<1>3. StreakInv
  <2>1. budget.window = <<>> /\ streak = 0 /\ pc = "idle" /\ outcome = "none"
      BY DEF Init, FreshBudget
  <2> QED BY <2>1, Constants DEF StreakInv, Streaks
<1>4. history = <<System>> /\ DOMAIN history = {1} /\ history[1] = System
    BY DEF Init
<1>5. Called(history) = {} /\ Answered(history) = {}
    BY <1>4, CalledBy, SystemMessage
<1>6. MessageInv
  <2>1. Len(history) = 1
      BY <1>4
  <2>2. Protocol(history, nextId - 1, split)
      BY <1>4, <2>1, Silent, SystemMessage DEF Protocol, Orders, Encloses
  <2> QED BY <2>2 DEF Init, MessageInv
<1>7. OpenInv
    BY <1>5 DEF Init, OpenInv, Unanswered, BatchIds
<1>8. SentPairs
  <2>1. Called(sent) = {} /\ Answered(sent) = {}
      BY DEF Init, Called, Answered
  <2> QED BY <2>1 DEF SentPairs
<1> QED BY <1>1, <1>2, <1>3, <1>6, <1>7, <1>8 DEF LoopInv

LEMMA LoopStutter ==
    ASSUME LoopInv, UNCHANGED vars
    PROVE  LoopInv'
<1> USE DEF vars
<1>1. LoopTypeInv' /\ LoopPlaceInv' /\ StreakInv' /\ CancelInv' /\ ReportInv'
  <2>1. LoopTypeInv'
      BY DEF LoopInv, LoopTypeInv
  <2>2. LoopPlaceInv' /\ StreakInv' /\ ReportInv'
      BY DEF LoopInv, LoopPlaceInv, StreakInv, ReportInv
  <2>3. CancelInv'
      BY DEF LoopInv, CancelInv
  <2> QED BY <2>1, <2>2, <2>3
<1>2. MessageInv' /\ OpenInv'
    BY QuietStep DEF LoopQuiet
<1>3. SentPairs'
    BY DEF LoopInv, SentPairs
<1> QED BY <1>1, <1>2, <1>3 DEF LoopInv

LEMMA LoopStep == LoopInv /\ [Next]_vars => LoopInv'
<1>1. ASSUME LoopInv, Next PROVE LoopInv'
  <2>1. LoopTypeInv' /\ LoopPlaceInv' /\ StreakInv'
      BY <1>1, TypeStep, PlaceStep, StreakStep
  <2>2. CancelInv' /\ ReportInv' /\ SentPairs'
      BY <1>1, CancelStep, ReportStep, SentStep
  <2>3. MessageInv' /\ OpenInv'
      BY <1>1, HistoryStep
  <2> QED BY <2>1, <2>2, <2>3 DEF LoopInv
<1> QED BY <1>1, LoopStutter

\* The inductive invariant of the ReAct loop (agents/loop.py), which every theorem
\* about it below follows from.
THEOREM LoopInvariant == Spec => []LoopInv
BY LoopInit, LoopStep, PTL DEF Spec

-----------------------------------------------------------------------------
(* What the runs check, for every value of the constants *)

\* The variables of the loop (agents/loop.py), its budget (agents/budget.py) and
\* the retrying client (llm_client.py) stay in their ranges, whatever the limits.
THEOREM LoopTypes == Spec => []TypeOK
<1>1. LoopInv => TypeOK
  <2> SUFFICES ASSUME LoopInv PROVE TypeOK
      OBVIOUS
  <2>1. \A i \in DOMAIN history : history[i].role \in {"system", "user", "assistant", "tool"}
    <3> TAKE i \in DOMAIN history
    <3>1. history[i] \in LoopMessages
        BY HistoryFacts, SeqElement
    <3> QED BY <3>1 DEF LoopMessages, Roles
  <2>2. torn \cup split \cup BatchIds \subseteq 1..nextId
    <3>1. torn \subseteq 1..(nextId - 1) /\ split \subseteq 1..(nextId - 1)
        BY DEF LoopInv, MessageInv
    <3>2. BatchIds \subseteq 1..(nextId - 1)
        BY OpenCalls
    <3>3. 1..(nextId - 1) \subseteq 1..nextId
        BY HistoryFacts
    <3> QED BY <3>1, <3>2, <3>3
  <2> QED BY <2>1, <2>2, BudgetType DEF LoopInv, LoopTypeInv, TypeOK, Outcomes
<1> QED BY <1>1, LoopInvariant, PTL

\* The history the next prompt is sent with answers every tool call once, in
\* call order, but those of the batch at work and those that an exception left
\* without a result (agents/loop.py, agent.py), after every sequence of prompts, answers,
\* cancellations, deadlines and failures.
THEOREM LoopBatchAnswered == Spec => []BatchAnswered
<1>1. LoopInv => BatchAnswered
  <2> SUFFICES ASSUME LoopInv PROVE BatchAnswered
      OBVIOUS
  <2>1. /\ Orders(history) /\ Unanswered(history, torn \cup BatchIds)
        /\ \A i \in DOMAIN history : history[i] \in LoopMessages /\ Carries(history[i])
        /\ \A i \in DOMAIN history : i \in Nat
      BY HistoryFacts, SeqElement DEF Protocol
  <2>2. ASSUME NEW i \in DOMAIN history, history[i].role = "tool"
        PROVE  Ids(history[i]) = {history[i].ids[1]} /\ history[i].ids[1] \in Nat
      BY <2>1, <2>2, MessageIds DEF Carries
  <2>3. ASSUME NEW i \in DOMAIN history, NEW j \in DOMAIN history, i < j,
               history[i].role = "tool", history[j].role = "tool"
        PROVE  history[i].ids[1] < history[j].ids[1]
      BY <2>1, <2>2, <2>3 DEF Orders
  <2>4. ASSUME NEW i \in DOMAIN history, NEW j \in DOMAIN history,
               history[i].role = "tool", history[j].role = "assistant",
               Ids(history[i]) \subseteq Ids(history[j])
        PROVE  j < i
    <3> DEFINE x == history[i].ids[1]
    <3>1. x \in Ids(history[i]) /\ x \in Ids(history[j]) /\ x \in Nat
        BY <2>2, <2>4
    <3> HIDE DEF x
    <3>2. ~(i < j)
        BY <2>1, <2>4, <3>1 DEF Orders
    <3>3. i # j
        BY <2>4
    <3> QED BY <2>1, <3>2, <3>3
  <2> QED BY <2>1, <2>3, <2>4 DEF BatchAnswered, Unanswered
<1> QED BY <1>1, LoopInvariant, PTL

\* Whatever compaction leaves out and injection puts in (memory.py, context.py),
\* what goes to the provider has a result with its call and a call with its result.
\* The exceptions are the calls an exception left without a result, and the results
\* that stand behind a diagnosis, whose call compaction may drop although memory.py
\* (337) says that it keeps the two together.
THEOREM LoopSentPairs == Spec => []SentPairs
<1>1. LoopInv => SentPairs
    BY DEF LoopInv
<1> QED BY <1>1, LoopInvariant, PTL

\* The bounded window of signatures (agents/budget.py) diagnoses stagnation
\* exactly when the last stagnation_window rounds of the run were equal.
THEOREM LoopStopsAtStreak == Spec => []StopsAtStreak
<1>1. LoopInv => StopsAtStreak
    BY DEF LoopInv, StreakInv, StopsAtStreak
<1> QED BY <1>1, LoopInvariant, PTL

\* A cancelled run makes at most two model calls more, retries and all, or
\* finishes one batch, and does not succeed (agents/loop.py, llm_client.py).
THEOREM LoopCancelIsPrompt == Spec => []CancelIsPrompt
<1>1. LoopInv => CancelIsPrompt
  <2> SUFFICES ASSUME LoopInv, cancelled PROVE CancelIsPrompt
      BY DEF CancelIsPrompt
  <2>1. since.batches <= 1
      BY BudgetType DEF LoopInv, CancelInv
  <2> QED BY <2>1 DEF LoopInv, CancelInv, CancelIsPrompt
<1> QED BY <1>1, LoopInvariant, PTL

\* The completion gate (agents/models.py) lets no run succeed while the last
\* diagnosis of a file, in the last batch that changed it, has errors, for any files,
\* batches and diagnoses, made or not.  It is a claim about what was diagnosed: a diagnosis may be wrong.
THEOREM LoopSuccessOverErrors == Spec => []NoSuccessOverErrors
<1>1. LoopInv => NoSuccessOverErrors
    BY DEF LoopInv, ReportInv, NoSuccessOverErrors
<1> QED BY <1>1, LoopInvariant, PTL

-----------------------------------------------------------------------------
(* RunAccounting, for any agents, prices, limits, batches and executions   *)

Hands == [at : {"off", "free", "calling", "charged", "retry", "admitting", "reporting",
                "ending", "done"},
          kind : {"none", "turn", "summary"}, cost : Nat, failed : BOOLEAN,
          size : Nat, todo : Nat]

AccShapeInv ==
    /\ ledger \in [calls : Nat, tools : Nat, tokens : Nat]
    /\ hand \in [Helpers -> Hands]
    /\ overBegun \in [Helpers -> 0..3]

CountInv == ledger.calls <= CallLimit /\ ledger.tools <= ToolLimit

\* A call is begun with the tokens spent only when they are.
SpentInv == ~TokensSpent => \A h \in Helpers : overBegun[h] = 0

\* Such a call never gets a row: its charge raises.  So an agent that has made
\* one has lost a summary, or its turn, with which it ends.
AccPlaceInv ==
    \A h \in Helpers :
        /\ hand[h].at \in {"charged", "retry", "admitting", "reporting"} => overBegun[h] = 0
        /\ hand[h].at = "off" /\ coordinator = "open" => overBegun[h] = 0
        /\ hand[h].at = "free" => overBegun[h] <= IF hand[h].kind = "summary" THEN 1 ELSE 0
        /\ hand[h].at = "calling" => overBegun[h] <= IF hand[h].kind = "summary" THEN 1 ELSE 2
        /\ overBegun[h] <= 2

AccInv == AccShapeInv /\ CountInv /\ SpentInv /\ AccPlaceInv

-----------------------------------------------------------------------------
LEMMA Hand == NoHand \in Hands /\ NoHand.at = "off"
BY DEF NoHand, Hands

LEMMA AccInvInit == AccountingInit => AccInv
<1> SUFFICES ASSUME AccountingInit PROVE AccInv
    OBVIOUS
<1>1. /\ ledger = NothingSpent /\ hand = [h \in Helpers |-> NoHand]
      /\ overBegun = [h \in Helpers |-> 0]
    BY DEF AccountingInit
<1>2. AccShapeInv
    BY <1>1, Hand DEF AccShapeInv, NothingSpent
<1>3. CountInv /\ SpentInv /\ AccPlaceInv
    BY <1>1, Hand, AccountingAssumption DEF CountInv, SpentInv, AccPlaceInv, NothingSpent
<1> QED BY <1>2, <1>3 DEF AccInv

\* A step of one agent that begins no model call, spends no less than before and
\* takes it to a place its overrun allows
LEMMA HandInv ==
    ASSUME AccInv, NEW h \in Helpers, NEW state \in Hands, Put(h, state),
           ledger' \in [calls : Nat, tools : Nat, tokens : Nat],
           ledger'.calls <= CallLimit, ledger'.tools <= ToolLimit,
           ledger.tokens <= ledger'.tokens, overBegun' = overBegun, coordinator' = coordinator,
           \/ state.at \in {"ending", "done"}
           \/ state.at = "free" /\ state.kind = "summary" /\ overBegun[h] <= 1
           \/ overBegun[h] = 0
    PROVE  AccInv'
<1>1. /\ hand' \in [Helpers -> Hands] /\ hand'[h] = state
      /\ \A g \in Helpers \ {h} : hand'[g] = hand[g]
    BY DEF Put, AccInv, AccShapeInv
<1>2. AccShapeInv' /\ CountInv'
    BY <1>1 DEF AccInv, AccShapeInv, CountInv
<1>3. TokensSpent => TokensSpent'
    BY AccountingAssumption DEF TokensSpent, AccInv, AccShapeInv
<1>4. SpentInv'
    BY <1>3 DEF AccInv, SpentInv
<1>5. overBegun \in [Helpers -> 0..3]
    BY DEF AccInv, AccShapeInv
<1>6. AccPlaceInv'
    BY <1>1, <1>5 DEF AccInv, AccPlaceInv
<1> QED BY <1>2, <1>4, <1>6 DEF AccInv

\* What an exception leaves behind
LEMMA RaisedInv ==
    ASSUME AccInv, NEW h \in Helpers, NEW kind \in {"none", "turn", "summary"}, Raised(h, kind),
           ledger' \in [calls : Nat, tools : Nat, tokens : Nat],
           ledger'.calls <= CallLimit, ledger'.tools <= ToolLimit,
           ledger.tokens <= ledger'.tokens, overBegun' = overBegun, coordinator' = coordinator,
           kind = "summary" => overBegun[h] <= 1
    PROVE  AccInv'
<1> DEFINE state == [NoHand EXCEPT !.at = IF kind = "summary" THEN "free" ELSE "ending",
                                   !.kind = kind]
<1>1. /\ state \in Hands /\ state.kind = kind
      /\ state.at = IF kind = "summary" THEN "free" ELSE "ending"
    BY DEF NoHand, Hands
<1>2. Put(h, state)
    BY DEF Raised
<1> HIDE DEF state
<1> QED BY <1>1, <1>2, HandInv

-----------------------------------------------------------------------------
(* The run *)

LEMMA AccRunInv ==
    ASSUME AccInv, StartExecution \/ TimePasses \/ CloseRoot \/ FinishRun \/ Abandon
    PROVE  AccInv'
<1>1. CASE StartExecution
  <2>1. /\ ledger' = NothingSpent /\ hand' = [h \in Helpers |-> NoHand]
        /\ overBegun' = [h \in Helpers |-> 0]
      BY <1>1 DEF StartExecution
  <2>2. AccShapeInv'
      BY <2>1, Hand DEF AccShapeInv, NothingSpent
  <2>3. CountInv' /\ SpentInv' /\ AccPlaceInv'
      BY <2>1, Hand, AccountingAssumption DEF CountInv, SpentInv, AccPlaceInv, NothingSpent
  <2> QED BY <2>2, <2>3 DEF AccInv
<1>2. CASE TimePasses
    BY <1>2 DEF TimePasses, AccInv, AccShapeInv, CountInv, SpentInv, AccPlaceInv, TokensSpent
<1>3. CASE CloseRoot
    BY <1>3 DEF CloseRoot, AccInv, AccShapeInv, CountInv, SpentInv, AccPlaceInv, TokensSpent
<1>4. CASE FinishRun
    BY <1>4 DEF FinishRun, AccInv, AccShapeInv, CountInv, SpentInv, AccPlaceInv, TokensSpent
<1>5. CASE Abandon
  <2>1. /\ hand' = [h \in Helpers |-> NoHand] /\ coordinator' = "idle"
        /\ ledger' = ledger /\ overBegun' = overBegun
      BY <1>5 DEF Abandon
  <2>2. AccShapeInv' /\ CountInv' /\ SpentInv'
      BY <2>1, Hand DEF AccInv, AccShapeInv, CountInv, SpentInv, TokensSpent
  <2>3. AccPlaceInv'
      BY <2>1, Hand DEF AccInv, AccPlaceInv
  <2> QED BY <2>2, <2>3 DEF AccInv
<1> QED BY <1>1, <1>2, <1>3, <1>4, <1>5

-----------------------------------------------------------------------------
(* An agent *)

LEMMA AtHand ==
    ASSUME AccInv, NEW h \in Helpers
    PROVE  /\ hand[h] \in Hands /\ overBegun[h] \in 0..3
           /\ ledger \in [calls : Nat, tools : Nat, tokens : Nat]
           /\ ledger.calls <= CallLimit /\ ledger.tools <= ToolLimit
           /\ ledger.tokens <= ledger.tokens
           /\ hand[h].kind \in {"none", "turn", "summary"}
BY DEF AccInv, AccShapeInv, CountInv, Hands

LEMMA StartHelperInv == ASSUME AccInv, NEW h \in Helpers, StartHelper(h) PROVE AccInv'
<1>1. /\ ledger' = ledger /\ overBegun' = overBegun
      /\ coordinator' = coordinator /\ overBegun[h] = 0
    BY DEF StartHelper, rest, AccInv, AccPlaceInv
<1>2. PICK at \in {"free", "done"} : Put(h, [NoHand EXCEPT !.at = at])
    BY DEF StartHelper
<1> DEFINE state == [NoHand EXCEPT !.at = at]
<1>3. state \in Hands /\ Put(h, state)
    BY <1>2 DEF NoHand, Hands
<1> HIDE DEF state
<1> QED BY <1>1, <1>3, AtHand, HandInv

\* The agent is free, and has lost a summary at most, or repeats a call that got
\* its row before the tokens were spent.
LEMMA AccBeginCallInv ==
    ASSUME AccInv, NEW h \in Helpers, NEW kind \in {"turn", "summary"}, BeginModelCall(h, kind)
    PROVE  AccInv'
<1>1. /\ overBegun[h] <= IF kind = "summary" THEN 0 ELSE 1
      /\ overBegun[h] \in 0..3
    BY AtHand DEF BeginModelCall, AccInv, AccPlaceInv
<1>2. CASE Refuses("calls", CallLimit) /\ Raised(h, kind) /\ UNCHANGED <<ledger, overBegun>>
  <2>1. coordinator' = coordinator
      BY DEF BeginModelCall, rest
  <2> QED BY <1>1, <1>2, <2>1, AtHand, RaisedInv
<1>3. CASE /\ Admit("calls", CallLimit)
           /\ Put(h, [NoHand EXCEPT !.at = "calling", !.kind = kind])
           /\ overBegun' = [overBegun EXCEPT ![h] = IF TokensSpent /\ @ < 3 THEN @ + 1 ELSE @]
  <2> DEFINE state == [NoHand EXCEPT !.at = "calling", !.kind = kind]
  <2>1. state \in Hands /\ state.at = "calling" /\ state.kind = kind
      BY DEF NoHand, Hands
  <2>2. /\ hand' \in [Helpers -> Hands] /\ hand'[h] = state
        /\ \A g \in Helpers \ {h} : hand'[g] = hand[g]
      BY <1>3, <2>1 DEF Put, AccInv, AccShapeInv
  <2>3. /\ ledger' \in [calls : Nat, tools : Nat, tokens : Nat]
        /\ ledger'.calls <= CallLimit /\ ledger'.tools = ledger.tools
        /\ ledger'.tokens = ledger.tokens
      BY <1>3, AccountingAssumption DEF Admit, AccInv, AccShapeInv
  <2>4. /\ overBegun' \in [Helpers -> 0..3]
        /\ overBegun'[h] = IF TokensSpent THEN overBegun[h] + 1 ELSE overBegun[h]
        /\ \A g \in Helpers \ {h} : overBegun'[g] = overBegun[g]
      BY <1>1, <1>3 DEF AccInv, AccShapeInv
  <2>5. AccShapeInv' /\ CountInv'
      BY <2>2, <2>3, <2>4 DEF AccInv, AccShapeInv, CountInv
  <2>6. SpentInv'
      BY <2>3, <2>4 DEF AccInv, SpentInv, TokensSpent
  <2>7. coordinator' = coordinator
      BY DEF BeginModelCall, rest
  <2>8. AccPlaceInv'
    <3>1. overBegun'[h] <= IF kind = "summary" THEN 1 ELSE 2
        BY <1>1, <2>4
    <3>2. overBegun'[h] <= 2
        BY <1>1, <2>4
    <3>3. ASSUME NEW g \in Helpers \ {h}
          PROVE  hand'[g] = hand[g] /\ overBegun'[g] = overBegun[g]
        BY <2>2, <2>4
    <3> HIDE DEF state
    <3> QED BY <2>1, <2>2, <2>7, <3>1, <3>2, <3>3 DEF AccInv, AccPlaceInv
  <2> QED BY <2>5, <2>6, <2>8 DEF AccInv
<1> QED BY <1>2, <1>3 DEF BeginModelCall

\* A charge that does not raise finds the tokens unspent.
LEMMA AccChargeInv ==
    ASSUME AccInv, NEW h \in Helpers, NEW cost \in Prices \cup {0}, NEW failed \in BOOLEAN,
           ChargeModelCall(h, cost, failed)
    PROVE  AccInv'
<1> DEFINE tokens == ledger.tokens + cost
<1>1. cost \in Nat
    BY AccountingAssumption
<1>2. /\ ledger' = [ledger EXCEPT !.tokens = tokens]
      /\ hand[h].at = "calling" /\ overBegun' = overBegun /\ coordinator' = coordinator
    BY DEF ChargeModelCall, rest
<1>3. /\ ledger' \in [calls : Nat, tools : Nat, tokens : Nat]
      /\ ledger'.calls <= CallLimit /\ ledger'.tools <= ToolLimit
      /\ ledger.tokens <= ledger'.tokens
    BY <1>1, <1>2, AtHand
<1>4. CASE Passed(tokens)
  <2>1. Raised(h, hand[h].kind)
      BY <1>4 DEF ChargeModelCall
  <2>2. hand[h].kind = "summary" => overBegun[h] <= 1
      BY <1>2, AtHand DEF AccInv, AccPlaceInv
  <2> QED BY <1>2, <1>3, <2>1, <2>2, AtHand, RaisedInv
<1>5. CASE ~Passed(tokens)
  <2> DEFINE state == [hand[h] EXCEPT !.at = "charged", !.cost = cost, !.failed = failed]
  <2>1. state \in Hands
      BY <1>1, AtHand DEF Hands
  <2>2. Put(h, state)
      BY <1>5 DEF ChargeModelCall
  <2>3. overBegun[h] = 0
      BY <1>1, <1>5, AtHand, AccountingAssumption DEF Passed, AccInv, SpentInv, TokensSpent
  <2> HIDE DEF state
  <2> QED BY <1>2, <1>3, <2>1, <2>2, <2>3, HandInv
<1> QED BY <1>4, <1>5

\* The steps of an agent that has been charged in time, or is out of its turn
LEMMA AccRecordInv ==
    ASSUME AccInv, NEW h \in Helpers, RecordModelCall(h) \/ RowRefused(h) PROVE AccInv'
<1>1. /\ ledger' = ledger /\ overBegun' = overBegun /\ coordinator' = coordinator
      /\ overBegun[h] = 0
    BY DEF RecordModelCall, RowRefused, rest, AccInv, AccPlaceInv
<1>2. ASSUME NEW kind \in {"none", "turn", "summary"}, Raised(h, kind) PROVE AccInv'
    BY <1>1, <1>2, AtHand, RaisedInv
<1>3. CASE Put(h, [NoHand EXCEPT !.at = IF hand[h].failed THEN "retry" ELSE "free",
                                 !.kind = hand[h].kind])
  <2> DEFINE state == [NoHand EXCEPT !.at = IF hand[h].failed THEN "retry" ELSE "free",
                                     !.kind = hand[h].kind]
  <2>1. state \in Hands
      BY AtHand DEF NoHand, Hands
  <2> HIDE DEF state
  <2> QED BY <1>1, <1>3, <2>1, AtHand, HandInv DEF state
<1>4. hand[h].kind \in {"none", "turn", "summary"}
    BY AtHand
<1> QED BY <1>2, <1>3, <1>4 DEF RecordModelCall, RowRefused

LEMMA AccBatchInv ==
    ASSUME AccInv, NEW h \in Helpers,
           \/ \E size \in BatchSizes : AskForTools(h, size)
           \/ CountTool(h) \/ ReportTool(h) \/ EndHelper(h)
    PROVE  AccInv'
<1> DEFINE less == [hand[h] EXCEPT !.todo = @ - 1]
<1>0. hand[h].todo > 1 => less \in Hands
  <2>1. hand[h] \in Hands
      BY AtHand
  <2>2. hand[h].todo > 1 => hand[h].todo - 1 \in Nat
      BY <2>1 DEF Hands
  <2> QED BY <2>1, <2>2 DEF Hands
<1>1. overBegun' = overBegun /\ coordinator' = coordinator
    BY DEF AskForTools, CountTool, ReportTool, EndHelper, rest
<1>2. ASSUME NEW size \in BatchSizes, AskForTools(h, size) PROVE AccInv'
  <2> DEFINE state == [NoHand EXCEPT !.at = "admitting", !.size = size, !.todo = size]
  <2>1. state \in Hands
      BY AccountingAssumption DEF NoHand, Hands
  <2>2. Put(h, state) /\ ledger' = ledger
      BY <1>2 DEF AskForTools
  <2>3. overBegun[h] <= 0
      BY <1>2 DEF AskForTools, AccInv, AccPlaceInv
  <2>4. overBegun[h] = 0
      BY <2>3, AtHand
  <2> HIDE DEF state
  <2> QED BY <1>1, <2>1, <2>2, <2>4, AtHand, HandInv
<1>3. CASE CountTool(h)
  <2>1. overBegun[h] = 0
      BY <1>3 DEF CountTool, AccInv, AccPlaceInv
  <2>2. CASE Admit("tools", ToolLimit)
    <3> DEFINE full == [hand[h] EXCEPT !.at = "reporting", !.todo = hand[h].size]
               state == IF hand[h].todo > 1 THEN less ELSE full
    <3>1. full \in Hands
        BY AtHand DEF Hands
    <3>2. state \in Hands
        BY <1>0, <3>1
    <3>3. /\ ledger' \in [calls : Nat, tools : Nat, tokens : Nat]
          /\ ledger'.calls <= CallLimit /\ ledger'.tools <= ToolLimit
          /\ ledger.tokens <= ledger'.tokens
        BY <2>2, AtHand, AccountingAssumption DEF Admit
    <3>4. ~Refuses("tools", ToolLimit)
        BY <2>2, AtHand, AccountingAssumption DEF Admit, Refuses
    <3>5. Put(h, state)
        BY <1>3, <3>4 DEF CountTool
    <3> HIDE DEF state
    <3> QED BY <1>1, <2>1, <3>2, <3>3, <3>5, HandInv
  <2>3. CASE Refuses("tools", ToolLimit) /\ Raised(h, "turn") /\ UNCHANGED ledger
      BY <1>1, <2>1, <2>3, AtHand, RaisedInv
  <2> QED BY <1>3, <2>2, <2>3 DEF CountTool
<1>4. CASE ReportTool(h)
  <2>1. overBegun[h] = 0 /\ ledger' = ledger
      BY <1>4 DEF ReportTool, AccInv, AccPlaceInv
  <2>2. CASE Raised(h, "turn")
      BY <1>1, <2>1, <2>2, AtHand, RaisedInv
  <2>3. CASE Put(h, IF hand[h].todo > 1 THEN [hand[h] EXCEPT !.todo = @ - 1]
                    ELSE [NoHand EXCEPT !.at = "free"])
    <3> DEFINE state == IF hand[h].todo > 1 THEN less ELSE [NoHand EXCEPT !.at = "free"]
    <3>1. state \in Hands
        BY <1>0 DEF NoHand, Hands
    <3>2. Put(h, state)
        BY <2>3
    <3> HIDE DEF state
    <3> QED BY <1>1, <2>1, <3>1, <3>2, AtHand, HandInv
  <2> QED BY <1>4, <2>2, <2>3 DEF ReportTool
<1>5. CASE EndHelper(h)
  <2> DEFINE state == [NoHand EXCEPT !.at = "done"]
  <2>1. state \in Hands /\ state.at = "done"
      BY DEF NoHand, Hands
  <2>2. Put(h, state) /\ ledger' = ledger
      BY <1>5 DEF EndHelper
  <2> HIDE DEF state
  <2> QED BY <1>1, <2>1, <2>2, AtHand, HandInv
<1> QED BY <1>2, <1>3, <1>4, <1>5

LEMMA AccInvStep == AccInv /\ [AccountingNext]_accounting => AccInv'
<1> SUFFICES ASSUME AccInv, [AccountingNext]_accounting PROVE AccInv'
    OBVIOUS
<1>1. CASE UNCHANGED accounting
    BY <1>1 DEF accounting, AccInv, AccShapeInv, CountInv, SpentInv, AccPlaceInv, TokensSpent
<1>2. CASE AccountingNext
    BY <1>2, AccRunInv, StartHelperInv, AccBeginCallInv, AccChargeInv, AccRecordInv, AccBatchInv DEF AccountingNext
<1> QED BY <1>1, <1>2

\* However many agents share the budget, the counted limits hold, and none begins
\* more than two model calls once the tokens are spent (RunBudget).
THEOREM OverrunIsBounded == AccountingSpec => []OverrunBounded
<1>1. ASSUME AccInv PROVE OverrunBounded
    BY <1>1 DEF AccInv, CountInv, AccPlaceInv, OverrunBounded
<1> QED BY <1>1, AccInvInit, AccInvStep, PTL DEF AccountingSpec
-----------------------------------------------------------------------------
(* What the trace tells *)

Amounts == [calls : Nat, tools : Nat, tokens : Nat]
SpanStates == {"none", "running", "ended"}

RowInv ==
    /\ execution \in 0..MaxExecutions /\ coordinator \in {"idle", "open", "closing"}
    /\ runRow \in {"none", "running", "finished"} /\ storeErrors \in 0..MaxStoreErrors
    /\ expired \in BOOLEAN /\ traced \in Amounts
    /\ spans \in [Helpers \cup {"root"} -> SpanStates]
    /\ rowless \in [Helpers -> Nat]

\* A batch has tools to do, and only a call just charged has a cost.
Carried(state) ==
    /\ state.todo <= state.size
    /\ state.at \in {"admitting", "reporting"} => state.todo >= 1
    /\ state.at # "charged" => state.cost = 0

CarryInv == \A h \in Helpers : Carried(hand[h])

Resting(h) == hand[h].at \in {"off", "done"}

\* The spans that run are those whose end was refused.
Ended == \A s \in Helpers \cup {"root"} : spans[s] = "running" => s \in unclosed

\* A span runs while its agent does, and the root span while the run does.
SpanInv ==
    /\ coordinator # "open" => \A h \in Helpers : Resting(h)
    /\ coordinator = "open" => spans["root"] = "running" /\ runRow = "running"
    /\ coordinator = "open" =>
        \A h \in Helpers : Resting(h) /\ spans[h] = "running" => h \in unclosed
    /\ coordinator = "closing" \/ spans["root"] = "ended" \/ runRow = "finished" => Ended

CallsOwed == Total([h \in Helpers |-> Awaited(hand[h]) + rowless[h]])
CostsAtWork == Total([h \in Helpers |-> hand[h].cost])
ToolsAtWork == Total([h \in Helpers |-> Unreported(hand[h])])

\* No limit is passed and no row was refused.
Exact == coordinator # "idle" /\ ~Passed(ledger.tokens) /\ storeErrors = 0

LedgerInv ==
    /\ traced.calls <= ledger.calls
    /\ coordinator # "idle" => traced.calls + CallsOwed = ledger.calls
    /\ traced.tokens + CostsAtWork <= ledger.tokens
    /\ traced.tools + ToolsAtWork <= ledger.tools
    /\ Exact => /\ traced.tokens + CostsAtWork = ledger.tokens
                /\ ledger.tools < ToolLimit => traced.tools + ToolsAtWork = ledger.tools

\* Attempts that the trace may lack although no row was refused, once a limit is
\* passed: a summary's, after which the agent is free for its turn, and a turn's,
\* with which it ends.
Spare(state) ==
    IF state.at \in {"ending", "done"} THEN 2
    ELSE IF \/ state.at = "free" /\ state.kind = "summary"
            \/ state.at = "calling" /\ state.kind = "turn" THEN 1 ELSE 0

LackInv ==
    \A h \in Helpers :
        /\ rowless[h] <= storeErrors + (IF Passed(ledger.tokens) THEN 2 ELSE 0)
        /\ coordinator # "idle" =>
            rowless[h] <= storeErrors + (IF Passed(ledger.tokens) THEN Spare(hand[h]) ELSE 0)

TraceInv == RowInv /\ CarryInv /\ SpanInv /\ LedgerInv /\ LackInv

\* A step of an agent by which n of its attempts come to lack their row
Loses(h, n) ==
    /\ rowless' \in [Helpers -> Nat] /\ rowless'[h] = rowless[h] + n
    /\ \A g \in Helpers \ {h} : rowless'[g] = rowless[g]

LEMMA LosesNone ==
    ASSUME rowless \in [Helpers -> Nat], NEW h \in Helpers, UNCHANGED rowless
    PROVE  Loses(h, 0)
BY DEF Loses

LEMMA LosesOne ==
    ASSUME rowless \in [Helpers -> Nat], NEW h \in Helpers, LosesRow(h)
    PROVE  Loses(h, 1)
BY DEF Loses, LosesRow

LEMMA TotalIsSum == \A of : Total(of) = SetSum(of, Helpers)
BY DEF Total, SetSum

\* What a change of one agent does to the sums
LEMMA AtWorkMoves ==
    ASSUME hand \in [Helpers -> Hands], NEW h \in Helpers, NEW state \in Hands,
           Put(h, state), CarryInv, Carried(state),
           rowless \in [Helpers -> Nat], NEW n \in {0, 1}, Loses(h, n)
    PROVE  /\ CallsOwed \in Nat /\ CallsOwed' \in Nat
           /\ CallsOwed' + Awaited(hand[h]) = CallsOwed + Awaited(state) + n
           /\ CostsAtWork \in Nat /\ CostsAtWork' \in Nat
           /\ CostsAtWork' + hand[h].cost = CostsAtWork + state.cost
           /\ ToolsAtWork \in Nat /\ ToolsAtWork' \in Nat
           /\ ToolsAtWork' + Unreported(hand[h]) = ToolsAtWork + Unreported(state)
<1>1. /\ hand' \in [Helpers -> Hands] /\ hand'[h] = state
      /\ \A g \in Helpers \ {h} : hand'[g] = hand[g]
    BY DEF Put
<1>2. /\ rowless' \in [Helpers -> Nat] /\ rowless'[h] = rowless[h] + n
      /\ \A g \in Helpers \ {h} : rowless'[g] = rowless[g]
    BY DEF Loses
<1> DEFINE calls == [g \in Helpers |-> Awaited(hand[g]) + rowless[g]]
           costs == [g \in Helpers |-> hand[g].cost]
           tools == [g \in Helpers |-> Unreported(hand[g])]
<1>3. \A x \in Hands : Awaited(x) \in {0, 1}
    BY DEF Awaited
<1>4. \A x \in Hands : x.cost \in Nat /\ (Carried(x) => Unreported(x) \in Nat)
    BY DEF Hands, Carried, Unreported
<1>5. /\ calls \in [Helpers -> Nat] /\ calls' \in [Helpers -> Nat]
      /\ calls[h] = Awaited(hand[h]) + rowless[h]
      /\ calls'[h] = Awaited(state) + rowless[h] + n
      /\ \A g \in Helpers \ {h} : calls'[g] = calls[g]
  <2>1. \A g \in Helpers : /\ Awaited(hand[g]) \in Nat /\ Awaited(hand'[g]) \in Nat
                           /\ rowless[g] \in Nat /\ rowless'[g] \in Nat
      BY <1>1, <1>2, <1>3
  <2>2. \A g \in Helpers : /\ calls[g] = Awaited(hand[g]) + rowless[g]
                           /\ calls'[g] = Awaited(hand'[g]) + rowless'[g]
      BY DEF Awaited
  <2>3. \A g \in Helpers : calls[g] \in Nat /\ calls'[g] \in Nat
      BY <2>1, <2>2
  <2>4. calls \in [Helpers -> Nat] /\ calls' \in [Helpers -> Nat]
      BY <2>3
  <2> HIDE DEF calls
  <2>5. calls'[h] = Awaited(state) + rowless[h] + n
      BY <1>1, <1>2, <1>3, <2>2
  <2> QED BY <1>1, <1>2, <2>2, <2>4, <2>5
<1>6. /\ costs \in [Helpers -> Nat] /\ costs' \in [Helpers -> Nat]
      /\ costs[h] = hand[h].cost /\ costs'[h] = state.cost
      /\ \A g \in Helpers \ {h} : costs'[g] = costs[g]
    BY <1>1, <1>4
<1>7. /\ tools \in [Helpers -> Nat] /\ tools' \in [Helpers -> Nat]
      /\ tools[h] = Unreported(hand[h]) /\ tools'[h] = Unreported(state)
      /\ \A g \in Helpers \ {h} : tools'[g] = tools[g]
    BY <1>1, <1>4 DEF CarryInv, Unreported
<1>8. /\ CallsOwed = SetSum(calls, Helpers) /\ CallsOwed' = SetSum(calls', Helpers)
      /\ CostsAtWork = SetSum(costs, Helpers) /\ CostsAtWork' = SetSum(costs', Helpers)
      /\ ToolsAtWork = SetSum(tools, Helpers) /\ ToolsAtWork' = SetSum(tools', Helpers)
    BY TotalIsSum DEF CallsOwed, CostsAtWork, ToolsAtWork
<1> HIDE DEF calls, costs, tools
<1>9. /\ SetSum(costs, Helpers) \in Nat /\ SetSum(costs', Helpers) \in Nat
      /\ SetSum(costs', Helpers) + costs[h] = SetSum(costs, Helpers) + costs'[h]
    BY <1>6, AccountingAssumption, SumUpdate
<1>10. /\ SetSum(tools, Helpers) \in Nat /\ SetSum(tools', Helpers) \in Nat
       /\ SetSum(tools', Helpers) + tools[h] = SetSum(tools, Helpers) + tools'[h]
    BY <1>7, AccountingAssumption, SumUpdate
<1>11. /\ SetSum(calls, Helpers) \in Nat /\ SetSum(calls', Helpers) \in Nat
       /\ SetSum(calls', Helpers) + calls[h] = SetSum(calls, Helpers) + calls'[h]
    BY <1>5, AccountingAssumption, SumUpdate
<1>12. CallsOwed' + Awaited(hand[h]) = CallsOwed + Awaited(state) + n
  <2>1. Awaited(hand[h]) \in Nat /\ Awaited(state) \in Nat /\ rowless[h] \in Nat
      BY <1>3
  <2>2. PICK p \in Nat, q \in Nat, a \in Nat, b \in Nat, r \in Nat :
            /\ p = SetSum(calls, Helpers) /\ q = SetSum(calls', Helpers)
            /\ a = Awaited(hand[h]) /\ b = Awaited(state) /\ r = rowless[h]
      BY <1>11, <2>1
  <2>3. q + (a + r) = p + (b + r + n)
      BY <1>5, <1>11, <2>2
  <2>4. q + a = p + b + n
      BY <2>3
  <2> QED BY <1>8, <2>2, <2>4
<1> QED BY <1>6, <1>7, <1>8, <1>9, <1>10, <1>11, <1>12

LEMMA NothingAtWork ==
    /\ hand = [h \in Helpers |-> NoHand] => CostsAtWork = 0 /\ ToolsAtWork = 0
    /\ hand' = [h \in Helpers |-> NoHand] => CostsAtWork' = 0 /\ ToolsAtWork' = 0
    /\ hand' = [h \in Helpers |-> NoHand] /\ rowless' = [h \in Helpers |-> 0] => CallsOwed' = 0
<1>1. Awaited(NoHand) = 0 /\ NoHand.cost = 0 /\ Unreported(NoHand) = 0
    BY DEF NoHand, Awaited, Unreported
<1> DEFINE calls == [g \in Helpers |-> Awaited(hand[g]) + rowless[g]]
           costs == [g \in Helpers |-> hand[g].cost]
           tools == [g \in Helpers |-> Unreported(hand[g])]
<1>2. ASSUME hand = [h \in Helpers |-> NoHand] PROVE CostsAtWork = 0 /\ ToolsAtWork = 0
  <2>1. /\ costs \in [Helpers -> Nat] /\ \A h \in Helpers : costs[h] = 0
        /\ tools \in [Helpers -> Nat] /\ \A h \in Helpers : tools[h] = 0
      BY <1>1, <1>2
  <2>2. CostsAtWork = SetSum(costs, Helpers) /\ ToolsAtWork = SetSum(tools, Helpers)
      BY TotalIsSum DEF CostsAtWork, ToolsAtWork
  <2> HIDE DEF costs, tools
  <2> QED BY <2>1, <2>2, AccountingAssumption, SumZero
<1>3. ASSUME hand' = [h \in Helpers |-> NoHand] PROVE CostsAtWork' = 0 /\ ToolsAtWork' = 0
  <2>1. /\ costs' \in [Helpers -> Nat] /\ \A h \in Helpers : costs'[h] = 0
        /\ tools' \in [Helpers -> Nat] /\ \A h \in Helpers : tools'[h] = 0
      BY <1>1, <1>3
  <2>2. CostsAtWork' = SetSum(costs', Helpers) /\ ToolsAtWork' = SetSum(tools', Helpers)
      BY TotalIsSum DEF CostsAtWork, ToolsAtWork
  <2> HIDE DEF costs, tools
  <2> QED BY <2>1, <2>2, AccountingAssumption, SumZero
<1>4. ASSUME hand' = [h \in Helpers |-> NoHand], rowless' = [h \in Helpers |-> 0]
      PROVE  CallsOwed' = 0
  <2>1. calls' \in [Helpers -> Nat] /\ \A h \in Helpers : calls'[h] = 0
      BY <1>1, <1>4
  <2>2. CallsOwed' = SetSum(calls', Helpers)
      BY TotalIsSum DEF CallsOwed
  <2> HIDE DEF calls
  <2> QED BY <2>1, <2>2, AccountingAssumption, SumZero
<1> QED BY <1>2, <1>3, <1>4

LEMMA AtWorkTypes ==
    ASSUME hand \in [Helpers -> Hands], CarryInv
    PROVE  CostsAtWork \in Nat /\ ToolsAtWork \in Nat
<1> DEFINE costs == [g \in Helpers |-> hand[g].cost]
           tools == [g \in Helpers |-> Unreported(hand[g])]
<1>1. \A x \in Hands : x.cost \in Nat /\ (Carried(x) => Unreported(x) \in Nat)
    BY DEF Hands, Carried, Unreported
<1>2. costs \in [Helpers -> Nat] /\ tools \in [Helpers -> Nat]
    BY <1>1 DEF CarryInv
<1>3. CostsAtWork = SetSum(costs, Helpers) /\ ToolsAtWork = SetSum(tools, Helpers)
    BY TotalIsSum DEF CostsAtWork, ToolsAtWork
<1> HIDE DEF costs, tools
<1>4. ASSUME NEW f \in [Helpers -> Nat] PROVE SetSum(f, Helpers) \in Nat
  <2>1. PICK g \in [SUBSET Helpers -> Nat] : SetSum(f, Helpers) = g[Helpers]
      BY AccountingAssumption, SumAdds
  <2> QED BY <2>1
<1> QED BY <1>2, <1>3, <1>4

-----------------------------------------------------------------------------
(* An agent's step, for the trace *)

\* What a step of an agent does to the spans
SpanStep(h, state) ==
    /\ spans' \in [Helpers \cup {"root"} -> SpanStates]
    /\ \A s \in (Helpers \cup {"root"}) \ {h} : spans'[s] = spans[s]
    /\ unclosed \subseteq unclosed'
    /\ state.at \in {"off", "done"} /\ spans'[h] = "running" => h \in unclosed'

\* The agent may come to lack n rows more: they were refused, or spared by the
\* place the agent comes to, once a limit is passed.
Affords(h, state, n) ==
    /\ n + storeErrors + (IF Passed(ledger.tokens) THEN Spare(hand[h]) ELSE 0)
          <= storeErrors' + Spare(state)
    /\ Passed(ledger.tokens)' \/ n + storeErrors <= storeErrors'

LEMMA SpansKept ==
    ASSUME RowInv, NEW h \in Helpers, NEW state, state.at \notin {"off", "done"},
           UNCHANGED <<spans, unclosed>>
    PROVE  SpanStep(h, state)
BY DEF RowInv, SpanStep

\* What an agent lacks is refused rows and what its place spares.
LEMMA LackPut ==
    ASSUME LackInv, RowInv, NEW h \in Helpers, NEW state \in Hands, hand' \in [Helpers -> Hands],
           hand'[h] = state, \A g \in Helpers \ {h} : hand'[g] = hand[g],
           NEW n \in {0, 1}, Loses(h, n), Affords(h, state, n),
           UNCHANGED rest, coordinator = "open",
           ledger \in Amounts, ledger' \in Amounts, ledger.tokens <= ledger'.tokens,
           storeErrors' \in Nat, storeErrors <= storeErrors'
    PROVE  LackInv'
<1>1. Passed(ledger.tokens) => Passed(ledger.tokens)'
  <2>1. ledger.tokens \in Nat /\ ledger'.tokens \in Nat /\ TokenLimit \in Nat /\ expired' = expired
      BY AccountingAssumption DEF Amounts, rest
  <2> QED BY <2>1 DEF Passed
<1>2. \A x : Spare(x) \in 0..2
    BY DEF Spare
<1>3. storeErrors \in Nat /\ rowless \in [Helpers -> Nat] /\ coordinator' = "open"
    BY AccountingAssumption DEF RowInv, rest
<1>4. ASSUME NEW g \in Helpers
      PROVE  rowless'[g] <= storeErrors'
                 + (IF Passed(ledger.tokens)' THEN Spare(hand'[g]) ELSE 0)
  <2>1. PICK r \in Nat, e \in Nat, d \in Nat, p \in BOOLEAN, q \in BOOLEAN, x \in 0..2 :
            /\ r = rowless[g] /\ e = storeErrors /\ d = storeErrors'
            /\ p = Passed(ledger.tokens) /\ q = Passed(ledger.tokens)' /\ x = Spare(hand[g])
    <3>1. Passed(ledger.tokens) \in BOOLEAN /\ Passed(ledger.tokens)' \in BOOLEAN
        BY DEF Passed
    <3> QED BY <1>2, <1>3, <3>1
  <2>2. r <= e + (IF p THEN x ELSE 0) /\ e <= d /\ (p => q)
      BY <1>1, <2>1 DEF LackInv
  <2>3. CASE g # h
    <3>1. rowless'[g] = r /\ Spare(hand'[g]) = x
        BY <2>1, <2>3 DEF Loses
    <3>2. r <= d + (IF q THEN x ELSE 0)
        BY <2>2
    <3> QED BY <2>1, <3>1, <3>2
  <2>4. CASE g = h
    <3>1. PICK y \in 0..2 : y = Spare(state)
        BY <1>2
    <3>2. n + e + (IF p THEN x ELSE 0) <= d + y /\ (q \/ n + e <= d)
        BY <2>1, <2>4, <3>1 DEF Affords
    <3>3. rowless'[g] = r + n /\ Spare(hand'[g]) = y
        BY <2>1, <2>4, <3>1 DEF Loses
    <3>4. r + n <= d + (IF q THEN y ELSE 0)
        BY <2>2, <3>2
    <3> QED BY <2>1, <3>3, <3>4
  <2> QED BY <2>3, <2>4
<1>5. ASSUME NEW g \in Helpers
      PROVE  rowless'[g] <= storeErrors' + (IF Passed(ledger.tokens)' THEN 2 ELSE 0)
  <2>1. PICK r \in Nat, d \in Nat, y \in 0..2 :
            r = rowless'[g] /\ d = storeErrors' /\ y = Spare(hand'[g])
      BY <1>2 DEF Loses
  <2>2. r <= d + (IF Passed(ledger.tokens)' THEN y ELSE 0)
      BY <1>4, <2>1
  <2>3. r <= d + (IF Passed(ledger.tokens)' THEN 2 ELSE 0)
      BY <2>2
  <2> QED BY <2>1, <2>3
<1> QED BY <1>4, <1>5 DEF LackInv

\* The step adds to the ledger what it adds to the rows, to the work and to what
\* gets no row.
LEMMA TracePut ==
    ASSUME AccInv, TraceInv, NEW h \in Helpers, NEW state \in Hands, Put(h, state),
           Carried(state), UNCHANGED rest, coordinator = "open",
           ledger' \in Amounts, traced' \in Amounts, storeErrors' \in 0..MaxStoreErrors,
           ledger.tokens <= ledger'.tokens, storeErrors <= storeErrors',
           NEW n \in {0, 1}, Loses(h, n), Affords(h, state, n), SpanStep(h, state),
           traced'.calls + Awaited(state) + n + ledger.calls
               = ledger'.calls + traced.calls + Awaited(hand[h]),
           traced'.tokens + state.cost + ledger.tokens
               <= ledger'.tokens + traced.tokens + hand[h].cost,
           traced'.tools + Unreported(state) + ledger.tools
               <= ledger'.tools + traced.tools + Unreported(hand[h]),
           Exact' =>
               /\ Exact
               /\ traced'.tokens + state.cost + ledger.tokens
                     = ledger'.tokens + traced.tokens + hand[h].cost
               /\ ledger'.tools < ToolLimit =>
                    /\ ledger.tools < ToolLimit
                    /\ traced'.tools + Unreported(state) + ledger.tools
                          = ledger'.tools + traced.tools + Unreported(hand[h])
    PROVE  TraceInv'
<1>1. /\ hand \in [Helpers -> Hands] /\ hand' \in [Helpers -> Hands] /\ hand'[h] = state
      /\ \A g \in Helpers \ {h} : hand'[g] = hand[g]
    BY DEF Put, AccInv, AccShapeInv
<1>2. /\ UNCHANGED <<expired, execution, coordinator, runRow>>
      /\ RowInv /\ CarryInv /\ SpanInv /\ LedgerInv /\ LackInv
      /\ rowless \in [Helpers -> Nat]
    BY DEF rest, TraceInv, RowInv
<1>3. /\ spans' \in [Helpers \cup {"root"} -> SpanStates] /\ spans'["root"] = spans["root"]
      /\ \A g \in Helpers \ {h} : spans'[g] = spans[g]
      /\ state.at \in {"off", "done"} /\ spans'[h] = "running" => h \in unclosed'
      /\ unclosed \subseteq unclosed'
    BY AccountingAssumption DEF SpanStep
<1>4. RowInv'
    BY <1>2, <1>3 DEF RowInv, Loses
<1>5. CarryInv'
    BY <1>1, <1>2 DEF CarryInv
<1>6. SpanInv'
  <2>1. spans["root"] = "running" /\ runRow = "running"
      BY <1>2 DEF SpanInv
  <2>2. ASSUME NEW g \in Helpers, Resting(g)', spans'[g] = "running" PROVE g \in unclosed'
    <3>1. CASE g = h
        BY <1>1, <1>3, <2>2, <3>1 DEF Resting
    <3>2. CASE g # h
        BY <1>1, <1>2, <1>3, <2>2, <3>2 DEF Resting, SpanInv
    <3> QED BY <3>1, <3>2
  <2> QED BY <1>2, <1>3, <2>1, <2>2 DEF SpanInv
<1>7. LedgerInv'
  <2> DEFINE a == Awaited(hand[h])
             b == Awaited(state)
             c == Unreported(hand[h])
             d == Unreported(state)
  <2>1. /\ CallsOwed \in Nat /\ CallsOwed' \in Nat /\ CallsOwed' + a = CallsOwed + b + n
        /\ CostsAtWork \in Nat /\ CostsAtWork' \in Nat
        /\ CostsAtWork' + hand[h].cost = CostsAtWork + state.cost
        /\ ToolsAtWork \in Nat /\ ToolsAtWork' \in Nat /\ ToolsAtWork' + c = ToolsAtWork + d
      BY <1>1, <1>2, AtWorkMoves
  <2>2. /\ a \in Nat /\ b \in Nat /\ c \in Nat /\ d \in Nat
        /\ hand[h].cost \in Nat /\ state.cost \in Nat
    <3>1. hand[h] \in Hands /\ Carried(hand[h])
        BY <1>1, <1>2 DEF CarryInv
    <3> QED BY <3>1 DEF Awaited, Unreported, Hands, Carried
  <2>3. /\ ledger \in Amounts /\ traced \in Amounts
      BY <1>2 DEF RowInv, AccInv, AccShapeInv, Amounts
  <2>4. ASSUME NEW t \in Nat, NEW u \in Nat, NEW w \in Nat, NEW v \in Nat, NEW l \in Nat,
               NEW m \in Nat, NEW x \in Nat, NEW y \in Nat, v + x = w + y
        PROVE  /\ t + w <= l /\ u + y + l <= m + t + x => u + v <= m
               /\ t + w = l /\ u + y + l = m + t + x => u + v = m
      BY <2>4
  <2>5. /\ ledger.calls \in Nat /\ ledger.tokens \in Nat /\ ledger.tools \in Nat
        /\ ledger'.calls \in Nat /\ ledger'.tokens \in Nat /\ ledger'.tools \in Nat
        /\ traced.calls \in Nat /\ traced.tokens \in Nat /\ traced.tools \in Nat
        /\ traced'.calls \in Nat /\ traced'.tokens \in Nat /\ traced'.tools \in Nat
      BY <2>3 DEF Amounts
  <2> HIDE DEF a, b, c, d
  <2>6. traced'.calls + CallsOwed' = ledger'.calls
    <3>1. traced'.calls + b + n + ledger.calls = ledger'.calls + traced.calls + a
        BY DEF a, b
    <3>2. traced.calls + CallsOwed = ledger.calls
        BY <1>2 DEF LedgerInv
    <3>3. PICK t \in Nat, l \in Nat, m \in Nat, u \in Nat, p \in Nat, q \in Nat,
               x \in Nat, y \in Nat, k \in Nat :
                  /\ t = traced.calls /\ u = traced'.calls /\ l = ledger.calls /\ m = ledger'.calls
                  /\ p = CallsOwed /\ q = CallsOwed' /\ x = a /\ y = b /\ k = n
        BY <2>1, <2>2, <2>5
    <3>4. u + y + k + l = m + t + x /\ t + p = l /\ q + x = p + y + k
        BY <2>1, <3>1, <3>2, <3>3
    <3>5. u + q = m
        BY <3>4
    <3> QED BY <3>3, <3>5
  <2>7. traced'.tokens + CostsAtWork' <= ledger'.tokens
      BY <1>2, <2>1, <2>2, <2>4, <2>5 DEF LedgerInv
  <2>8. traced'.tools + ToolsAtWork' <= ledger'.tools
      BY <1>2, <2>1, <2>2, <2>4, <2>5 DEF LedgerInv, c, d
  <2>9. ASSUME Exact'
        PROVE  /\ traced'.tokens + CostsAtWork' = ledger'.tokens
               /\ ledger'.tools < ToolLimit => traced'.tools + ToolsAtWork' = ledger'.tools
    <3>2. traced'.tokens + CostsAtWork' = ledger'.tokens
      <4>1. traced'.tokens + state.cost + ledger.tokens = ledger'.tokens + traced.tokens + hand[h].cost
          BY <2>9
      <4>2. traced.tokens + CostsAtWork = ledger.tokens
          BY <1>2, <2>9 DEF LedgerInv
      <4>3. PICK t \in Nat, l \in Nat, m \in Nat, u \in Nat, p \in Nat, q \in Nat,
                 x \in Nat, y \in Nat :
                    /\ t = traced.tokens /\ u = traced'.tokens /\ l = ledger.tokens /\ m = ledger'.tokens
                    /\ p = CostsAtWork /\ q = CostsAtWork' /\ x = hand[h].cost /\ y = state.cost
          BY <2>1, <2>2, <2>5
      <4>4. u + y + l = m + t + x /\ t + p = l /\ q + x = p + y
          BY <2>1, <4>1, <4>2, <4>3
      <4>5. u + q = m
          BY <4>4
      <4> QED BY <4>3, <4>5
    <3>3. ASSUME ledger'.tools < ToolLimit PROVE traced'.tools + ToolsAtWork' = ledger'.tools
      <4>1. /\ ledger.tools < ToolLimit
            /\ traced'.tools + d + ledger.tools = ledger'.tools + traced.tools + c
          BY <2>9, <3>3 DEF c, d
      <4>2. traced.tools + ToolsAtWork = ledger.tools
          BY <1>2, <2>9, <4>1 DEF LedgerInv
      <4>3. PICK t \in Nat, l \in Nat, m \in Nat, u \in Nat, p \in Nat, q \in Nat,
                 x \in Nat, y \in Nat :
                    /\ t = traced.tools /\ u = traced'.tools /\ l = ledger.tools /\ m = ledger'.tools
                    /\ p = ToolsAtWork /\ q = ToolsAtWork' /\ x = c /\ y = d
          BY <2>1, <2>2, <2>5
      <4>4. u + y + l = m + t + x /\ t + p = l /\ q + x = p + y
          BY <2>1, <4>1, <4>2, <4>3
      <4>5. u + q = m
          BY <4>4
      <4> QED BY <4>3, <4>5
    <3> QED BY <3>2, <3>3
  <2>10. traced'.calls <= ledger'.calls
      BY <2>1, <2>5, <2>6
  <2> QED BY <2>6, <2>7, <2>8, <2>9, <2>10 DEF LedgerInv
<1>8. LackInv'
  <2>1. ledger \in Amounts /\ storeErrors' \in Nat
      BY AccountingAssumption DEF AccInv, AccShapeInv, Amounts
  <2> QED BY <1>1, <1>2, <2>1, LackPut
<1> QED BY <1>4, <1>5, <1>6, <1>7, <1>8 DEF TraceInv

\* What is known of an agent that is at something
LEMMA AtTrace ==
    ASSUME AccInv, TraceInv, NEW h \in Helpers
    PROVE  /\ hand[h] \in Hands /\ Carried(hand[h])
           /\ ledger \in Amounts /\ traced \in Amounts /\ storeErrors \in 0..MaxStoreErrors
           /\ ledger.tools <= ToolLimit
           /\ hand[h].kind \in {"none", "turn", "summary"}
           /\ hand[h].cost \in Nat /\ hand[h].size \in Nat /\ hand[h].todo \in Nat
           /\ ~Resting(h) => coordinator = "open"
           /\ Awaited(hand[h]) \in Nat /\ Unreported(hand[h]) \in Nat
           /\ RowInv /\ rowless \in [Helpers -> Nat]
<1>1. hand[h] \in Hands /\ Carried(hand[h])
    BY DEF AccInv, AccShapeInv, TraceInv, CarryInv
<1>2. /\ ledger \in Amounts /\ traced \in Amounts /\ storeErrors \in 0..MaxStoreErrors
      /\ ledger.tools <= ToolLimit
    BY DEF AccInv, AccShapeInv, CountInv, TraceInv, RowInv, Amounts
<1>3. ~Resting(h) => coordinator = "open"
    BY DEF TraceInv, SpanInv
<1>4. Awaited(hand[h]) \in Nat /\ Unreported(hand[h]) \in Nat
    BY <1>1 DEF Awaited, Unreported, Hands, Carried
<1>5. RowInv /\ rowless \in [Helpers -> Nat]
    BY DEF TraceInv, RowInv
<1> QED BY <1>1, <1>2, <1>3, <1>4, <1>5 DEF Hands

\* An agent with nothing at work
Bare(state) ==
    /\ Awaited(state) = 0 /\ state.cost = 0 /\ Unreported(state) = 0 /\ Carried(state)

LEMMA BareAt ==
    ASSUME NEW at \in {"free", "ending", "done"}, NEW state, state = [NoHand EXCEPT !.at = at]
    PROVE  /\ state \in Hands /\ state.at = at /\ Bare(state)
           /\ Spare(state) = IF at = "free" THEN 0 ELSE 2
<1>1. state \in Hands
    BY DEF NoHand, Hands
<1>2. /\ state.at = at /\ state.cost = 0 /\ state.size = 0 /\ state.todo = 0
      /\ state.kind = "none"
    BY DEF NoHand
<1> QED BY <1>1, <1>2 DEF Bare, Awaited, Unreported, Carried, Spare

LEMMA BareMove ==
    ASSUME NEW h \in Helpers, NEW at \in {"free", "retry", "ending"},
           NEW kind \in {"none", "turn", "summary"},
           Put(h, [NoHand EXCEPT !.at = at, !.kind = kind])
    PROVE  \E state \in Hands :
               /\ Put(h, state) /\ Bare(state) /\ state.at \notin {"off", "done"}
               /\ Spare(state) = IF at = "ending" THEN 2
                                 ELSE IF at = "free" /\ kind = "summary" THEN 1 ELSE 0
<1> DEFINE state == [NoHand EXCEPT !.at = at, !.kind = kind]
<1>1. Put(h, state)
    OBVIOUS
<1>2. state \in Hands
    BY DEF NoHand, Hands
<1>3. /\ state.at = at /\ state.cost = 0 /\ state.size = 0 /\ state.todo = 0
      /\ state.kind = kind
    BY DEF NoHand
<1> HIDE DEF state
<1>4. Bare(state)
    BY <1>3 DEF Bare, Awaited, Unreported, Carried
<1>5. Spare(state) = IF at = "ending" THEN 2
                     ELSE IF at = "free" /\ kind = "summary" THEN 1 ELSE 0
    BY <1>3 DEF Spare
<1> QED BY <1>1, <1>2, <1>3, <1>4, <1>5

LEMMA RaisedIs ==
    ASSUME NEW h \in Helpers, NEW kind \in {"none", "turn", "summary"}, Raised(h, kind)
    PROVE  \E state \in Hands :
               /\ Put(h, state) /\ Bare(state) /\ state.at \notin {"off", "done"}
               /\ Spare(state) = IF kind = "summary" THEN 1 ELSE 2
<1>1. CASE kind = "summary"
  <2>1. Put(h, [NoHand EXCEPT !.at = "free", !.kind = kind])
      BY <1>1 DEF Raised
  <2> QED BY <1>1, <2>1, BareMove
<1>2. CASE kind # "summary"
  <2>1. Put(h, [NoHand EXCEPT !.at = "ending", !.kind = kind])
      BY <1>2 DEF Raised
  <2> QED BY <1>2, <2>1, BareMove
<1> QED BY <1>1, <1>2

LEMMA AffordsPlain ==
    ASSUME NEW h \in Helpers, NEW state, storeErrors \in Nat, storeErrors' \in Nat,
           storeErrors <= storeErrors', ~Passed(ledger.tokens) \/ Spare(hand[h]) <= Spare(state)
    PROVE  Affords(h, state, 0)
<1>1. PICK e \in Nat, d \in Nat, x \in 0..2, y \in 0..2 :
          e = storeErrors /\ d = storeErrors' /\ x = Spare(hand[h]) /\ y = Spare(state)
    BY DEF Spare
<1>2. CASE Passed(ledger.tokens)
  <2>1. 0 + e + x <= d + y /\ 0 + e <= d
      BY <1>1, <1>2
  <2> QED BY <1>1, <1>2, <2>1 DEF Affords
<1>3. CASE ~Passed(ledger.tokens)
  <2>1. 0 + e + 0 <= d + y /\ 0 + e <= d
      BY <1>1
  <2> QED BY <1>1, <1>3, <2>1 DEF Affords
<1> QED BY <1>2, <1>3

\* An agent that is not charging has nothing of its call in hand.
LEMMA Unburdened ==
    ASSUME AccInv, TraceInv, NEW h \in Helpers, hand[h].at \in {"free", "retry", "ending", "off"}
    PROVE  Awaited(hand[h]) = 0 /\ hand[h].cost = 0 /\ Unreported(hand[h]) = 0
BY AtTrace DEF Carried, Awaited, Unreported

LEMMA ExactBack ==
    ASSUME AccInv, TraceInv, UNCHANGED rest, ledger' \in Amounts, ledger.tokens <= ledger'.tokens,
           storeErrors' \in Nat, storeErrors <= storeErrors', Exact'
    PROVE  Exact
<1>1. /\ expired' = expired /\ coordinator' = coordinator
      /\ ledger \in Amounts /\ storeErrors \in Nat
    BY AccountingAssumption DEF rest, TraceInv, RowInv, AccInv, AccShapeInv, Amounts
<1>2. ledger.tokens \in Nat /\ ledger'.tokens \in Nat /\ TokenLimit \in Nat
    BY <1>1, AccountingAssumption DEF Amounts
<1> QED BY <1>1, <1>2 DEF Exact, Passed

\* A move after which the agent has nothing at work, and no row was written
LEMMA TraceBare ==
    ASSUME AccInv, TraceInv, NEW h \in Helpers, NEW state \in Hands, Put(h, state), Bare(state),
           UNCHANGED <<rest, traced>>, coordinator = "open", ledger' \in Amounts,
           ledger'.calls = ledger.calls, ledger'.tools = ledger.tools,
           ledger.tokens <= ledger'.tokens,
           storeErrors' \in 0..MaxStoreErrors, storeErrors <= storeErrors',
           NEW n \in {0, 1}, Loses(h, n), Affords(h, state, n), SpanStep(h, state),
           Awaited(hand[h]) = n,
           \/ ~Exact'
           \/ /\ UNCHANGED ledger /\ hand[h].cost = 0
              /\ Unreported(hand[h]) = 0 \/ (Exact' => ~(ledger.tools < ToolLimit))
    PROVE  TraceInv'
<1>1. /\ traced' = traced /\ UNCHANGED rest /\ storeErrors' \in Nat
      /\ ledger \in Amounts /\ traced' \in Amounts
    BY AtTrace, AccountingAssumption
<1>2. /\ Awaited(state) = 0 /\ state.cost = 0 /\ Unreported(state) = 0 /\ Carried(state)
    BY DEF Bare
<1>3. /\ Unreported(hand[h]) \in Nat /\ hand[h].cost \in Nat
      /\ ledger.calls \in Nat /\ ledger.tools \in Nat /\ ledger.tokens \in Nat
      /\ traced.calls \in Nat /\ traced.tools \in Nat /\ traced.tokens \in Nat
      /\ ledger'.tokens \in Nat
    BY <1>1, AtTrace DEF Amounts
<1>4. /\ traced'.calls + Awaited(state) + n + ledger.calls
               = ledger'.calls + traced.calls + Awaited(hand[h])
      /\ traced'.tools + Unreported(state) + ledger.tools
               <= ledger'.tools + traced.tools + Unreported(hand[h])
    BY <1>1, <1>2, <1>3
<1>5. traced'.tokens + state.cost + ledger.tokens
               <= ledger'.tokens + traced.tokens + hand[h].cost
    BY <1>1, <1>2, <1>3
<1>6. ASSUME Exact'
      PROVE  /\ Exact
             /\ traced'.tokens + state.cost + ledger.tokens
                   = ledger'.tokens + traced.tokens + hand[h].cost
             /\ ledger'.tools < ToolLimit =>
                  /\ ledger.tools < ToolLimit
                  /\ traced'.tools + Unreported(state) + ledger.tools
                        = ledger'.tools + traced.tools + Unreported(hand[h])
  <2>1. Exact
      BY <1>1, <1>6, ExactBack
  <2>2. /\ ledger' = ledger /\ hand[h].cost = 0
        /\ ledger.tools < ToolLimit => Unreported(hand[h]) = 0
      BY <1>6
  <2> QED BY <1>1, <1>2, <1>3, <2>1, <2>2
<1> HIDE DEF Amounts
<1> QED BY <1>1, <1>2, <1>4, <1>5, <1>6, TracePut

LEMMA StoreCounts ==
    ASSUME RowInv, StoreRefuses \/ UNCHANGED storeErrors
    PROVE  /\ storeErrors \in Nat /\ storeErrors' \in Nat
           /\ storeErrors' \in 0..MaxStoreErrors /\ storeErrors <= storeErrors'
BY AccountingAssumption DEF RowInv, StoreRefuses

LEMMA TraceStart ==
    ASSUME AccInv, TraceInv, NEW h \in Helpers, StartHelper(h) \/ EndHelper(h) PROVE TraceInv'
<1>0. RowInv /\ rowless \in [Helpers -> Nat] /\ ledger \in Amounts
    BY AtTrace
<1>1. /\ UNCHANGED <<ledger, rest, traced, rowless>>
      /\ StoreRefuses \/ UNCHANGED storeErrors
      /\ hand[h].at \in {"off", "ending", "free"}
    BY DEF StartHelper, EndHelper, OpenSpan, NoSpan, EndSpan
<1>2. /\ storeErrors \in Nat /\ storeErrors' \in Nat
      /\ storeErrors' \in 0..MaxStoreErrors /\ storeErrors <= storeErrors'
    BY <1>0, <1>1, StoreCounts
<1>3. /\ Awaited(hand[h]) = 0 /\ hand[h].cost = 0 /\ Unreported(hand[h]) = 0 /\ Loses(h, 0)
    BY <1>0, <1>1, LosesNone, Unburdened
<1>4. /\ ledger' \in Amounts /\ ledger'.calls = ledger.calls /\ ledger'.tools = ledger.tools
      /\ ledger.tokens <= ledger'.tokens
    BY <1>0, <1>1 DEF Amounts
<1>5. PICK at \in {"free", "done"} :
          /\ Put(h, [NoHand EXCEPT !.at = at]) /\ coordinator = "open"
          /\ Spare(hand[h]) <= IF at = "free" THEN 0 ELSE 2
          /\ \/ at = "free" /\ spans' = [spans EXCEPT ![h] = "running"] /\ UNCHANGED unclosed
             \/ hand[h].at = "off" /\ UNCHANGED <<spans, unclosed>>
             \/ spans' = [spans EXCEPT ![h] = "ended"] /\ UNCHANGED unclosed
             \/ UNCHANGED spans /\ unclosed' = unclosed \cup {h}
  <2>1. CASE StartHelper(h)
    <3>1. Spare(hand[h]) = 0
        BY <2>1 DEF StartHelper, Spare
    <3> QED BY <2>1, <3>1 DEF StartHelper, OpenSpan, NoSpan, SetSpan
  <2>2. CASE EndHelper(h)
    <3>1. Spare(hand[h]) <= 2 /\ ~Resting(h)
        BY <2>2 DEF EndHelper, Spare, Resting
    <3>2. coordinator = "open"
        BY <3>1, AtTrace
    <3> QED BY <2>2, <3>1, <3>2 DEF EndHelper, EndSpan, SetSpan
  <2> QED BY <2>1, <2>2
<1> DEFINE state == [NoHand EXCEPT !.at = at]
<1>6. /\ state \in Hands /\ state.at = at /\ Bare(state)
      /\ Spare(state) = IF at = "free" THEN 0 ELSE 2
    BY BareAt
<1>7. Put(h, state)
    BY <1>5
<1> HIDE DEF state
<1>8. SpanStep(h, state)
  <2>1. /\ spans \in [Helpers \cup {"root"} -> SpanStates]
        /\ hand[h].at = "off" /\ spans[h] = "running" => h \in unclosed
      BY <1>0, <1>5 DEF RowInv, TraceInv, SpanInv, Resting
  <2>2. CASE spans' = [spans EXCEPT ![h] = "running"] /\ at = "free" /\ UNCHANGED unclosed
      BY <1>6, <2>1, <2>2 DEF SpanStep, SpanStates
  <2>3. CASE spans' = [spans EXCEPT ![h] = "ended"] /\ UNCHANGED unclosed
      BY <1>6, <2>1, <2>3 DEF SpanStep, SpanStates
  <2>4. CASE hand[h].at = "off" /\ UNCHANGED <<spans, unclosed>>
      BY <2>1, <2>4 DEF SpanStep
  <2>5. CASE UNCHANGED spans /\ unclosed' = unclosed \cup {h}
      BY <2>1, <2>5 DEF SpanStep
  <2> QED BY <1>5, <2>2, <2>3, <2>4, <2>5
<1>9. Affords(h, state, 0)
    BY <1>2, <1>5, <1>6, AffordsPlain
<1> QED BY <1>1, <1>2, <1>3, <1>4, <1>5, <1>6, <1>7, <1>8, <1>9, TraceBare

LEMMA TraceBegin ==
    ASSUME AccInv, TraceInv, NEW h \in Helpers, NEW kind \in {"turn", "summary"},
           BeginModelCall(h, kind)
    PROVE  TraceInv'
<1>1. /\ hand[h].at \in {"free", "retry"}
      /\ UNCHANGED <<rest, spans, traced, storeErrors, rowless, unclosed>>
      /\ hand[h].at = "free" /\ kind = "summary" => hand[h].kind # "summary"
    BY DEF BeginModelCall
<1>2. /\ storeErrors' \in 0..MaxStoreErrors /\ storeErrors <= storeErrors'
      /\ storeErrors' \in Nat /\ storeErrors \in Nat /\ RowInv
      /\ coordinator = "open" /\ ~Resting(h) /\ ledger \in Amounts /\ traced \in Amounts
    BY <1>1, AtTrace, AccountingAssumption DEF Resting
<1>3. Awaited(hand[h]) = 0 /\ hand[h].cost = 0 /\ Unreported(hand[h]) = 0
    BY <1>1, Unburdened
<1>6. Loses(h, 0)
    BY <1>1, AtTrace, LosesNone
<1>7. Spare(hand[h]) \in {0, 1} /\ (kind = "summary" => Spare(hand[h]) = 0)
    BY <1>1 DEF Spare
<1>4. CASE Raised(h, kind) /\ UNCHANGED ledger
  <2>1. PICK state \in Hands :
            /\ Put(h, state) /\ Bare(state) /\ state.at \notin {"off", "done"}
            /\ Spare(state) = IF kind = "summary" THEN 1 ELSE 2
      BY <1>4, RaisedIs
  <2>2. SpanStep(h, state)
      BY <1>1, <1>2, <2>1, SpansKept
  <2>3. Affords(h, state, 0)
    <3>1. Spare(hand[h]) <= Spare(state)
        BY <1>7, <2>1
    <3> QED BY <1>2, <3>1, AffordsPlain
  <2>4. /\ ledger' \in Amounts /\ ledger'.calls = ledger.calls /\ ledger'.tools = ledger.tools
        /\ ledger.tokens <= ledger'.tokens
      BY <1>2, <1>4 DEF Amounts
  <2> QED BY <1>1, <1>2, <1>3, <1>4, <1>6, <2>1, <2>2, <2>3, <2>4, TraceBare
<1>5. CASE /\ Admit("calls", CallLimit)
           /\ Put(h, [NoHand EXCEPT !.at = "calling", !.kind = kind])
  <2> DEFINE state == [NoHand EXCEPT !.at = "calling", !.kind = kind]
  <2>0. state \in Hands
      BY DEF NoHand, Hands
  <2>1. /\ state.at = "calling" /\ Carried(state)
        /\ Awaited(state) = 1 /\ state.cost = 0 /\ Unreported(state) = 0
        /\ Spare(state) = IF kind = "turn" THEN 1 ELSE 0
    <3>1. /\ state.at = "calling" /\ state.cost = 0 /\ state.size = 0 /\ state.todo = 0
          /\ state.kind = kind
        BY DEF NoHand
    <3> QED BY <3>1 DEF Carried, Awaited, Unreported, Spare
  <2>2. Put(h, state)
      BY <1>5
  <2> HIDE DEF state
  <2>3. /\ ledger' \in Amounts /\ traced' \in Amounts /\ traced' = traced
        /\ ledger'.calls = ledger.calls + 1 /\ ledger'.tools = ledger.tools
        /\ ledger'.tokens = ledger.tokens
        /\ ledger.calls \in Nat /\ ledger.tools \in Nat /\ ledger.tokens \in Nat
        /\ traced.calls \in Nat /\ traced.tools \in Nat /\ traced.tokens \in Nat
      BY <1>1, <1>2, <1>5 DEF Admit, Amounts
  <2>4. (Exact' => Exact) /\ ledger.tokens <= ledger'.tokens
    <3>1. ledger.tokens <= ledger'.tokens
        BY <2>3
    <3> QED BY <1>1, <1>2, <2>3, <3>1, ExactBack
  <2>5. /\ traced'.calls + Awaited(state) + 0 + ledger.calls
              = ledger'.calls + traced.calls + Awaited(hand[h])
        /\ traced'.tokens + state.cost + ledger.tokens
              = ledger'.tokens + traced.tokens + hand[h].cost
        /\ traced'.tools + Unreported(state) + ledger.tools
              = ledger'.tools + traced.tools + Unreported(hand[h])
    <3>1. PICK a \in Nat, b \in Nat : /\ traced.calls = a /\ traced'.calls = a
                                      /\ ledger.calls = b /\ ledger'.calls = b + 1
        BY <2>3
    <3>2. PICK c \in Nat, d \in Nat : /\ traced.tokens = c /\ traced'.tokens = c
                                      /\ ledger.tokens = d /\ ledger'.tokens = d
        BY <2>3
    <3>3. PICK e \in Nat, f \in Nat : /\ traced.tools = e /\ traced'.tools = e
                                      /\ ledger.tools = f /\ ledger'.tools = f
        BY <2>3
    <3>4. a + 1 + 0 + b = (b + 1) + a + 0
        OBVIOUS
    <3>5. c + 0 + d = d + c + 0 /\ e + 0 + f = f + e + 0
        OBVIOUS
    <3> QED BY <1>3, <2>1, <3>1, <3>2, <3>3, <3>4, <3>5, Zenon
  <2>6. /\ traced'.tokens + state.cost + ledger.tokens
              <= ledger'.tokens + traced.tokens + hand[h].cost
        /\ traced'.tools + Unreported(state) + ledger.tools
              <= ledger'.tools + traced.tools + Unreported(hand[h])
    <3>1. traced'.tokens + state.cost + ledger.tokens \in Nat
        BY <2>1, <2>3
    <3>2. traced'.tools + Unreported(state) + ledger.tools \in Nat
        BY <2>1, <2>3
    <3>3. \A x \in Nat : \A y : x = y => x <= y
        OBVIOUS
    <3> QED BY <2>5, <3>1, <3>2, <3>3, Zenon
  <2>7. SpanStep(h, state)
      BY <1>1, <1>2, <2>1, SpansKept
  <2>8. Affords(h, state, 0)
    <3>1. Spare(hand[h]) <= Spare(state)
        BY <1>7, <2>1
    <3> QED BY <1>2, <3>1, AffordsPlain
  <2> QED BY <1>1, <1>2, <1>6, <2>0, <2>1, <2>2, <2>3, <2>4, <2>5, <2>6, <2>7, <2>8, TracePut
<1> QED BY <1>4, <1>5 DEF BeginModelCall

\* An exception that no exact account has to tell of
LEMMA TraceRaised ==
    ASSUME AccInv, TraceInv, NEW h \in Helpers, NEW kind \in {"none", "turn", "summary"},
           Raised(h, kind), ~Exact', ~Resting(h), ledger' \in Amounts, traced' = traced,
           ledger'.calls = ledger.calls, ledger'.tools = ledger.tools,
           ledger.tokens <= ledger'.tokens, UNCHANGED <<rest, spans, unclosed>>,
           storeErrors' \in 0..MaxStoreErrors, storeErrors <= storeErrors',
           NEW n \in {0, 1}, Loses(h, n), Awaited(hand[h]) = n,
           n + storeErrors + (IF Passed(ledger.tokens) THEN Spare(hand[h]) ELSE 0)
               <= storeErrors' + (IF kind = "summary" THEN 1 ELSE 2),
           Passed(ledger.tokens)' \/ n + storeErrors <= storeErrors'
    PROVE  TraceInv'
<1>1. PICK state \in Hands :
          /\ Put(h, state) /\ Bare(state) /\ state.at \notin {"off", "done"}
          /\ Spare(state) = IF kind = "summary" THEN 1 ELSE 2
    BY RaisedIs
<1>2. SpanStep(h, state)
    BY <1>1, AtTrace, SpansKept
<1>3. Affords(h, state, n)
    BY <1>1 DEF Affords
<1>4. coordinator = "open"
    BY AtTrace
<1> QED BY <1>1, <1>2, <1>3, <1>4, TraceBare

LEMMA TraceCharge ==
    ASSUME AccInv, TraceInv, NEW h \in Helpers, NEW cost \in Prices \cup {0}, NEW failed \in BOOLEAN,
           ChargeModelCall(h, cost, failed)
    PROVE  TraceInv'
<1> DEFINE tokens == ledger.tokens + cost
<1>1. /\ hand[h].at = "calling"
      /\ UNCHANGED <<rest, spans, traced, storeErrors, unclosed>>
      /\ ledger' = [ledger EXCEPT !.tokens = tokens]
    BY DEF ChargeModelCall
<1>2. /\ storeErrors' \in 0..MaxStoreErrors /\ storeErrors <= storeErrors'
      /\ storeErrors' \in Nat /\ hand[h] \in Hands /\ Carried(hand[h])
      /\ storeErrors \in Nat /\ RowInv /\ rowless \in [Helpers -> Nat]
      /\ coordinator = "open" /\ ~Resting(h) /\ ledger \in Amounts /\ traced \in Amounts
      /\ hand[h].kind \in {"none", "turn", "summary"}
    BY <1>1, AtTrace, AccountingAssumption DEF Resting
<1>3. cost \in Nat
    BY AccountingAssumption
<1>4. /\ ledger' \in Amounts /\ traced' \in Amounts /\ traced' = traced
      /\ ledger'.calls = ledger.calls /\ ledger'.tools = ledger.tools
      /\ ledger'.tokens = ledger.tokens + cost /\ ledger.tokens <= ledger'.tokens
      /\ ledger.calls \in Nat /\ ledger.tools \in Nat /\ ledger.tokens \in Nat
      /\ traced.calls \in Nat /\ traced.tools \in Nat /\ traced.tokens \in Nat
    BY <1>1, <1>2, <1>3 DEF Amounts
<1>5. CASE Passed(tokens)
  <2>1. Raised(h, hand[h].kind) /\ Loses(h, 1)
      BY <1>2, <1>5, LosesOne DEF ChargeModelCall
  <2>2. ~Exact' /\ Passed(ledger.tokens)'
      BY <1>1, <1>4, <1>5 DEF Passed, Exact, rest
  <2>3. /\ Awaited(hand[h]) = 1
        /\ Spare(hand[h]) = IF hand[h].kind = "turn" THEN 1 ELSE 0
      BY <1>1 DEF Awaited, Spare
  <2>4. 1 + storeErrors + (IF Passed(ledger.tokens) THEN Spare(hand[h]) ELSE 0)
            <= storeErrors' + (IF hand[h].kind = "summary" THEN 1 ELSE 2)
    <3>1. PICK e \in Nat : e = storeErrors /\ e = storeErrors'
        BY <1>1, <1>2
    <3>2. PICK x \in 0..1, y \in 1..2 :
              /\ x = IF Passed(ledger.tokens) THEN Spare(hand[h]) ELSE 0
              /\ y = IF hand[h].kind = "summary" THEN 1 ELSE 2
              /\ x < y
        BY <2>3
    <3>3. 1 + e + x <= e + y
        BY <3>2
    <3> QED BY <3>1, <3>2, <3>3
  <2> QED BY <1>1, <1>2, <1>4, <2>1, <2>2, <2>3, <2>4, TraceRaised
<1>6. CASE ~Passed(tokens)
  <2> DEFINE state == [hand[h] EXCEPT !.at = "charged", !.cost = cost, !.failed = failed]
  <2>1. /\ state \in Hands /\ Carried(state)
        /\ Awaited(state) = 1 /\ state.cost = cost /\ Unreported(state) = 0
        /\ state.at \notin {"off", "done"}
      BY <1>2, <1>3 DEF Hands, Carried, Awaited, Unreported
  <2>2. Put(h, state) /\ Loses(h, 0)
      BY <1>2, <1>6, LosesNone DEF ChargeModelCall
  <2> HIDE DEF state
  <2>3. Awaited(hand[h]) = 1 /\ hand[h].cost = 0 /\ Unreported(hand[h]) = 0
      BY <1>1, <1>2 DEF Carried, Awaited, Unreported
  <2>4. Exact' => Exact
      BY <1>1, <1>2, <1>4, ExactBack
  <2>5. /\ traced'.calls + Awaited(state) + 0 + ledger.calls
              = ledger'.calls + traced.calls + Awaited(hand[h])
        /\ traced'.tokens + state.cost + ledger.tokens
              = ledger'.tokens + traced.tokens + hand[h].cost
        /\ traced'.tools + Unreported(state) + ledger.tools
              = ledger'.tools + traced.tools + Unreported(hand[h])
      BY <1>3, <1>4, <2>1, <2>3
  <2>6. /\ traced'.tokens + state.cost + ledger.tokens
              <= ledger'.tokens + traced.tokens + hand[h].cost
        /\ traced'.tools + Unreported(state) + ledger.tools
              <= ledger'.tools + traced.tools + Unreported(hand[h])
      BY <1>3, <1>4, <2>1, <2>3
  <2>7. SpanStep(h, state)
      BY <1>1, <1>2, <2>1, SpansKept
  <2>8. ~Passed(ledger.tokens)
    <3>1. ledger.tokens \in Nat /\ TokenLimit \in Nat
        BY <1>4, AccountingAssumption
    <3> QED BY <1>3, <1>6, <3>1 DEF Passed
  <2>9. Affords(h, state, 0)
      BY <1>2, <2>8, AffordsPlain
  <2> QED BY <1>1, <1>2, <1>4, <2>1, <2>2, <2>4, <2>5, <2>6, <2>7, <2>9, TracePut
<1> QED BY <1>5, <1>6

LEMMA TraceRecord ==
    ASSUME AccInv, TraceInv, NEW h \in Helpers, RecordModelCall(h) PROVE TraceInv'
<1>1. /\ hand[h].at = "charged"
      /\ UNCHANGED <<ledger, rest, spans, storeErrors, rowless, unclosed>>
      /\ traced' = [traced EXCEPT !.calls = @ + 1, !.tokens = @ + hand[h].cost]
    BY DEF RecordModelCall, ModelRow
<1>2. /\ storeErrors' \in 0..MaxStoreErrors /\ storeErrors <= storeErrors'
      /\ storeErrors' \in Nat /\ hand[h].cost \in Nat
      /\ storeErrors \in Nat /\ RowInv /\ rowless \in [Helpers -> Nat]
      /\ coordinator = "open" /\ ~Resting(h) /\ ledger \in Amounts /\ traced \in Amounts
      /\ hand[h].kind \in {"none", "turn", "summary"}
    BY <1>1, AtTrace, AccountingAssumption DEF Resting
<1>3. /\ ledger' = ledger /\ ledger' \in Amounts /\ traced' \in Amounts
      /\ traced'.calls = traced.calls + 1 /\ traced'.tools = traced.tools
      /\ traced'.tokens = traced.tokens + hand[h].cost
      /\ ledger.calls \in Nat /\ ledger.tools \in Nat /\ ledger.tokens \in Nat
      /\ traced.calls \in Nat /\ traced.tools \in Nat /\ traced.tokens \in Nat
  <2>1. PICK cost \in Nat : cost = hand[h].cost
      BY <1>2
  <2>2. traced' = [traced EXCEPT !.calls = @ + 1, !.tokens = @ + cost]
      BY <1>1, <2>1
  <2>3. /\ traced' \in Amounts /\ traced'.calls = traced.calls + 1
        /\ traced'.tools = traced.tools /\ traced'.tokens = traced.tokens + cost
    <3>1. /\ traced.calls \in Nat /\ traced.tools \in Nat /\ traced.tokens \in Nat
          /\ traced = [calls |-> traced.calls, tools |-> traced.tools, tokens |-> traced.tokens]
        BY <1>2 DEF Amounts
    <3>2. traced' = [calls |-> traced.calls + 1, tools |-> traced.tools,
                     tokens |-> traced.tokens + cost]
        BY <2>2, <3>1
    <3>3. traced.calls + 1 \in Nat /\ traced.tokens + cost \in Nat
        BY <3>1
    <3> QED BY <3>1, <3>2, <3>3 DEF Amounts
  <2> QED BY <1>1, <1>2, <2>1, <2>3 DEF Amounts
<1>4. PICK state \in Hands : Put(h, state) /\ Bare(state) /\ state.at \notin {"off", "done"}
  <2>1. CASE Put(h, [NoHand EXCEPT !.at = IF hand[h].failed THEN "retry" ELSE "free",
                                   !.kind = hand[h].kind])
    <3>1. PICK kind \in {"none", "turn", "summary"} : kind = hand[h].kind
        BY <1>2
    <3>2. CASE hand[h].failed
      <4>1. Put(h, [NoHand EXCEPT !.at = "retry", !.kind = kind])
          BY <2>1, <3>1, <3>2
      <4> QED BY <4>1, BareMove
    <3>3. CASE ~hand[h].failed
      <4>1. Put(h, [NoHand EXCEPT !.at = "free", !.kind = kind])
          BY <2>1, <3>1, <3>3
      <4> QED BY <4>1, BareMove
    <3> QED BY <3>2, <3>3
  <2>2. CASE Raised(h, hand[h].kind)
      BY <1>2, <2>2, RaisedIs
  <2> QED BY <2>1, <2>2 DEF RecordModelCall
<1>5. /\ Awaited(state) = 0 /\ state.cost = 0 /\ Unreported(state) = 0 /\ Carried(state)
    BY <1>4 DEF Bare
<1>6. Awaited(hand[h]) = 1 /\ Unreported(hand[h]) = 0
    BY <1>1 DEF Awaited, Unreported
<1>7. (Exact' => Exact) /\ ledger.tokens <= ledger'.tokens
  <2>1. ledger.tokens <= ledger'.tokens
      BY <1>3
  <2> QED BY <1>1, <1>2, <1>3, <2>1, ExactBack
<1>8. /\ traced'.calls + Awaited(state) + 0 + ledger.calls
            = ledger'.calls + traced.calls + Awaited(hand[h])
      /\ traced'.tokens + state.cost + ledger.tokens
            = ledger'.tokens + traced.tokens + hand[h].cost
      /\ traced'.tools + Unreported(state) + ledger.tools
            = ledger'.tools + traced.tools + Unreported(hand[h])
    BY <1>2, <1>3, <1>5, <1>6
<1>9. /\ traced'.tokens + state.cost + ledger.tokens
            <= ledger'.tokens + traced.tokens + hand[h].cost
      /\ traced'.tools + Unreported(state) + ledger.tools
            <= ledger'.tools + traced.tools + Unreported(hand[h])
    BY <1>2, <1>3, <1>5, <1>6
<1>10. Loses(h, 0) /\ SpanStep(h, state)
    BY <1>1, <1>2, <1>4, LosesNone, SpansKept
<1>11. Affords(h, state, 0)
  <2>1. Spare(hand[h]) = 0 /\ Spare(state) \in 0..2
      BY <1>1 DEF Spare
  <2> QED BY <1>1, <1>2, <2>1, AffordsPlain
<1> QED BY <1>1, <1>2, <1>3, <1>4, <1>5, <1>7, <1>8, <1>9, <1>10, <1>11, TracePut

\* The row is refused, and so the trace may lack what was charged.
LEMMA TraceRefused ==
    ASSUME AccInv, TraceInv, NEW h \in Helpers, RowRefused(h) PROVE TraceInv'
<1>1. /\ hand[h].at \in {"charged", "reporting"} /\ storeErrors < MaxStoreErrors
      /\ storeErrors' = storeErrors + 1
      /\ UNCHANGED <<ledger, rest, spans, traced, unclosed>>
    BY DEF RowRefused, StoreRefuses
<1>2. /\ storeErrors \in Nat /\ ~Resting(h) /\ ledger \in Amounts
      /\ hand[h].kind \in {"none", "turn", "summary"}
      /\ RowInv /\ rowless \in [Helpers -> Nat]
    BY <1>1, AtTrace, AccountingAssumption DEF Resting
<1>3. /\ storeErrors' \in 0..MaxStoreErrors /\ storeErrors' # 0 /\ storeErrors <= storeErrors'
      /\ storeErrors' \in Nat
    BY <1>1, <1>2, AccountingAssumption
<1>4. ~Exact'
    BY <1>3 DEF Exact
<1>5. /\ ledger' \in Amounts /\ ledger' = ledger /\ ledger.tokens <= ledger'.tokens
      /\ ledger'.calls = ledger.calls /\ ledger'.tools = ledger.tools
    BY <1>1, <1>2 DEF Amounts
<1>6. Spare(hand[h]) = 0 /\ Awaited(hand[h]) = IF hand[h].at = "charged" THEN 1 ELSE 0
    BY <1>1 DEF Spare, Awaited
<1>7. PICK kind \in {"none", "turn", "summary"}, n \in {0, 1} :
          /\ Raised(h, kind) /\ Loses(h, n) /\ Awaited(hand[h]) = n
  <2>1. CASE hand[h].at = "charged"
    <3>1. Raised(h, hand[h].kind) /\ Loses(h, 1)
        BY <1>2, <2>1, LosesOne DEF RowRefused
    <3> QED BY <1>2, <1>6, <2>1, <3>1
  <2>2. CASE hand[h].at = "reporting"
    <3>1. Raised(h, "turn") /\ Loses(h, 0)
        BY <1>2, <2>2, LosesNone DEF RowRefused
    <3> QED BY <1>6, <2>2, <3>1
  <2> QED BY <1>1, <2>1, <2>2
<1>8. /\ n + storeErrors + (IF Passed(ledger.tokens) THEN Spare(hand[h]) ELSE 0)
            <= storeErrors' + (IF kind = "summary" THEN 1 ELSE 2)
      /\ n + storeErrors <= storeErrors'
    BY <1>1, <1>2, <1>6
<1> QED BY <1>1, <1>2, <1>3, <1>4, <1>5, <1>7, <1>8, TraceRaised

LEMMA TraceAsk ==
    ASSUME AccInv, TraceInv, NEW h \in Helpers, NEW size \in BatchSizes, AskForTools(h, size)
    PROVE  TraceInv'
<1>1. /\ hand[h].at = "free" /\ hand[h].kind = "turn"
      /\ UNCHANGED <<ledger, rest, traced, spans, storeErrors, rowless, unclosed>>
    BY DEF AskForTools
<1> DEFINE state == [NoHand EXCEPT !.at = "admitting", !.size = size, !.todo = size]
<1>2. size \in Nat /\ size >= 1
    BY AccountingAssumption
<1>3. state \in Hands
    BY <1>2 DEF NoHand, Hands
<1>4. state.at = "admitting" /\ Bare(state)
  <2>1. /\ state.at = "admitting" /\ state.cost = 0 /\ state.size = size /\ state.todo = size
      BY DEF NoHand
  <2> QED BY <1>2, <2>1 DEF Carried, Awaited, Unreported, Bare
<1>5. Put(h, state)
    BY DEF AskForTools
<1> HIDE DEF state
<1>6. /\ storeErrors' \in 0..MaxStoreErrors /\ storeErrors <= storeErrors'
      /\ storeErrors \in Nat /\ storeErrors' \in Nat /\ RowInv /\ rowless \in [Helpers -> Nat]
      /\ coordinator = "open" /\ ~Resting(h) /\ ledger \in Amounts
    BY <1>1, AtTrace, AccountingAssumption DEF Resting
<1>7. Loses(h, 0) /\ SpanStep(h, state)
    BY <1>1, <1>4, <1>6, LosesNone, SpansKept
<1>8. Affords(h, state, 0)
  <2>1. Spare(hand[h]) = 0 /\ Spare(state) = 0
      BY <1>1, <1>4 DEF Spare
  <2> QED BY <1>6, <2>1, AffordsPlain
<1>9. /\ Awaited(hand[h]) = 0 /\ hand[h].cost = 0 /\ Unreported(hand[h]) = 0
      /\ ledger' \in Amounts /\ ledger'.calls = ledger.calls /\ ledger'.tools = ledger.tools
      /\ ledger.tokens <= ledger'.tokens
    BY <1>1, <1>6, Unburdened DEF Amounts
<1> QED BY <1>1, <1>3, <1>4, <1>5, <1>6, <1>7, <1>8, <1>9, TraceBare

\* Moves within a batch of tools
LEMMA Lesser ==
    ASSUME NEW x \in Hands, Carried(x), x.at \in {"admitting", "reporting"}
    PROVE  /\ x.todo > 1 => [x EXCEPT !.todo = @ - 1] \in Hands
           /\ [x EXCEPT !.at = "reporting", !.todo = x.size] \in Hands
<1>1. x.todo \in Nat /\ x.size \in Nat
    BY DEF Hands
<1>2. x.todo > 1 => x.todo - 1 \in Nat
    BY <1>1
<1> QED BY <1>1, <1>2 DEF Hands

LEMMA TraceCount ==
    ASSUME AccInv, TraceInv, NEW h \in Helpers, CountTool(h) PROVE TraceInv'
<1> DEFINE old == hand[h]
<1>1. /\ old.at = "admitting"
      /\ UNCHANGED <<rest, spans, traced, storeErrors, rowless, unclosed>>
    BY DEF CountTool
<1>2. /\ storeErrors' \in 0..MaxStoreErrors /\ storeErrors <= storeErrors'
      /\ storeErrors' \in Nat /\ old \in Hands /\ Carried(old)
      /\ storeErrors \in Nat /\ RowInv /\ rowless \in [Helpers -> Nat]
      /\ coordinator = "open" /\ ~Resting(h) /\ ledger \in Amounts /\ traced \in Amounts
      /\ old.size \in Nat /\ old.todo \in Nat /\ old.todo >= 1 /\ old.todo <= old.size
    BY <1>1, AtTrace, AccountingAssumption DEF Resting, Carried
<1>3. Awaited(old) = 0 /\ old.cost = 0 /\ Unreported(old) = old.size - old.todo
    BY <1>1, <1>2 DEF Awaited, Unreported, Carried
<1>6. Loses(h, 0)
    BY <1>1, <1>2, LosesNone
<1>7. ASSUME NEW state, state.at \notin {"off", "done"}
      PROVE  SpanStep(h, state) /\ Affords(h, state, 0)
  <2>1. Spare(hand[h]) = 0 /\ Spare(state) \in 0..2
      BY <1>1 DEF Spare
  <2>2. Affords(h, state, 0)
      BY <1>1, <1>2, <2>1, AffordsPlain
  <2> QED BY <1>1, <1>2, <1>7, <2>2, SpansKept
<1>4. CASE Refuses("tools", ToolLimit) /\ Raised(h, "turn") /\ UNCHANGED ledger
  <2>1. PICK state \in Hands : Put(h, state) /\ Bare(state) /\ state.at \notin {"off", "done"}
      BY <1>4, RaisedIs
  <2>2. Exact' => ~(ledger.tools < ToolLimit)
    <3>1. expired' = expired
        BY <1>1 DEF rest
    <3>2. ledger.tools \in Nat /\ ToolLimit \in Nat
        BY <1>2, AccountingAssumption DEF Amounts
    <3> QED BY <1>4, <3>1, <3>2 DEF Exact, Passed, Refuses
  <2>3. /\ ledger' \in Amounts /\ ledger'.calls = ledger.calls
        /\ ledger'.tools = ledger.tools /\ ledger.tokens <= ledger'.tokens
      BY <1>2, <1>4 DEF Amounts
  <2>4. SpanStep(h, state) /\ Affords(h, state, 0)
      BY <1>7, <2>1
  <2> QED BY <1>1, <1>2, <1>3, <1>4, <1>6, <2>1, <2>2, <2>3, <2>4, TraceBare
<1>5. CASE Admit("tools", ToolLimit)
  <2> DEFINE less == [hand[h] EXCEPT !.todo = @ - 1]
             full == [hand[h] EXCEPT !.at = "reporting", !.todo = hand[h].size]
             state == IF hand[h].todo > 1 THEN less ELSE full
  <2>1. Put(h, state)
    <3>1. ~Refuses("tools", ToolLimit)
      <4>1. ledger.tools \in Nat /\ ToolLimit \in Nat
          BY <1>2, AccountingAssumption DEF Amounts
      <4> QED BY <1>5, <4>1 DEF Admit, Refuses
    <3> QED BY <3>1 DEF CountTool
  <2>2. state \in Hands
      BY <1>1, <1>2, Lesser
  <2>3. /\ state.at \in {"admitting", "reporting"} /\ state.cost = 0 /\ state.size = old.size
        /\ state.todo \in Nat /\ state.todo >= 1 /\ state.todo <= state.size
        /\ state.at = "admitting" => state.todo = old.todo - 1
        /\ state.at = "reporting" => state.todo = old.size /\ old.todo = 1
    <3>1. CASE old.todo > 1
      <4>1. /\ less.at = "admitting" /\ less.cost = old.cost /\ less.size = old.size
            /\ less.todo = old.todo - 1
          BY <1>1, <1>2 DEF Hands
      <4> HIDE DEF less
      <4> QED BY <1>2, <1>3, <3>1, <4>1
    <3>2. CASE ~(old.todo > 1)
      <4>1. /\ full.at = "reporting" /\ full.cost = old.cost /\ full.size = old.size
            /\ full.todo = old.size /\ old.todo = 1
          BY <1>1, <1>2, <3>2 DEF Hands
      <4> HIDE DEF full
      <4> QED BY <1>2, <1>3, <3>2, <4>1
    <3> QED BY <3>1, <3>2
  <2> HIDE DEF state
  <2>4. Carried(state) /\ Awaited(state) = 0
      BY <2>3 DEF Carried, Awaited
  <2>5. Unreported(state) = Unreported(old) + 1
    <3>1. CASE state.at = "admitting"
        BY <1>2, <1>3, <2>3, <3>1 DEF Unreported
    <3>2. CASE state.at = "reporting"
        BY <1>2, <1>3, <2>3, <3>2 DEF Unreported
    <3> QED BY <2>3, <3>1, <3>2
  <2>6. /\ ledger' \in Amounts /\ traced' \in Amounts /\ traced' = traced
        /\ ledger'.calls = ledger.calls /\ ledger'.tools = ledger.tools + 1
        /\ ledger'.tokens = ledger.tokens
        /\ ledger.calls \in Nat /\ ledger.tools \in Nat /\ ledger.tokens \in Nat
        /\ traced.calls \in Nat /\ traced.tools \in Nat /\ traced.tokens \in Nat
        /\ Unreported(old) \in Nat
      BY <1>1, <1>2, <1>5, AtTrace DEF Admit, Amounts
  <2>7. (Exact' => Exact) /\ (ledger'.tools < ToolLimit => ledger.tools < ToolLimit)
    <3>1. ledger.tokens <= ledger'.tokens
        BY <2>6
    <3> QED BY <1>1, <1>2, <1>5, <2>6, <3>1, ExactBack DEF Admit
  <2> HIDE DEF old
  <2>8. /\ traced'.calls + Awaited(state) + 0 + ledger.calls
              = ledger'.calls + traced.calls + Awaited(old)
        /\ traced'.tokens + state.cost + ledger.tokens
              = ledger'.tokens + traced.tokens + old.cost
        /\ traced'.tools + Unreported(state) + ledger.tools
              = ledger'.tools + traced.tools + Unreported(old)
      BY <1>3, <2>3, <2>4, <2>5, <2>6
  <2>9. /\ ledger.tokens <= ledger'.tokens
        /\ traced'.tokens + state.cost + ledger.tokens
              <= ledger'.tokens + traced.tokens + old.cost
        /\ traced'.tools + Unreported(state) + ledger.tools
              <= ledger'.tools + traced.tools + Unreported(old)
      BY <1>3, <2>3, <2>4, <2>5, <2>6
  <2>10. SpanStep(h, state) /\ Affords(h, state, 0)
      BY <1>7, <2>3
  <2> USE DEF old
  <2> QED BY <1>1, <1>2, <1>6, <2>1, <2>2, <2>3, <2>4, <2>6, <2>7, <2>8, <2>9, <2>10, TracePut
<1> QED BY <1>4, <1>5 DEF CountTool

LEMMA TraceReport ==
    ASSUME AccInv, TraceInv, NEW h \in Helpers, ReportTool(h) PROVE TraceInv'
<1> DEFINE old == hand[h]
<1>1. /\ old.at = "reporting"
      /\ UNCHANGED <<ledger, rest, spans, storeErrors, rowless, unclosed>>
    BY DEF ReportTool
<1>2. /\ storeErrors' \in 0..MaxStoreErrors /\ storeErrors <= storeErrors'
      /\ storeErrors' \in Nat /\ old \in Hands /\ Carried(old)
      /\ storeErrors \in Nat /\ RowInv /\ rowless \in [Helpers -> Nat]
      /\ coordinator = "open" /\ ~Resting(h) /\ ledger \in Amounts /\ traced \in Amounts
      /\ old.size \in Nat /\ old.todo \in Nat /\ old.todo >= 1 /\ old.todo <= old.size
    BY <1>1, AtTrace, AccountingAssumption DEF Resting, Carried
<1>3. Awaited(old) = 0 /\ old.cost = 0 /\ Unreported(old) = old.todo
    BY <1>1, <1>2 DEF Awaited, Unreported, Carried
<1>6. Loses(h, 0)
    BY <1>1, <1>2, LosesNone
<1>7. ASSUME NEW state, state.at \notin {"off", "done"}
      PROVE  SpanStep(h, state) /\ Affords(h, state, 0)
  <2>1. Spare(hand[h]) = 0 /\ Spare(state) \in 0..2
      BY <1>1 DEF Spare
  <2>2. Affords(h, state, 0)
      BY <1>1, <1>2, <2>1, AffordsPlain
  <2> QED BY <1>1, <1>2, <1>7, <2>2, SpansKept
<1>4. CASE Passed(ledger.tokens)
  <2>1. Raised(h, "turn") /\ traced' = traced /\ ~Exact'
      BY <1>1, <1>4 DEF ReportTool, Exact, Passed, rest
  <2>2. /\ ledger' \in Amounts /\ ledger' = ledger /\ ledger.tokens <= ledger'.tokens
        /\ ledger'.calls = ledger.calls /\ ledger'.tools = ledger.tools
      BY <1>1, <1>2 DEF Amounts
  <2>3. /\ 0 + storeErrors + (IF Passed(ledger.tokens) THEN Spare(hand[h]) ELSE 0)
              <= storeErrors' + (IF "turn" = "summary" THEN 1 ELSE 2)
        /\ 0 + storeErrors <= storeErrors'
    <3>1. Spare(hand[h]) = 0 /\ storeErrors' = storeErrors
        BY <1>1 DEF Spare
    <3> QED BY <1>2, <3>1
  <2> QED BY <1>1, <1>2, <1>3, <1>6, <2>1, <2>2, <2>3, TraceRaised
<1>5. CASE ~Passed(ledger.tokens)
  <2> DEFINE less == [hand[h] EXCEPT !.todo = @ - 1]
             free == [NoHand EXCEPT !.at = "free"]
             state == IF hand[h].todo > 1 THEN less ELSE free
  <2>1. Put(h, state) /\ traced' = [traced EXCEPT !.tools = @ + 1]
      BY <1>5 DEF ReportTool
  <2>2. free \in Hands /\ free.at = "free" /\ Bare(free)
      BY BareAt
  <2> HIDE DEF free
  <2>3. state \in Hands
      BY <1>1, <1>2, <2>2, Lesser
  <2>4. /\ state.at \in {"free", "reporting"} /\ state.cost = 0 /\ Carried(state)
        /\ Awaited(state) = 0 /\ Unreported(state) = old.todo - 1
    <3>1. CASE old.todo > 1
      <4>1. /\ less.at = "reporting" /\ less.cost = old.cost /\ less.size = old.size
            /\ less.todo = old.todo - 1
          BY <1>1, <1>2 DEF Hands
      <4> HIDE DEF less
      <4> QED BY <1>2, <1>3, <3>1, <4>1 DEF Carried, Awaited, Unreported
    <3>2. CASE ~(old.todo > 1)
      <4>1. old.todo = 1
          BY <1>2, <3>2
      <4> QED BY <2>2, <3>2, <4>1 DEF Bare
    <3> QED BY <3>1, <3>2
  <2> HIDE DEF state
  <2>5. /\ ledger' \in Amounts /\ traced' \in Amounts /\ ledger' = ledger
        /\ traced'.calls = traced.calls /\ traced'.tools = traced.tools + 1
        /\ traced'.tokens = traced.tokens
        /\ ledger.calls \in Nat /\ ledger.tools \in Nat /\ ledger.tokens \in Nat
        /\ traced.calls \in Nat /\ traced.tools \in Nat /\ traced.tokens \in Nat
      BY <1>1, <1>2, <2>1 DEF Amounts
  <2>6. Exact' => Exact
    <3>1. ledger.tokens <= ledger'.tokens
        BY <2>5
    <3> QED BY <1>1, <1>2, <2>5, <3>1, ExactBack
  <2> HIDE DEF old
  <2>7. /\ traced'.calls + Awaited(state) + 0 + ledger.calls
              = ledger'.calls + traced.calls + Awaited(old)
        /\ traced'.tokens + state.cost + ledger.tokens
              = ledger'.tokens + traced.tokens + old.cost
      BY <1>3, <2>4, <2>5
  <2>9. traced'.tools + Unreported(state) + ledger.tools
              = ledger'.tools + traced.tools + Unreported(old)
    <3>1. \A t, l, n \in Nat : n >= 1 => (t + 1) + (n - 1) + l = l + t + n
        OBVIOUS
    <3> QED BY <1>2, <1>3, <2>4, <2>5, <3>1
  <2>8. /\ ledger.tokens <= ledger'.tokens
        /\ traced'.tokens + state.cost + ledger.tokens
              <= ledger'.tokens + traced.tokens + old.cost
        /\ traced'.tools + Unreported(state) + ledger.tools
              <= ledger'.tools + traced.tools + Unreported(old)
      BY <1>2, <1>3, <2>4, <2>5
  <2>10. SpanStep(h, state) /\ Affords(h, state, 0)
      BY <1>7, <2>4
  <2> USE DEF old
  <2> QED BY <1>1, <1>2, <1>6, <2>1, <2>3, <2>4, <2>5, <2>6, <2>7, <2>8, <2>9, <2>10, TracePut
<1> QED BY <1>4, <1>5

-----------------------------------------------------------------------------
(* The run, for the trace *)

LEMMA TraceInit == AccountingInit => TraceInv
<1> SUFFICES ASSUME AccountingInit PROVE TraceInv
    OBVIOUS
<1>1. /\ ledger = NothingSpent /\ expired = FALSE
      /\ execution = 0 /\ coordinator = "idle" /\ runRow = "none"
      /\ spans = NoSpans /\ hand = [h \in Helpers |-> NoHand]
      /\ traced = NothingSpent /\ storeErrors = 0
      /\ rowless = [h \in Helpers |-> 0] /\ unclosed = {}
    BY DEF AccountingInit
<1>2. RowInv
  <2>1. spans \in [Helpers \cup {"root"} -> SpanStates]
      BY <1>1 DEF NoSpans, SpanStates
  <2>2. traced \in Amounts
      BY <1>1 DEF NothingSpent, Amounts
  <2>3. execution \in 0..MaxExecutions /\ storeErrors \in 0..MaxStoreErrors
      BY <1>1, AccountingAssumption
  <2>4. expired \in BOOLEAN
      BY <1>1
  <2> QED BY <1>1, <2>1, <2>2, <2>3, <2>4 DEF RowInv
<1>3. CarryInv
    BY <1>1 DEF CarryInv, Carried, NoHand
<1>4. SpanInv
    BY <1>1 DEF SpanInv, Resting, NoHand, NoSpans, Ended
<1>5. LedgerInv
    BY <1>1, NothingAtWork DEF LedgerInv, NothingSpent, Exact
<1>6. LackInv
    BY <1>1 DEF LackInv, Spare
<1> QED BY <1>2, <1>3, <1>4, <1>5, <1>6 DEF TraceInv

\* What the budget and the rows of an open or idle run owe each other when no
\* agent is at work
LEMMA TraceRun ==
    ASSUME AccInv, TraceInv, StartExecution \/ TimePasses \/ CloseRoot \/ FinishRun \/ Abandon
    PROVE  TraceInv'
<1>1. /\ RowInv /\ CarryInv /\ SpanInv /\ LedgerInv /\ LackInv
      /\ ledger \in Amounts /\ hand \in [Helpers -> Hands]
    BY DEF TraceInv, AccInv, AccShapeInv, Amounts
<1>2. CostsAtWork \in Nat /\ ToolsAtWork \in Nat
    BY <1>1, AtWorkTypes
<1>3. CASE StartExecution
  <2>1. /\ coordinator = "idle" /\ execution < MaxExecutions
        /\ execution' = execution + 1 /\ runRow' = "running"
        /\ ledger' = NothingSpent /\ expired' = FALSE /\ traced' = NothingSpent
        /\ hand' = [h \in Helpers |-> NoHand] /\ rowless' = [h \in Helpers |-> 0]
        /\ unclosed' = {}
        /\ StoreRefuses \/ UNCHANGED storeErrors
        /\ \/ coordinator' = "open" /\ spans' = [NoSpans EXCEPT !["root"] = "running"]
           \/ coordinator' = "closing" /\ spans' = NoSpans
      BY <1>3 DEF StartExecution
  <2>2. /\ spans' \in [Helpers \cup {"root"} -> SpanStates]
        /\ spans'["root"] = IF coordinator' = "open" THEN "running" ELSE "none"
        /\ \A h \in Helpers : spans'[h] = "none"
      BY <2>1, AccountingAssumption DEF NoSpans, SpanStates
  <2>3. RowInv'
    <3>1. traced' \in Amounts
        BY <2>1 DEF NothingSpent, Amounts
    <3>2. execution' \in 0..MaxExecutions /\ storeErrors' \in 0..MaxStoreErrors
        BY <1>1, <2>1, StoreCounts, AccountingAssumption DEF RowInv
    <3>3. expired' \in BOOLEAN /\ rowless' \in [Helpers -> Nat]
        BY <2>1
    <3> QED BY <2>1, <2>2, <3>1, <3>2, <3>3 DEF RowInv
  <2>4. CarryInv'
      BY <2>1 DEF CarryInv, Carried, NoHand
  <2>5. SpanInv'
      BY <2>1, <2>2 DEF SpanInv, Ended, Resting, NoHand
  <2>6. CallsOwed' = 0 /\ CostsAtWork' = 0 /\ ToolsAtWork' = 0
      BY <2>1, NothingAtWork
  <2>7. LedgerInv'
      BY <2>1, <2>6 DEF LedgerInv, NothingSpent
  <2>8. LackInv'
    <3>1. storeErrors' \in Nat /\ \A h \in Helpers : rowless'[h] = 0
        BY <1>1, <2>1, StoreCounts
    <3> QED BY <3>1 DEF LackInv, Spare
  <2> QED BY <2>3, <2>4, <2>5, <2>7, <2>8 DEF TraceInv
<1>4. CASE TimePasses
  <2>1. /\ UNCHANGED <<ledger, execution, coordinator, runRow, spans, hand, traced, storeErrors,
                       rowless, unclosed>>
        /\ expired' = TRUE
      BY <1>4 DEF TimePasses
  <2>2. CallsOwed' = CallsOwed /\ CostsAtWork' = CostsAtWork /\ ToolsAtWork' = ToolsAtWork
      BY <2>1 DEF CallsOwed, CostsAtWork, ToolsAtWork
  <2>3. RowInv' /\ CarryInv' /\ SpanInv'
      BY <1>1, <2>1 DEF RowInv, CarryInv, SpanInv, Resting, Ended
  <2>4. LedgerInv'
      BY <1>1, <2>1, <2>2 DEF LedgerInv, Exact, Passed
  <2>5. LackInv'
    <3>1. Passed(ledger.tokens)'
        BY <2>1 DEF Passed
    <3>2. ASSUME NEW h \in Helpers
          PROVE  /\ rowless'[h] <= storeErrors' + 2
                 /\ coordinator' # "idle" => rowless'[h] <= storeErrors' + Spare(hand'[h])
      <4>1. PICK r \in Nat, e \in Nat, x \in 0..2, p \in BOOLEAN :
                /\ r = rowless[h] /\ e = storeErrors /\ x = Spare(hand[h])
                /\ p = Passed(ledger.tokens)
        <5>1. rowless[h] \in Nat /\ storeErrors \in Nat
            BY <1>1, AccountingAssumption DEF RowInv
        <5>2. Spare(hand[h]) \in 0..2 /\ Passed(ledger.tokens) \in BOOLEAN
            BY DEF Spare, Passed
        <5> QED BY <5>1, <5>2
      <4>2. r <= e + (IF p THEN 2 ELSE 0)
          BY <1>1, <4>1 DEF LackInv
      <4>3. coordinator # "idle" => r <= e + (IF p THEN x ELSE 0)
          BY <1>1, <4>1 DEF LackInv
      <4>4. r <= e + 2 /\ (coordinator # "idle" => r <= e + x)
          BY <4>2, <4>3
      <4> QED BY <2>1, <4>1, <4>4
    <3> QED BY <3>1, <3>2 DEF LackInv
  <2> QED BY <2>3, <2>4, <2>5 DEF TraceInv
<1>5. CASE CloseRoot
  <2>1. /\ UNCHANGED <<ledger, expired, execution, runRow, hand, traced, rowless>>
        /\ coordinator = "open" /\ coordinator' = "closing"
        /\ HandsAt({"off", "done"}) = Helpers
        /\ StoreRefuses \/ UNCHANGED storeErrors
        /\ \/ spans' = [spans EXCEPT !["root"] = "ended"] /\ UNCHANGED unclosed
           \/ UNCHANGED spans /\ unclosed' = unclosed \cup {"root"}
      BY <1>5 DEF CloseRoot, EndSpan, SetSpan
  <2>2. CallsOwed' = CallsOwed /\ CostsAtWork' = CostsAtWork /\ ToolsAtWork' = ToolsAtWork
      BY <2>1 DEF CallsOwed, CostsAtWork, ToolsAtWork
  <2>3. \A h \in Helpers : Resting(h) /\ Resting(h)'
      BY <2>1 DEF HandsAt, Resting
  <2>4. /\ spans' \in [Helpers \cup {"root"} -> SpanStates]
        /\ spans'["root"] = "running" => "root" \in unclosed'
        /\ \A h \in Helpers : spans'[h] = spans[h]
        /\ unclosed \subseteq unclosed'
      BY <1>1, <2>1, AccountingAssumption DEF RowInv, SpanStates
  <2>5. /\ storeErrors \in Nat /\ storeErrors' \in Nat
        /\ storeErrors' \in 0..MaxStoreErrors /\ storeErrors <= storeErrors'
      BY <1>1, <2>1, StoreCounts
  <2>6. RowInv' /\ CarryInv'
      BY <1>1, <2>1, <2>4, <2>5 DEF RowInv, CarryInv
  <2>7. Ended'
      BY <1>1, <2>1, <2>3, <2>4 DEF SpanInv, Ended
  <2>8. SpanInv'
      BY <2>1, <2>3, <2>7 DEF SpanInv
  <2>9. LedgerInv'
    <3>1. Exact' => Exact
        BY <2>1, <2>5 DEF Exact, Passed
    <3> QED BY <1>1, <2>1, <2>2, <3>1 DEF LedgerInv
  <2>10. LackInv'
    <3>1. ASSUME NEW h \in Helpers
          PROVE  /\ rowless'[h] <= storeErrors' + (IF Passed(ledger.tokens)' THEN 2 ELSE 0)
                 /\ rowless'[h] <= storeErrors'
                        + (IF Passed(ledger.tokens)' THEN Spare(hand'[h]) ELSE 0)
      <4>1. PICK r \in Nat, e \in Nat, d \in Nat, x \in 0..2, p \in BOOLEAN :
                /\ r = rowless[h] /\ e = storeErrors /\ d = storeErrors' /\ x = Spare(hand[h])
                /\ p = Passed(ledger.tokens)
        <5>1. rowless[h] \in Nat
            BY <1>1 DEF RowInv
        <5>2. Spare(hand[h]) \in 0..2 /\ Passed(ledger.tokens) \in BOOLEAN
            BY DEF Spare, Passed
        <5> QED BY <2>5, <5>1, <5>2
      <4>2. r <= e + (IF p THEN 2 ELSE 0) /\ e <= d
          BY <1>1, <2>5, <4>1 DEF LackInv
      <4>3. r <= e + (IF p THEN x ELSE 0)
          BY <1>1, <2>1, <4>1 DEF LackInv
      <4>4. r <= d + (IF p THEN 2 ELSE 0) /\ r <= d + (IF p THEN x ELSE 0)
          BY <4>2, <4>3
      <4>5. /\ Passed(ledger.tokens)' = p /\ Spare(hand'[h]) = x /\ rowless'[h] = r
          BY <2>1, <4>1 DEF Passed
      <4> QED BY <4>1, <4>4, <4>5
    <3> QED BY <3>1 DEF LackInv
  <2> QED BY <2>6, <2>8, <2>9, <2>10 DEF TraceInv
<1>6. CASE FinishRun
  <2>1. /\ UNCHANGED <<ledger, expired, execution, spans, hand, traced, storeErrors, rowless,
                       unclosed>>
        /\ coordinator = "closing" /\ coordinator' = "idle" /\ runRow' = "finished"
      BY <1>6 DEF FinishRun
  <2>2. CostsAtWork' = CostsAtWork /\ ToolsAtWork' = ToolsAtWork
      BY <2>1 DEF CostsAtWork, ToolsAtWork
  <2>3. RowInv' /\ CarryInv' /\ SpanInv'
      BY <1>1, <2>1 DEF RowInv, CarryInv, SpanInv, Resting, Ended
  <2>4. LedgerInv'
      BY <1>1, <2>1, <2>2 DEF LedgerInv, Exact
  <2>5. LackInv'
      BY <1>1, <2>1 DEF LackInv, Passed
  <2> QED BY <2>3, <2>4, <2>5 DEF TraceInv
<1>7. CASE Abandon
  <2>1. /\ UNCHANGED <<ledger, expired, execution, runRow, spans, traced, storeErrors, rowless,
                       unclosed>>
        /\ coordinator' = "idle" /\ hand' = [h \in Helpers |-> NoHand]
      BY <1>7 DEF Abandon
  <2>2. CostsAtWork' = 0 /\ ToolsAtWork' = 0
      BY <2>1, NothingAtWork
  <2>3. RowInv'
      BY <1>1, <2>1 DEF RowInv
  <2>4. CarryInv'
      BY <2>1 DEF CarryInv, Carried, NoHand
  <2>5. SpanInv'
      BY <1>1, <2>1 DEF SpanInv, Resting, NoHand, Ended
  <2>6. /\ ledger.tokens \in Nat /\ ledger.tools \in Nat
        /\ traced.calls <= ledger.calls /\ traced.tokens <= ledger.tokens
        /\ traced.tools <= ledger.tools
        /\ traced.calls \in Nat /\ traced.tokens \in Nat /\ traced.tools \in Nat
      BY <1>1, <1>2 DEF LedgerInv, RowInv, Amounts
  <2>7. LedgerInv'
      BY <2>1, <2>2, <2>6 DEF LedgerInv, Exact
  <2>8. LackInv'
      BY <1>1, <2>1 DEF LackInv, Passed
  <2> QED BY <2>3, <2>4, <2>5, <2>7, <2>8 DEF TraceInv
<1> QED BY <1>3, <1>4, <1>5, <1>6, <1>7

LEMMA TraceStep == AccInv /\ TraceInv /\ [AccountingNext]_accounting => TraceInv'
<1> SUFFICES ASSUME AccInv, TraceInv, [AccountingNext]_accounting PROVE TraceInv'
    OBVIOUS
<1>1. CASE UNCHANGED accounting
  <2>1. /\ UNCHANGED <<ledger, expired, execution, coordinator, runRow, spans, hand, traced,
                       storeErrors, rowless, unclosed>>
      BY <1>1 DEF accounting
  <2>2. CallsOwed' = CallsOwed /\ CostsAtWork' = CostsAtWork /\ ToolsAtWork' = ToolsAtWork
      BY <2>1 DEF CallsOwed, CostsAtWork, ToolsAtWork
  <2>3. RowInv' /\ CarryInv' /\ SpanInv'
      BY <2>1 DEF TraceInv, RowInv, CarryInv, SpanInv, Resting, Ended
  <2>4. LedgerInv' /\ LackInv'
      BY <2>1, <2>2 DEF TraceInv, LedgerInv, LackInv, Exact, Passed
  <2> QED BY <2>3, <2>4 DEF TraceInv
<1>2. CASE AccountingNext
    BY <1>2, TraceRun, TraceStart, TraceBegin, TraceCharge, TraceRecord, TraceRefused,
       TraceAsk, TraceCount, TraceReport DEF AccountingNext
<1> QED BY <1>1, <1>2

\* The inductive invariant of the run's accounts: the budget's counters with the
\* agents' places, and the trace's row and spans with what is still unreported.
THEOREM AccountingInvariant == AccountingSpec => [](AccInv /\ TraceInv)
<1> QED BY AccInvInit, AccInvStep, TraceInit, TraceStep, PTL DEF AccountingSpec

\* The places, kinds and batches of the agents are what RunBudget's callers make.
THEOREM AccountingTypes == AccountingSpec => []AccountingTypeOK
<1>1. ASSUME AccInv, TraceInv PROVE AccountingTypeOK
    BY <1>1 DEF AccInv, AccShapeInv, Hands, TraceInv, RowInv, CarryInv, Carried, AccountingTypeOK
<1> QED BY <1>1, AccountingInvariant, PTL

\* The run's row in the trace (observability.py, TraceStore) counts no call, token
\* or tool call twice; a call that was charged and has no row is under way, or one
\* of the at most two of its agent that a passed limit cost, or one whose row was
\* refused; and no span runs under a closed root or in a finished run but one whose
\* own end was refused.
THEOREM AccTraceTells == AccountingSpec => []TraceTells
<1>1. ASSUME AccInv, TraceInv PROVE TraceTells
  <2>1. CostsAtWork \in Nat /\ ToolsAtWork \in Nat
      BY <1>1, AtWorkTypes DEF AccInv, AccShapeInv, TraceInv
  <2>2. /\ ledger.calls \in Nat /\ ledger.tools \in Nat /\ ledger.tokens \in Nat
        /\ traced.calls \in Nat /\ traced.tools \in Nat /\ traced.tokens \in Nat
      BY <1>1 DEF AccInv, AccShapeInv, TraceInv, RowInv, Amounts
  <2>3. LedgerInv
      BY <1>1 DEF TraceInv
  <2>4. traced.calls <= ledger.calls /\ traced.tokens <= ledger.tokens
        /\ traced.tools <= ledger.tools
      BY <2>1, <2>2, <2>3 DEF LedgerInv
  <2>5. /\ coordinator # "idle" => ledger.calls = traced.calls + CallsOwed
        /\ Exact => /\ ledger.tokens = traced.tokens + CostsAtWork
                    /\ ledger.tools < ToolLimit => ledger.tools = traced.tools + ToolsAtWork
      BY <2>3 DEF LedgerInv
  <2>6. spans["root"] = "ended" \/ runRow = "finished" =>
            {s \in DOMAIN spans : spans[s] = "running"} \subseteq unclosed
      BY <1>1 DEF TraceInv, SpanInv, Ended, RowInv
  <2>7. \A h \in Helpers : rowless[h] <= storeErrors + (IF Passed(ledger.tokens) THEN 2 ELSE 0)
      BY <1>1 DEF TraceInv, LackInv
  <2> QED BY <2>4, <2>5, <2>6, <2>7
      DEF TraceTells, Exact, CallsOwed, CostsAtWork, ToolsAtWork
<1> QED BY <1>1, AccountingInvariant, PTL
=============================================================================
