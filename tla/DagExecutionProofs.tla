------------------------- MODULE DagExecutionProofs -------------------------
(***************************************************************************)
(* Plan and Team runs, for any set of tasks, any plans the planner may     *)
(* propose, any number of workers and any bounds.  The argument: the ready *)
(* layer is a set of waiting tasks whose dependencies are completed and    *)
(* settled, that is, no thread works on them any more (LayerInv), so a     *)
(* task that is started keeps what it was started on (StartedInv); a       *)
(* thread's place tells the status of its task (PlaceInv), so a task that  *)
(* failed or was skipped is never marked again and the skipped ones stay   *)
(* behind it.  That something is ready or blocked as long as a task waits  *)
(* follows from the plan having no cycle, which the validator's search     *)
(* decides exactly (ValidatesIsExact).                                     *)
(*                                                                         *)
(* The first half is about the graph algorithms.  Each is a function that  *)
(* is defined by recursion on sets of tasks, so by a number of tasks left  *)
(* to take; the lemmas Recursion and RankInduction of DataLemmas give it   *)
(* its equation and what holds of all its values.                          *)
(***************************************************************************)
EXTENDS DagExecution, DataLemmas

(* What holds of every proposed plan. *)
Shape(p) ==
    /\ IsFiniteSet(Members(p)) /\ p.place \in [Members(p) -> Nat]
    /\ \A t, u \in Members(p) : p.place[t] = p.place[u] => t = u

LEMMA FirstOfTasks ==
    ASSUME NEW p, p.place \in [Members(p) -> Nat],
           NEW S \in SUBSET Members(p), S # {}
    PROVE  First(p, S) \in S /\ \A u \in S : p.place[First(p, S)] <= p.place[u]
  <1> DEFINE N == {p.place[t] : t \in S}
  <1>1. N \in SUBSET Nat /\ N # {}
    OBVIOUS
  <1>2. PICK n \in N : \A m \in N : n <= m
    BY <1>1, LeastNatural
  <1>3. PICK t \in S : p.place[t] = n
    BY <1>2
  <1>4. \A u \in S : p.place[t] <= p.place[u]
    BY <1>2, <1>3
  <1> QED
    BY <1>3, <1>4 DEF First

-----------------------------------------------------------------------------
(* topological_order *)

(* No task depends on another plan's, and there is an order to do them in. *)
Closed(p) == \A t \in Members(p) : p.deps[t] \subseteq Members(p)
Acyclic(p) == /\ Closed(p)
              /\ \E r \in [Members(p) -> 1 .. Cardinality(Members(p))] : IsRank(p, r)

(* What can be taken when some tasks are done *)

Takeable(p, taken) == {t \in Members(p) \ taken : p.deps[t] \subseteq taken}

(* Without a cycle something can be, as long as a task is left. *)
LEMMA SomethingTakeable ==
    ASSUME NEW p, Acyclic(p), IsFiniteSet(Members(p)), NEW taken \in SUBSET Members(p),
           taken # Members(p)
    PROVE  Takeable(p, taken) # {}
  <1>1. PICK r \in [Members(p) -> 1 .. Cardinality(Members(p))] : IsRank(p, r)
    BY DEF Acyclic, Closed
  <1> DEFINE N == {r[t] : t \in Members(p) \ taken}
  <1>2. N \in SUBSET Nat /\ N # {}
    OBVIOUS
  <1>3. PICK n \in N : \A m \in N : n <= m
    BY <1>2, LeastNatural
  <1>4. PICK t \in Members(p) \ taken : r[t] = n
    BY <1>3
  <1>5. ASSUME NEW d \in p.deps[t] PROVE d \in taken
    <2>1. d \in Members(p) /\ r[d] < r[t] /\ r[d] \in Nat /\ r[t] \in Nat
      BY <1>1, <1>4 DEF Acyclic, Closed, IsRank
    <2>2. r[d] \notin N
      BY <1>3, <1>4, <2>1
    <2> QED
      BY <2>1, <2>2
  <1> QED
    BY <1>4, <1>5 DEF Takeable

OrderBody(p, o, taken) ==
    IF Takeable(p, taken) = {} THEN <<>>
    ELSE <<First(p, Takeable(p, taken))>> \o o[taken \cup {First(p, Takeable(p, taken))}]

(* The recursive function of topological_order exists, and the model's is  *)
(* one.                                                                    *)
LEMMA OrderFunction ==
    ASSUME NEW p, Shape(p)
    PROVE  \E o \in [SUBSET Members(p) -> Seq(Members(p))] :
               /\ \A taken \in SUBSET Members(p) : o[taken] = OrderBody(p, o, taken)
               /\ TopologicalOrder(p) = o[{}]
  <1> DEFINE M == Members(p)
             D == SUBSET M
             R == Seq(M)
             G == [o \in [D -> R] |-> [taken \in D |-> OrderBody(p, o, taken)]]
             Is(o) == o = [taken \in D |-> OrderBody(p, o, taken)]
             order == CHOOSE o : Is(o)
  <1>1. /\ Ranked(Lacks(M), D)
        /\ \A s, t \in D : s \subseteq t /\ s # t => Lacks(M)[t] < Lacks(M)[s]
    BY LacksFacts DEF Shape
  <1>2. ASSUME NEW taken \in D, Takeable(p, taken) # {}
        PROVE  /\ First(p, Takeable(p, taken)) \in M
               /\ taken \cup {First(p, Takeable(p, taken))} \in D
               /\ Lacks(M)[taken \cup {First(p, Takeable(p, taken))}] < Lacks(M)[taken]
    <2>1. Takeable(p, taken) \in SUBSET M /\ First(p, Takeable(p, taken)) \in Takeable(p, taken)
      BY <1>2, FirstOfTasks DEF Shape, Takeable
    <2>2. First(p, Takeable(p, taken)) \in M \ taken
      BY <2>1 DEF Takeable
    <2> HIDE DEF M
    <2> QED
      BY <1>1, <2>2
  <1>3. ASSUME NEW o, NEW taken \in D,
               \A s \in D : Lacks(M)[s] < Lacks(M)[taken] => o[s] \in R
        PROVE  OrderBody(p, o, taken) \in R
    <2>1. CASE Takeable(p, taken) = {}
      BY <2>1 DEF OrderBody
    <2>2. CASE Takeable(p, taken) # {}
      <3>1. o[taken \cup {First(p, Takeable(p, taken))}] \in R
        BY <1>2, <1>3, <2>2
      <3>2. <<First(p, Takeable(p, taken))>> \o o[taken \cup {First(p, Takeable(p, taken))}] \in R
        BY <1>2, <2>2, <3>1, Cons DEF IsCons
      <3> QED
        BY <2>2, <3>2 DEF OrderBody
    <2> QED
      BY <2>1, <2>2
  <1>4. G \in [[D -> R] -> [D -> R]]
    <2>1. ASSUME NEW o \in [D -> R], NEW taken \in D PROVE OrderBody(p, o, taken) \in R
      BY <1>3
    <2> QED
      BY <2>1
  <1>5. Descends(G, D, R, Lacks(M))
    <2> SUFFICES ASSUME NEW h \in [D -> R], NEW k \in [D -> R], NEW x \in D,
                        \A y \in D : Lacks(M)[y] < Lacks(M)[x] => h[y] = k[y]
                 PROVE  OrderBody(p, h, x) = OrderBody(p, k, x)
      BY DEF Descends
    <2> QED
      BY <1>2 DEF OrderBody
  <1>6. Functional(G, D, R)
    <2>1. <<>> \in R
      OBVIOUS
    <2> HIDE DEF D, R, G
    <2> QED
      BY <1>4, <2>1 DEF Functional
  <1>7. PICK o : FixedPoint(o, G, D, R)
    <2> HIDE DEF D, R, G
    <2> QED
      BY <1>1, <1>5, <1>6, Recursion
  <1>8. o \in [D -> R] /\ o = G[o]
    BY <1>7 DEF FixedPoint
  <1>9. Is(o)
    BY <1>8
  <1>10. Is(order)
    BY <1>9
  <1>11. TopologicalOrder(p) = order[{}]
    BY DEF TopologicalOrder, OrderBody, Takeable
  <1> HIDE DEF order
  <1>12. order \in [D -> R]
    <2> DEFINE T == {taken \in D : order[taken] \in R}
    <2>1. ASSUME NEW x \in D, \A y \in D : Lacks(M)[y] < Lacks(M)[x] => y \in T
          PROVE  x \in T
      <3>1. OrderBody(p, order, x) \in R
        BY <1>3, <2>1
      <3> QED
        BY <1>10, <3>1
    <2>2. D \subseteq T
      <3> HIDE DEF D, T
      <3>1. Inductive(T, D, Lacks(M))
        BY <2>1 DEF Inductive
      <3> QED
        BY <1>1, <3>1, RankInduction
    <2> QED
      BY <1>10, <2>2
  <1> QED
    BY <1>10, <1>11, <1>12

-----------------------------------------------------------------------------
(* topological_order *)

Waited(p, s, i, j) == \E k \in i .. j : s[k] \in p.deps[s[j]]
Leads(p, taken, t) == /\ t \in Takeable(p, taken)
                      /\ \A u \in Takeable(p, taken) : p.place[t] <= p.place[u]

(* What is left to show of the order when some tasks are taken. *)
StableFrom(p, taken, s) ==
    /\ s \in Seq(Members(p))
    /\ {s[i] : i \in DOMAIN s} = Members(p) \ taken
    /\ Len(s) = Cardinality(Members(p) \ taken)
    /\ \A i, j \in DOMAIN s : s[j] \in p.deps[s[i]] => j < i
    /\ \A i, j \in DOMAIN s : i < j /\ p.place[s[j]] < p.place[s[i]] => Waited(p, s, i, j)

LEMMA StableStep ==
    ASSUME NEW p, Shape(p), Acyclic(p), NEW taken \in SUBSET Members(p), NEW t,
           Leads(p, taken, t),
           NEW s, StableFrom(p, taken \cup {t}, s)
    PROVE  StableFrom(p, taken, <<t>> \o s)
  <1> DEFINE M == Members(p)
             w == <<t>> \o s
  <1>1. t \in M \ taken /\ p.deps[t] \subseteq taken
    BY DEF Leads, Takeable
  <1>2. s \in Seq(M) /\ {s[i] : i \in DOMAIN s} = M \ (taken \cup {t})
        /\ Len(s) = Cardinality(M \ (taken \cup {t}))
        /\ \A i, j \in DOMAIN s : s[j] \in p.deps[s[i]] => j < i
    BY DEF StableFrom
  <1>2b. \A i, j \in DOMAIN s : i < j /\ p.place[s[j]] < p.place[s[i]] => Waited(p, s, i, j)
    BY DEF StableFrom
  <1>3. /\ w \in Seq(M) /\ Len(s) \in Nat /\ Len(w) = Len(s) + 1
        /\ DOMAIN s = 1..Len(s) /\ DOMAIN w = 1..(Len(s) + 1)
        /\ w[1] = t
        /\ \A i \in DOMAIN s : w[i + 1] = s[i]
        /\ \A i \in DOMAIN w : i = 1 \/ \E j \in DOMAIN s : i = j + 1
    <2>1. t \in M /\ s \in Seq(M)
      BY <1>1, <1>2
    <2> HIDE DEF M
    <2>2. IsCons(w, t, s, M)
      BY <2>1, Cons
    <2> QED
      BY <2>2 DEF IsCons
  <1> HIDE DEF w
  <1>4. Cardinality(M \ taken) = Cardinality(M \ (taken \cup {t})) + 1
    <2>1. IsFiniteSet(M \ taken) /\ Cardinality(M \ taken) \in Nat
      BY FS_Subset, FS_CardinalityType DEF Shape
    <2>2. M \ (taken \cup {t}) = (M \ taken) \ {t}
      OBVIOUS
    <2>3. Cardinality((M \ taken) \ {t}) = Cardinality(M \ taken) - 1
      BY <1>1, <2>1, FS_RemoveElement
    <2>4. Cardinality(M \ (taken \cup {t})) = Cardinality(M \ taken) - 1
      BY <2>2, <2>3, Zenon
    <2> QED
      BY <2>1, <2>4
  <1>5. {w[i] : i \in DOMAIN w} = M \ taken
    <2>1. ASSUME NEW i \in DOMAIN w PROVE w[i] \in M \ taken
      <3>1. i = 1 \/ \E j \in DOMAIN s : i = j + 1
        BY <1>3, <2>1
      <3>2. CASE i = 1
        BY <1>1, <1>3, <3>2
      <3>3. CASE \E j \in DOMAIN s : i = j + 1
        <4>1. PICK j \in DOMAIN s : i = j + 1
          BY <3>3
        <4> QED
          BY <1>2, <1>3, <4>1
      <3> QED
        BY <3>1, <3>2, <3>3
    <2>2. ASSUME NEW u \in M \ taken PROVE \E i \in DOMAIN w : w[i] = u
      <3>1. CASE u = t
        <4>1. 1 \in DOMAIN w /\ w[1] = u
          BY <1>3, <3>1
        <4> QED
          BY <4>1
      <3>2. CASE u # t
        <4>1. PICK j \in DOMAIN s : s[j] = u
          BY <1>2, <3>2
        <4>2. j + 1 \in DOMAIN w /\ w[j + 1] = u
          BY <1>3, <4>1
        <4> QED
          BY <4>2
      <3> QED
        BY <3>1, <3>2
    <2> QED
      BY <2>1, <2>2
  <1>6. ASSUME NEW i \in DOMAIN w, NEW j \in DOMAIN w, w[j] \in p.deps[w[i]] PROVE j < i
    <2>1. /\ i = 1 \/ \E k \in DOMAIN s : i = k + 1
          /\ j = 1 \/ \E k \in DOMAIN s : j = k + 1
      BY <1>3
    <2>2. CASE i = 1
      <3>1. w[j] \in taken
        BY <1>1, <1>3, <1>6, <2>2
      <3> QED
        BY <1>5, <3>1
    <2>3. CASE i # 1 /\ j = 1
      BY <1>3, <2>3
    <2>4. CASE i # 1 /\ j # 1
      <3>1. PICK a \in DOMAIN s : i = a + 1
        BY <2>1, <2>4
      <3>2. PICK b \in DOMAIN s : j = b + 1
        BY <2>1, <2>4
      <3>3. s[b] \in p.deps[s[a]]
        BY <1>3, <1>6, <3>1, <3>2
      <3>4. b < a
        BY <1>2, <3>3
      <3> QED
        BY <1>3, <3>1, <3>2, <3>4
    <2> QED
      BY <2>2, <2>3, <2>4
  <1>7. ASSUME NEW i \in DOMAIN w, NEW j \in DOMAIN w, i < j, p.place[w[j]] < p.place[w[i]]
        PROVE  Waited(p, w, i, j)
    <2>1. CASE i = 1
      <3>1. w[j] \in M \ taken /\ p.place[w[j]] \in Nat /\ p.place[t] \in Nat
        BY <1>1, <1>5 DEF Shape
      <3>2. w[j] \notin Takeable(p, taken)
        BY <1>3, <1>7, <2>1, <3>1 DEF Leads
      <3>3. PICK d \in p.deps[w[j]] : d \notin taken
        BY <3>1, <3>2 DEF Takeable
      <3>4. d \in M \ taken
        BY <3>1, <3>3 DEF Acyclic, Closed
      <3>5. PICK k \in DOMAIN w : w[k] = d
        BY <1>5, <3>4
      <3>6. k < j
        BY <1>6, <3>3, <3>5
      <3>7. k \in i .. j
        BY <1>3, <2>1, <3>6
      <3> QED
        BY <3>3, <3>5, <3>7 DEF Waited
    <2>2. CASE i # 1
      <3>1. PICK a \in DOMAIN s : i = a + 1
        BY <1>3, <2>2
      <3>2. j # 1
        BY <1>3, <1>7
      <3>3. PICK b \in DOMAIN s : j = b + 1
        BY <1>3, <3>2
      <3>4. a < b /\ p.place[s[b]] < p.place[s[a]]
        BY <1>3, <1>7, <3>1, <3>3
      <3>5. PICK k \in a .. b : s[k] \in p.deps[s[b]]
        <4>1. Waited(p, s, a, b)
            BY <1>2b, <3>4, Zenon
        <4> QED
          BY <4>1 DEF Waited
      <3>6. k \in DOMAIN s /\ k + 1 \in i .. j
        BY <1>3, <3>1, <3>3, <3>5
      <3>7. w[k + 1] \in p.deps[w[j]]
        BY <1>3, <3>3, <3>5, <3>6
      <3> QED
        BY <3>6, <3>7 DEF Waited
    <2> QED
      BY <2>1, <2>2
  <1>8. StableFrom(p, taken, w)
    BY <1>2, <1>3, <1>4, <1>5, <1>6, <1>7 DEF StableFrom
  <1> QED
    BY <1>8 DEF w

LEMMA StableEnd ==
    ASSUME NEW p PROVE StableFrom(p, Members(p), <<>>)
  <1>1. <<>> \in Seq(Members(p)) /\ DOMAIN <<>> = {} /\ Len(<<>>) = 0
    OBVIOUS
  <1>2. Members(p) \ Members(p) = {} /\ Cardinality({}) = 0
    BY FS_EmptySet
  <1> QED
    BY <1>1, <1>2 DEF StableFrom

(* The order of a DAG is a stable topological order. *)
LEMMA OrderIsStable ==
    ASSUME NEW p, Shape(p), Acyclic(p)
    PROVE  IsStableOrder(p, TopologicalOrder(p))
  <1> DEFINE M == Members(p)
             D == SUBSET M
  <1>1. PICK o \in [D -> Seq(M)] : /\ \A taken \in D : o[taken] = OrderBody(p, o, taken)
                                   /\ TopologicalOrder(p) = o[{}]
    BY OrderFunction
  <1> DEFINE T == {taken \in D : StableFrom(p, taken, o[taken])}
  <1>2. /\ Ranked(Lacks(M), D)
        /\ \A s, t \in D : s \subseteq t /\ s # t => Lacks(M)[t] < Lacks(M)[s]
    BY LacksFacts DEF Shape
  <1>3. ASSUME NEW taken \in D, \A y \in D : Lacks(M)[y] < Lacks(M)[taken] => y \in T
        PROVE  StableFrom(p, taken, o[taken])
    <2>1. CASE Takeable(p, taken) = {}
      <3>1. taken = M
        BY <2>1, SomethingTakeable DEF Shape
      <3>2. o[taken] = <<>>
        BY <1>1, <2>1 DEF OrderBody
      <3> QED
        BY <3>1, <3>2, StableEnd
    <2>2. CASE Takeable(p, taken) # {}
      <3> DEFINE t == First(p, Takeable(p, taken))
      <3>1. Leads(p, taken, t)
        <4>1. Takeable(p, taken) \in SUBSET M
          BY DEF Takeable
        <4> QED
          BY <2>2, <4>1, FirstOfTasks DEF Shape, Leads
      <3>2. t \in M \ taken
        BY <3>1 DEF Leads, Takeable
      <3>3. o[taken] = <<t>> \o o[taken \cup {t}]
        BY <1>1, <2>2 DEF OrderBody
      <3> HIDE DEF t
      <3>4. taken \cup {t} \in D /\ Lacks(M)[taken \cup {t}] < Lacks(M)[taken]
        BY <1>2, <3>2
      <3>5. StableFrom(p, taken \cup {t}, o[taken \cup {t}])
        BY <1>3, <3>4
      <3>6. taken \in SUBSET Members(p)
        OBVIOUS
      <3>7. StableFrom(p, taken, <<t>> \o o[taken \cup {t}])
        <4> HIDE DEF T, D
        <4> QED
          BY <3>1, <3>5, <3>6, StableStep
      <3> QED
        BY <3>3, <3>7
    <2> QED
      BY <2>1, <2>2
  <1>4. D \subseteq T
    <2>1. Inductive(T, D, Lacks(M))
      BY <1>3 DEF Inductive
    <2> HIDE DEF D, T
    <2> QED
      BY <1>2, <2>1, RankInduction
  <1>5. StableFrom(p, {}, o[{}])
    BY <1>4
  <1> QED
    BY <1>1, <1>5 DEF StableFrom, IsStableOrder, Waited

-----------------------------------------------------------------------------
(* execution_batches *)

BatchBody(p, b, visited) ==
    IF Takeable(p, visited) = {} THEN <<>>
    ELSE <<Takeable(p, visited)>> \o b[visited \cup Takeable(p, visited)]

LEMMA TakingMore ==
    ASSUME NEW p, NEW taken \in SUBSET Members(p), Takeable(p, taken) # {}
    PROVE  /\ Takeable(p, taken) \in SUBSET Members(p)
           /\ taken \cup Takeable(p, taken) \in SUBSET Members(p)
           /\ taken \subseteq taken \cup Takeable(p, taken)
           /\ taken # taken \cup Takeable(p, taken)
  BY DEF Takeable

(* The recursive function of execution_batches. *)
LEMMA BatchFunction ==
    ASSUME NEW p, Shape(p)
    PROVE  \E b \in [SUBSET Members(p) -> Seq(SUBSET Members(p))] :
               /\ \A visited \in SUBSET Members(p) : b[visited] = BatchBody(p, b, visited)
               /\ ExecutionBatches(p) = b[{}]
  <1> DEFINE M == Members(p)
             D == SUBSET M
             R == Seq(SUBSET M)
             G == [b \in [D -> R] |-> [visited \in D |-> BatchBody(p, b, visited)]]
             Is(b) == b = [visited \in D |-> BatchBody(p, b, visited)]
             batches == CHOOSE b : Is(b)
  <1>1. /\ Ranked(Lacks(M), D)
        /\ \A s, t \in D : s \subseteq t /\ s # t => Lacks(M)[t] < Lacks(M)[s]
    BY LacksFacts DEF Shape
  <1>2. ASSUME NEW visited \in D, Takeable(p, visited) # {}
        PROVE  /\ Takeable(p, visited) \in SUBSET M
               /\ visited \cup Takeable(p, visited) \in D
               /\ Lacks(M)[visited \cup Takeable(p, visited)] < Lacks(M)[visited]
    BY <1>1, <1>2, TakingMore
  <1>3. ASSUME NEW b, NEW visited \in D,
               \A s \in D : Lacks(M)[s] < Lacks(M)[visited] => b[s] \in R
        PROVE  BatchBody(p, b, visited) \in R
    <2>1. CASE Takeable(p, visited) = {}
      BY <2>1 DEF BatchBody
    <2>2. CASE Takeable(p, visited) # {}
      <3>1. b[visited \cup Takeable(p, visited)] \in R
        BY <1>2, <1>3, <2>2
      <3>2. <<Takeable(p, visited)>> \o b[visited \cup Takeable(p, visited)] \in R
        BY <1>2, <2>2, <3>1, Cons DEF IsCons
      <3> QED
        BY <2>2, <3>2 DEF BatchBody
    <2> QED
      BY <2>1, <2>2
  <1>4. G \in [[D -> R] -> [D -> R]]
    <2>1. ASSUME NEW b \in [D -> R], NEW visited \in D PROVE BatchBody(p, b, visited) \in R
      BY <1>3
    <2> QED
      BY <2>1
  <1>5. Descends(G, D, R, Lacks(M))
    <2> SUFFICES ASSUME NEW h \in [D -> R], NEW k \in [D -> R], NEW x \in D,
                        \A y \in D : Lacks(M)[y] < Lacks(M)[x] => h[y] = k[y]
                 PROVE  BatchBody(p, h, x) = BatchBody(p, k, x)
      BY DEF Descends
    <2> QED
      BY <1>2 DEF BatchBody
  <1>6. Functional(G, D, R)
    <2>1. <<>> \in R
      OBVIOUS
    <2> HIDE DEF D, R, G
    <2> QED
      BY <1>4, <2>1 DEF Functional
  <1>7. PICK b : FixedPoint(b, G, D, R)
    <2> HIDE DEF D, R, G
    <2> QED
      BY <1>1, <1>5, <1>6, Recursion
  <1>8. b \in [D -> R] /\ b = G[b]
    BY <1>7 DEF FixedPoint
  <1>9. Is(b)
    BY <1>8
  <1>10. Is(batches)
    BY <1>9
  <1>11. ExecutionBatches(p) = batches[{}]
    BY DEF ExecutionBatches, BatchBody, Takeable
  <1> HIDE DEF batches
  <1>12. batches \in [D -> R]
    <2> DEFINE T == {visited \in D : batches[visited] \in R}
    <2>1. ASSUME NEW x \in D, \A y \in D : Lacks(M)[y] < Lacks(M)[x] => y \in T
          PROVE  x \in T
      <3>1. BatchBody(p, batches, x) \in R
        BY <1>3, <2>1
      <3> QED
        BY <1>10, <3>1
    <2>2. D \subseteq T
      <3> HIDE DEF D, T
      <3>1. Inductive(T, D, Lacks(M))
        BY <2>1 DEF Inductive
      <3> QED
        BY <1>1, <3>1, RankInduction
    <2> QED
      BY <1>10, <2>2
  <1> QED
    BY <1>10, <1>11, <1>12

(* The layers b of what is not visited, and the number of each task's. *)
Levels(p, visited, b, level) ==
    /\ level \in [Members(p) \ visited -> DOMAIN b]
    /\ \A t \in Members(p) \ visited :
          /\ \A d \in p.deps[t] \ visited : level[d] < level[t]
          /\ level[t] = 1 \/ \E d \in p.deps[t] \ visited : level[d] + 1 = level[t]
    /\ \A k \in DOMAIN b : b[k] = {t \in Members(p) \ visited : level[t] = k}

HasLevels(p, visited, b) == \E level : Levels(p, visited, b, level)

LEMMA LevelStep ==
    ASSUME NEW p, Acyclic(p), NEW visited \in SUBSET Members(p), NEW current,
           current = Takeable(p, visited),
           NEW b \in Seq(SUBSET Members(p)), HasLevels(p, visited \cup current, b)
    PROVE  HasLevels(p, visited, <<current>> \o b)
  <1>0. PICK level : Levels(p, visited \cup current, b, level)
    BY DEF HasLevels
  <1> DEFINE M == Members(p)
             c == <<current>> \o b
             m == [t \in M \ visited |-> IF t \in current THEN 1 ELSE level[t] + 1]
  <1>1. /\ current \subseteq M \ visited
        /\ \A t \in current : p.deps[t] \subseteq visited
        /\ \A t \in M \ visited : t \notin current => \E d \in p.deps[t] : d \notin visited
    BY DEF Takeable
  <1>2. \A t \in M : p.deps[t] \subseteq M
    BY DEF Acyclic, Closed
  <1>3. /\ Len(b) \in Nat /\ DOMAIN b = 1..Len(b) /\ DOMAIN c = 1..(Len(b) + 1)
        /\ c[1] = current
        /\ \A i \in DOMAIN b : c[i + 1] = b[i]
        /\ \A i \in DOMAIN c : i = 1 \/ \E j \in DOMAIN b : i = j + 1
    <2>1. current \in SUBSET M
      BY <1>1
    <2>2. IsCons(c, current, b, SUBSET M)
      BY <2>1, Cons
    <2> QED
      BY <2>2 DEF IsCons
  <1> HIDE DEF c
  <1>4. \A t \in (M \ visited) \ current : level[t] \in Nat \ {0} /\ level[t] <= Len(b)
    BY <1>0, <1>3 DEF Levels
  <1>5. \A t \in (M \ visited) \ current :
          /\ \A d \in p.deps[t] : d \notin visited /\ d \notin current => level[d] < level[t]
          /\ level[t] = 1 \/ \E d \in p.deps[t] : d \notin visited /\ d \notin current /\ level[d] + 1 = level[t]
    BY <1>0 DEF Levels
  <1>6. \A k \in DOMAIN b : b[k] = {t \in (M \ visited) \ current : level[t] = k}
    BY <1>0 DEF Levels
  <1>7. /\ \A t \in M \ visited : m[t] = IF t \in current THEN 1 ELSE level[t] + 1
        /\ DOMAIN m = M \ visited
    OBVIOUS
  <1>8. m \in [M \ visited -> DOMAIN c]
    <2>1. ASSUME NEW t \in M \ visited PROVE m[t] \in DOMAIN c
      BY <1>3, <1>4, <1>7
    <2> QED
      BY <2>1
  <1> HIDE DEF m
  <1>9. ASSUME NEW t \in M \ visited, NEW d \in p.deps[t] \ visited PROVE m[d] < m[t]
    <2>1. t \notin current /\ d \in M \ visited
      BY <1>1, <1>2, <1>9
    <2>2. m[t] = level[t] + 1 /\ level[t] \in Nat \ {0}
      BY <1>4, <1>7, <2>1
    <2>3. CASE d \in current
      BY <1>7, <2>1, <2>2, <2>3
    <2>4. CASE d \notin current
      <3>1. m[d] = level[d] + 1 /\ level[d] \in Nat \ {0} /\ level[d] < level[t]
        BY <1>4, <1>5, <1>7, <2>1, <2>4
      <3> QED
        BY <2>2, <3>1
    <2> QED
      BY <2>3, <2>4
  <1>10. ASSUME NEW t \in M \ visited
         PROVE  m[t] = 1 \/ \E d \in p.deps[t] \ visited : m[d] + 1 = m[t]
    <2>1. CASE t \in current
      BY <1>7, <2>1
    <2>2. CASE t \notin current /\ level[t] = 1
      <3>1. PICK d \in p.deps[t] : d \notin visited
        BY <1>1, <2>2
      <3>2. d \in M \ visited
        BY <1>2, <3>1
      <3>3. d \in current
        <4>1. d \notin current => level[d] \in Nat \ {0} /\ level[d] < level[t]
          BY <1>4, <1>5, <2>2, <3>1, <3>2
        <4> QED
          BY <2>2, <4>1
      <3>4. m[d] = 1 /\ m[t] = 2
        BY <1>7, <2>2, <3>2, <3>3
      <3> QED
        BY <3>1, <3>4
    <2>3. CASE t \notin current /\ level[t] # 1
      <3>1. PICK d \in p.deps[t] : d \notin visited /\ d \notin current /\ level[d] + 1 = level[t]
        BY <1>5, <2>3
      <3>2. d \in M \ visited
        BY <1>2, <3>1
      <3>3. m[d] = level[d] + 1 /\ m[t] = level[t] + 1
        BY <1>7, <2>3, <3>1, <3>2
      <3> QED
        BY <3>1, <3>3
    <2> QED
      BY <2>1, <2>2, <2>3
  <1>11. ASSUME NEW k \in DOMAIN c PROVE c[k] = {t \in M \ visited : m[t] = k}
    <2>1. CASE k = 1
      <3>1. \A t \in M \ visited : m[t] = 1 <=> t \in current
        BY <1>4, <1>7
      <3> QED
        BY <1>1, <1>3, <2>1, <3>1
    <2>2. CASE k # 1
      <3>1. PICK j \in DOMAIN b : k = j + 1
        BY <1>3, <2>2
      <3>2. j \in Nat \ {0} /\ c[k] = b[j]
        BY <1>3, <3>1
      <3>3. \A t \in M \ visited : m[t] = k <=> t \notin current /\ level[t] = j
        BY <1>4, <1>7, <3>1, <3>2
      <3> QED
        BY <1>6, <3>1, <3>2, <3>3
    <2> QED
      BY <2>1, <2>2
  <1>12. Levels(p, visited, c, m)
    BY <1>8, <1>9, <1>10, <1>11 DEF Levels
  <1> QED
    BY <1>12 DEF c, HasLevels

LEMMA MaxIs ==
    ASSUME NEW S \in SUBSET Nat, NEW m \in S, \A x \in S : x <= m
    PROVE  Max(S) = m
  <1>1. m \in S /\ \A x \in S : m >= x
    OBVIOUS
  <1>2. \A n \in S : (\A x \in S : n >= x) => n = m
    OBVIOUS
  <1> QED
    BY <1>1, <1>2 DEF Max

(* The batches of a DAG are its layers. *)
LEMMA BatchesAreLayers ==
    ASSUME NEW p, Shape(p), Acyclic(p)
    PROVE  IsLayering(p, ExecutionBatches(p))
  <1> DEFINE M == Members(p)
             D == SUBSET M
  <1>1. PICK b \in [D -> Seq(SUBSET M)] : /\ \A visited \in D : b[visited] = BatchBody(p, b, visited)
                                          /\ ExecutionBatches(p) = b[{}]
    BY BatchFunction
  <1> DEFINE T == {visited \in D : HasLevels(p, visited, b[visited])}
  <1>2. /\ Ranked(Lacks(M), D)
        /\ \A s, t \in D : s \subseteq t /\ s # t => Lacks(M)[t] < Lacks(M)[s]
    BY LacksFacts DEF Shape
  <1>3. ASSUME NEW visited \in D, \A y \in D : Lacks(M)[y] < Lacks(M)[visited] => y \in T
        PROVE  HasLevels(p, visited, b[visited])
    <2>1. CASE Takeable(p, visited) = {}
      <3>1. visited = M
        BY <2>1, SomethingTakeable DEF Shape
      <3>2. b[visited] = <<>>
        BY <1>1, <2>1 DEF BatchBody
      <3>3. DOMAIN <<>> = {}
        OBVIOUS
      <3>4. Levels(p, visited, <<>>, [t \in {} |-> 1])
        BY <3>1, <3>3 DEF Levels
      <3> QED
        BY <3>2, <3>4 DEF HasLevels
    <2>2. CASE Takeable(p, visited) # {}
      <3> DEFINE current == Takeable(p, visited)
                 more == visited \cup current
      <3>1. more \in D /\ Lacks(M)[more] < Lacks(M)[visited]
        BY <1>2, <2>2, TakingMore
      <3>2. b[visited] = <<current>> \o b[more]
        BY <1>1, <2>2 DEF BatchBody
      <3>3. b[more] \in Seq(SUBSET M)
        BY <1>1, <3>1
      <3>4. HasLevels(p, more, b[more])
        BY <1>3, <3>1
      <3>5. HasLevels(p, visited, <<current>> \o b[more])
        BY <3>3, <3>4, LevelStep
      <3> QED
        BY <3>2, <3>5
    <2> QED
      BY <2>1, <2>2
  <1>4. D \subseteq T
    <2>1. Inductive(T, D, Lacks(M))
      BY <1>3 DEF Inductive
    <2> HIDE DEF D, T
    <2> QED
      BY <1>2, <2>1, RankInduction
  <1>5. PICK level : Levels(p, {}, b[{}], level)
    BY <1>4 DEF HasLevels
  <1>6. /\ level \in [M -> DOMAIN b[{}]]
        /\ \A t \in M : /\ \A d \in p.deps[t] : level[d] < level[t]
                        /\ level[t] = 1 \/ \E d \in p.deps[t] : level[d] + 1 = level[t]
        /\ \A k \in DOMAIN b[{}] : b[{}][k] = {t \in M : level[t] = k}
    BY <1>5 DEF Levels
  <1>7. b[{}] \in Seq(SUBSET M)
    BY <1>1
  <1>8. \A t \in M : level[t] \in Nat \ {0}
    BY <1>6, <1>7
  <1>9. ASSUME NEW t \in M
        PROVE  level[t] = 1 + Max({0} \cup {level[d] : d \in p.deps[t]})
    <2> DEFINE S == {0} \cup {level[d] : d \in p.deps[t]}
    <2>1. PICK n \in Nat : n + 1 = level[t]
      BY <1>8
    <2>2. \A d \in p.deps[t] : level[d] \in Nat /\ level[d] <= n
      <3> TAKE d \in p.deps[t]
      <3>1. d \in M
        BY DEF Acyclic, Closed
      <3> QED
        BY <1>6, <1>8, <2>1, <3>1
    <2>3. S \in SUBSET Nat /\ \A x \in S : x <= n
      BY <2>1, <2>2
    <2>4. n \in S
      BY <1>6, <1>8, <2>1, <2>2
    <2> HIDE DEF S
    <2>5. Max(S) = n
      BY <2>3, <2>4, MaxIs
    <2>6. level[t] = 1 + Max(S)
      BY <2>1, <2>5
    <2> QED
      BY <2>6 DEF S
  <1>10. IsLayering(p, b[{}])
    BY <1>6, <1>9 DEF IsLayering
  <1> QED
    BY <1>1, <1>10

-----------------------------------------------------------------------------
(* execution_waves *)

WavesBody(p, W, h, rest, current) ==
    LET flushed == IF current = {} THEN <<>> ELSE <<current>>
        t == First(p, rest)
    IN  IF rest = {} THEN flushed
        ELSE IF ~MayShare(p, t, W) THEN flushed \o <<{t}>> \o h[<<rest \ {t}, {}>>]
        ELSE IF Cardinality(current \cup {t}) >= W
             THEN <<current \cup {t}>> \o h[<<rest \ {t}, {}>>]
        ELSE h[<<rest \ {t}, current \cup {t}>>]

Calls(S) == (SUBSET S) \X (SUBSET S)

LEMMA CallFacts ==
    ASSUME NEW S
    PROVE  /\ \A c \in Calls(S) : c[1] \in SUBSET S /\ c[2] \in SUBSET S /\ c = <<c[1], c[2]>>
           /\ \A a \in SUBSET S, b \in SUBSET S :
                 <<a, b>> \in Calls(S) /\ <<a, b>>[1] = a /\ <<a, b>>[2] = b
  <1> DEFINE A == SUBSET S
  <1>1. Calls(S) = A \X A
    BY DEF Calls
  <1> HIDE DEF A
  <1>2. /\ \A c \in A \X A : c[1] \in A /\ c[2] \in A /\ c = <<c[1], c[2]>>
        /\ \A a \in A, b \in A : <<a, b>> \in A \X A /\ <<a, b>>[1] = a /\ <<a, b>>[2] = b
    BY PairFacts
  <1> QED
    BY <1>1, <1>2 DEF A

(* How many tasks are still to be put into waves. *)
Remaining(S) == [call \in Calls(S) |-> Cardinality(call[1])]

LEMMA RemainingFacts ==
    ASSUME NEW S, IsFiniteSet(S)
    PROVE  /\ Ranked(Remaining(S), Calls(S))
           /\ \A rest, a, b \in SUBSET S : \A t \in rest :
                 Remaining(S)[<<rest \ {t}, a>>] < Remaining(S)[<<rest, b>>]
  <1>1. Cardinality(S) \in Nat
    BY FS_CardinalityType
  <1>2. ASSUME NEW s \in SUBSET S
        PROVE  Cardinality(s) \in Nat /\ Cardinality(s) <= Cardinality(S)
    BY SubsetFacts
  <1>3. \A call \in Calls(S) : Remaining(S)[call] = Cardinality(call[1]) /\ call[1] \in SUBSET S
    BY CallFacts DEF Remaining
  <1>4. \A call \in Calls(S) : Remaining(S)[call] \in 0..Cardinality(S)
    <2> TAKE call \in Calls(S)
    <2>1. Remaining(S)[call] \in Nat /\ Remaining(S)[call] <= Cardinality(S)
      BY <1>2, <1>3
    <2> QED
      BY <1>1, <2>1
  <1>5. Ranked(Remaining(S), Calls(S))
    <2>1. Remaining(S) \in [Calls(S) -> 0..Cardinality(S)]
      BY <1>4 DEF Remaining
    <2> QED
      BY <1>1, <2>1 DEF Ranked
  <1>6. ASSUME NEW rest \in SUBSET S, NEW a \in SUBSET S, NEW b \in SUBSET S, NEW t \in rest
        PROVE  Remaining(S)[<<rest \ {t}, a>>] < Remaining(S)[<<rest, b>>]
    <2>0. rest \ {t} \in SUBSET S
      OBVIOUS
    <2>1. Remaining(S)[<<rest \ {t}, a>>] = Cardinality(rest \ {t})
      <3> DEFINE less == rest \ {t}
      <3> HIDE DEF less
      <3>1. <<less, a>> \in Calls(S) /\ <<less, a>>[1] = less
        BY <2>0, CallFacts DEF less
      <3> QED
        BY <1>3, <3>1 DEF less
    <2>2. Remaining(S)[<<rest, b>>] = Cardinality(rest)
      BY <1>3, CallFacts
    <2>3. Cardinality(rest \ {t}) = Cardinality(rest) - 1 /\ Cardinality(rest) \in Nat
      BY SubsetFacts
    <2> QED
      BY <2>1, <2>2, <2>3
  <1> QED
    BY <1>5, <1>6

Builds(h, p, W, S) ==
    \A rest, current \in SUBSET S : h[<<rest, current>>] = WavesBody(p, W, h, rest, current)

LEMMA FirstOfRest ==
    ASSUME NEW p, Shape(p), NEW S \in SUBSET Members(p), NEW rest \in SUBSET S, rest # {}
    PROVE  First(p, rest) \in rest /\ First(p, rest) \in S /\ rest \ {First(p, rest)} \in SUBSET S
  <1>1. rest \in SUBSET Members(p)
    OBVIOUS
  <1>2. First(p, rest) \in rest
    BY <1>1, FirstOfTasks DEF Shape
  <1> QED
    BY <1>2

(* Two functions agree on what is computed after the first of rest is taken. *)
SameBelow(h, k, S, rest) ==
    \A a \in SUBSET S : \A t \in rest : h[<<rest \ {t}, a>>] = k[<<rest \ {t}, a>>]

LEMMA WavesLocal ==
    ASSUME NEW p, Shape(p), NEW S \in SUBSET Members(p), NEW W, NEW h, NEW k,
           NEW rest \in SUBSET S, NEW current \in SUBSET S,
           SameBelow(h, k, S, rest)
    PROVE  WavesBody(p, W, h, rest, current) = WavesBody(p, W, k, rest, current)
  <1> DEFINE t == First(p, rest)
  <1>1. CASE rest = {}
    BY <1>1 DEF WavesBody
  <1>2. CASE rest # {}
    <2>1. t \in rest /\ t \in S
      BY <1>2, FirstOfRest
    <2>2. {} \in SUBSET S /\ current \cup {t} \in SUBSET S
      BY <2>1
    <2>3. /\ h[<<rest \ {t}, {}>>] = k[<<rest \ {t}, {}>>]
          /\ h[<<rest \ {t}, current \cup {t}>>] = k[<<rest \ {t}, current \cup {t}>>]
      BY <2>1, <2>2 DEF SameBelow
    <2> QED
      BY <2>3 DEF WavesBody
  <1> QED
    BY <1>1, <1>2

LEMMA WavesType ==
    ASSUME NEW p, Shape(p), NEW S \in SUBSET Members(p), NEW W, NEW h,
           NEW rest \in SUBSET S, NEW current \in SUBSET S,
           \A a \in SUBSET S : \A t \in rest : h[<<rest \ {t}, a>>] \in Seq(SUBSET S)
    PROVE  WavesBody(p, W, h, rest, current) \in Seq(SUBSET S)
  <1> DEFINE flushed == IF current = {} THEN <<>> ELSE <<current>>
             t == First(p, rest)
             R == Seq(SUBSET S)
  <1>1. flushed \in R
    <2> DEFINE A == SUBSET S
    <2>1. current \in A
      OBVIOUS
    <2> HIDE DEF A
    <2>2. <<>> \in Seq(A) /\ <<current>> \in Seq(A)
      BY <2>1, ShortSequences
    <2> QED
      BY <2>2 DEF A
  <1>2. CASE rest = {}
    BY <1>1, <1>2 DEF WavesBody
  <1>3. CASE rest # {}
    <2>1. t \in rest /\ t \in S
      BY <1>3, FirstOfRest
    <2>2. h[<<rest \ {t}, {}>>] \in R /\ h[<<rest \ {t}, current \cup {t}>>] \in R
      BY <2>1
    <2>3. <<{t}>> \in R /\ <<current \cup {t}>> \in R
      BY <2>1
    <2>4. WavesBody(p, W, h, rest, current) =
              IF ~MayShare(p, t, W) THEN flushed \o <<{t}>> \o h[<<rest \ {t}, {}>>]
              ELSE IF Cardinality(current \cup {t}) >= W
                   THEN <<current \cup {t}>> \o h[<<rest \ {t}, {}>>]
              ELSE h[<<rest \ {t}, current \cup {t}>>]
      BY <1>3 DEF WavesBody
    <2>5. \A s, z \in R : s \o z \in R
      BY ConcatElement
    <2> DEFINE one == <<{t}>>
               wave == <<current \cup {t}>>
               later == h[<<rest \ {t}, {}>>]
               longer == h[<<rest \ {t}, current \cup {t}>>]
    <2>6. \/ WavesBody(p, W, h, rest, current) = (flushed \o one) \o later
          \/ WavesBody(p, W, h, rest, current) = wave \o later
          \/ WavesBody(p, W, h, rest, current) = longer
      BY <2>4, Zenon
    <2>7. one \in R /\ wave \in R /\ later \in R /\ longer \in R
      BY <2>2, <2>3
    <2> HIDE DEF flushed, t, R, one, wave, later, longer
    <2>8. flushed \o one \in R
      BY <1>1, <2>5, <2>7
    <2>9. (flushed \o one) \o later \in R /\ wave \o later \in R
      BY <2>5, <2>7, <2>8
    <2> QED
      BY <2>6, <2>7, <2>9 DEF R
  <1> QED
    BY <1>2, <1>3

(* The recursive function of execution_waves. *)
LEMMA WavesFunction ==
    ASSUME NEW p, Shape(p), NEW S \in SUBSET Members(p), NEW W
    PROVE  \E h \in [Calls(S) -> Seq(SUBSET S)] :
               Builds(h, p, W, S) /\ ExecutionWaves(p, S, W) = h[<<S, {}>>]
  <1> DEFINE D == Calls(S)
             R == Seq(SUBSET S)
             G == [h \in [D -> R] |-> [call \in D |-> WavesBody(p, W, h, call[1], call[2])]]
             Is(h) == h = [call \in D |-> WavesBody(p, W, h, call[1], call[2])]
             build == CHOOSE h : Is(h)
  <1>0. IsFiniteSet(S)
    BY FS_Subset DEF Shape
  <1>1. /\ Ranked(Remaining(S), D)
        /\ \A rest, a, b \in SUBSET S : \A t \in rest :
              Remaining(S)[<<rest \ {t}, a>>] < Remaining(S)[<<rest, b>>]
    BY <1>0, RemainingFacts
  <1>2. ASSUME NEW h, NEW call \in D,
               \A c \in D : Remaining(S)[c] < Remaining(S)[call] => h[c] \in R
        PROVE  WavesBody(p, W, h, call[1], call[2]) \in R
    <2>1. call[1] \in SUBSET S /\ call[2] \in SUBSET S /\ call = <<call[1], call[2]>>
      BY CallFacts
    <2>2. ASSUME NEW a \in SUBSET S, NEW t \in call[1] PROVE h[<<call[1] \ {t}, a>>] \in R
      <3>1. <<call[1] \ {t}, a>> \in D
        BY <2>1, CallFacts
      <3>2. Remaining(S)[<<call[1] \ {t}, a>>] < Remaining(S)[call]
        BY <1>1, <2>1
      <3> QED
        BY <1>2, <3>1, <3>2
    <2> QED
      BY <2>1, <2>2, WavesType
  <1>3. G \in [[D -> R] -> [D -> R]]
    <2>1. ASSUME NEW h \in [D -> R], NEW call \in D
          PROVE  WavesBody(p, W, h, call[1], call[2]) \in R
      BY <1>2
    <2> QED
      BY <2>1
  <1>4. Descends(G, D, R, Remaining(S))
    <2> SUFFICES ASSUME NEW h \in [D -> R], NEW k \in [D -> R], NEW x \in D,
                        \A y \in D : Remaining(S)[y] < Remaining(S)[x] => h[y] = k[y]
                 PROVE  WavesBody(p, W, h, x[1], x[2]) = WavesBody(p, W, k, x[1], x[2])
      BY DEF Descends
    <2>1. x[1] \in SUBSET S /\ x[2] \in SUBSET S /\ x = <<x[1], x[2]>>
      BY CallFacts
    <2>2. ASSUME NEW a \in SUBSET S, NEW t \in x[1]
          PROVE  h[<<x[1] \ {t}, a>>] = k[<<x[1] \ {t}, a>>]
      <3>0. x[1] \ {t} \in SUBSET S
        BY <2>1
      <3>1. <<x[1] \ {t}, a>> \in D
        BY <3>0, CallFacts
      <3>2. Remaining(S)[<<x[1] \ {t}, a>>] < Remaining(S)[x]
        BY <1>1, <2>1
      <3> QED
        BY <3>1, <3>2
    <2>3. SameBelow(h, k, S, x[1])
      BY <2>2 DEF SameBelow
    <2> DEFINE rest == x[1]
               current == x[2]
    <2>4. rest \in SUBSET S /\ current \in SUBSET S /\ SameBelow(h, k, S, rest)
      BY <2>1, <2>3
    <2> HIDE DEF rest, current, D, R, G
    <2>5. WavesBody(p, W, h, rest, current) = WavesBody(p, W, k, rest, current)
      BY <2>4, WavesLocal
    <2> QED
      BY <2>5 DEF rest, current
  <1>5. Functional(G, D, R)
    <2>1. <<>> \in R
      OBVIOUS
    <2> HIDE DEF D, R, G
    <2> QED
      BY <1>3, <2>1 DEF Functional
  <1>6. PICK h : FixedPoint(h, G, D, R)
    <2> HIDE DEF D, R, G
    <2> QED
      BY <1>1, <1>4, <1>5, Recursion
  <1>7. h \in [D -> R] /\ h = G[h]
    BY <1>6 DEF FixedPoint
  <1>8. Is(h)
    BY <1>7
  <1>9. Is(build)
    BY <1>8
  <1>10. ExecutionWaves(p, S, W) = build[<<S, {}>>]
    BY DEF ExecutionWaves, WavesBody, Calls
  <1> HIDE DEF build
  <1>11. build \in [D -> R]
    <2> DEFINE T == {call \in D : build[call] \in R}
    <2>1. ASSUME NEW x \in D, \A y \in D : Remaining(S)[y] < Remaining(S)[x] => y \in T
          PROVE  x \in T
      <3>1. WavesBody(p, W, build, x[1], x[2]) \in R
        BY <1>2, <2>1
      <3> QED
        BY <1>9, <3>1
    <2>2. D \subseteq T
      <3> HIDE DEF D, T
      <3>1. Inductive(T, D, Remaining(S))
        BY <2>1 DEF Inductive
      <3> QED
        BY <1>1, <3>1, RankInduction
    <2> QED
      BY <1>9, <2>2
  <1>12. Builds(build, p, W, S)
    <2> SUFFICES ASSUME NEW rest \in SUBSET S, NEW current \in SUBSET S
                 PROVE  build[<<rest, current>>] = WavesBody(p, W, build, rest, current)
      BY DEF Builds
    <2>1. <<rest, current>> \in D /\ <<rest, current>>[1] = rest /\ <<rest, current>>[2] = current
      BY CallFacts
    <2>2. build[<<rest, current>>] = WavesBody(p, W, build, <<rest, current>>[1], <<rest, current>>[2])
      BY <1>9, <2>1
    <2> QED
      BY <2>1, <2>2
  <1> QED
    BY <1>10, <1>11, <1>12

SomeOf(p, S, less) == S \in SUBSET Members(p) /\ less \in SUBSET S

(* The function for some of the tasks is part of that for all of them. *)
LEMMA WavesAgree ==
    ASSUME NEW p, Shape(p), NEW W, NEW S, NEW less, SomeOf(p, S, less),
           NEW h, Builds(h, p, W, S), NEW k, Builds(k, p, W, less)
    PROVE  h[<<less, {}>>] = k[<<less, {}>>]
  <1> USE DEF SomeOf
  <1> DEFINE D == Calls(less)
             T == {call \in D : h[call] = k[call]}
  <1>0. IsFiniteSet(less)
    BY FS_Subset DEF Shape
  <1>1. /\ Ranked(Remaining(less), D)
        /\ \A rest, a, b \in SUBSET less : \A t \in rest :
              Remaining(less)[<<rest \ {t}, a>>] < Remaining(less)[<<rest, b>>]
    BY <1>0, RemainingFacts
  <1>2. ASSUME NEW x \in D, \A y \in D : Remaining(less)[y] < Remaining(less)[x] => y \in T
        PROVE  h[x] = k[x]
    <2>1. x[1] \in SUBSET less /\ x[2] \in SUBSET less /\ x = <<x[1], x[2]>>
      BY CallFacts
    <2>2. ASSUME NEW a \in SUBSET less, NEW t \in x[1]
          PROVE  h[<<x[1] \ {t}, a>>] = k[<<x[1] \ {t}, a>>]
      <3>1. <<x[1] \ {t}, a>> \in D
        BY <2>1, CallFacts
      <3>2. Remaining(less)[<<x[1] \ {t}, a>>] < Remaining(less)[x]
        BY <1>1, <2>1
      <3> QED
        BY <1>2, <3>1, <3>2
    <2>3. less \in SUBSET Members(p) /\ SameBelow(h, k, less, x[1])
      BY <2>2 DEF SameBelow
    <2>4. WavesBody(p, W, h, x[1], x[2]) = WavesBody(p, W, k, x[1], x[2])
      BY <2>1, <2>3, WavesLocal
    <2>5. x[1] \in SUBSET S /\ x[2] \in SUBSET S
      BY <2>1
    <2>6. h[<<x[1], x[2]>>] = WavesBody(p, W, h, x[1], x[2])
      BY <2>5 DEF Builds
    <2>7. k[<<x[1], x[2]>>] = WavesBody(p, W, k, x[1], x[2])
      BY <2>1 DEF Builds
    <2> QED
      BY <2>1, <2>4, <2>6, <2>7
  <1>3. D \subseteq T
    <2>1. Inductive(T, D, Remaining(less))
      BY <1>2 DEF Inductive
    <2> HIDE DEF D, T
    <2> QED
      BY <1>1, <2>1, RankInduction
  <1>4. <<less, {}>> \in D
    BY CallFacts
  <1> QED
    BY <1>3, <1>4

-----------------------------------------------------------------------------
(* The next wave *)

(* The tasks that come first and may share a wave, until it is full or the *)
(* next task must run alone.                                               *)
Fills(p, W, tasks, N) ==
    /\ N \in SUBSET tasks /\ N # {} /\ Cardinality(N) <= W
    /\ \A u \in N : MayShare(p, u, W)
    /\ \A u \in N : \A v \in tasks \ N : p.place[u] < p.place[v]
    /\ \/ Cardinality(N) = W
       \/ tasks \ N # {} => ~MayShare(p, First(p, tasks \ N), W)

LEMMA NextIs ==
    ASSUME NEW p, Shape(p), NEW W \in Nat, NEW tasks \in SUBSET Members(p), NEW N,
           Fills(p, W, tasks, N)
    PROVE  NextWave(p, tasks, W) = N
  <1> DEFINE Together(t) == /\ \A u \in UpTo(p, tasks, t) : MayShare(p, u, W)
                            /\ Cardinality(UpTo(p, tasks, t)) <= W
  <1>0. /\ N \in SUBSET tasks /\ N # {} /\ Cardinality(N) <= W
        /\ \A u \in N : MayShare(p, u, W)
        /\ \A u \in N : \A v \in tasks \ N : p.place[u] < p.place[v]
        /\ \/ Cardinality(N) = W
           \/ tasks \ N # {} => ~MayShare(p, First(p, tasks \ N), W)
    BY DEF Fills
  <1>1. IsFiniteSet(tasks) /\ \A t \in tasks : p.place[t] \in Nat
    BY FS_Subset DEF Shape
  <1>2. ASSUME NEW t \in N PROVE Together(t)
    <2>1. UpTo(p, tasks, t) \subseteq N
      <3> SUFFICES ASSUME NEW v \in UpTo(p, tasks, t), v \notin N PROVE FALSE
        OBVIOUS
      <3>1. v \in tasks \ N /\ p.place[v] <= p.place[t] /\ p.place[t] < p.place[v]
        BY <1>0 DEF UpTo
      <3> QED
        BY <1>0, <1>1, <3>1
    <2>2. IsFiniteSet(N) /\ Cardinality(N) \in Nat
      BY <1>0, <1>1, FS_Subset, FS_CardinalityType
    <2>3. Cardinality(UpTo(p, tasks, t)) \in Nat /\ Cardinality(UpTo(p, tasks, t)) <= Cardinality(N)
      BY <2>1, <2>2, FS_Subset, FS_CardinalityType
    <2>4. Cardinality(UpTo(p, tasks, t)) <= W
      BY <1>0, <2>2, <2>3
    <2> QED
      BY <1>0, <2>1, <2>4
  <1>3. ASSUME NEW t \in tasks \ N PROVE ~Together(t)
    <2>1. CASE Cardinality(N) = W
      <3>1. N \cup {t} \subseteq UpTo(p, tasks, t)
        BY <1>0, <1>1 DEF UpTo
      <3>2. IsFiniteSet(UpTo(p, tasks, t)) /\ IsFiniteSet(N)
        BY <1>0, <1>1, FS_Subset DEF UpTo
      <3>3. Cardinality(N \cup {t}) = Cardinality(N) + 1
        BY <3>2, FS_AddElement
      <3>4. Cardinality(N \cup {t}) <= Cardinality(UpTo(p, tasks, t))
        BY <3>1, <3>2, FS_Subset
      <3>5. Cardinality(UpTo(p, tasks, t)) \in Nat
        BY <3>2, FS_CardinalityType
      <3>6. ~(Cardinality(UpTo(p, tasks, t)) <= W)
        BY <2>1, <3>3, <3>4, <3>5
      <3> QED
        BY <3>6
    <2>2. CASE ~MayShare(p, First(p, tasks \ N), W)
      <3>1. tasks \ N \in SUBSET Members(p) /\ tasks \ N # {}
        OBVIOUS
      <3>2. /\ First(p, tasks \ N) \in tasks \ N
            /\ p.place[First(p, tasks \ N)] <= p.place[t]
        BY <3>1, FirstOfTasks DEF Shape
      <3>3. First(p, tasks \ N) \in UpTo(p, tasks, t)
        BY <3>2 DEF UpTo
      <3> QED
        BY <2>2, <3>3
    <2> QED
      BY <1>0, <2>1, <2>2
  <1>4. {t \in tasks : Together(t)} = N
    BY <1>0, <1>2, <1>3
  <1> QED
    BY <1>0, <1>4 DEF NextWave

(* The first task alone. *)
LEMMA NextIsFirst ==
    ASSUME NEW p, Shape(p), NEW W, NEW tasks \in SUBSET Members(p), tasks # {},
           ~MayShare(p, First(p, tasks), W)
    PROVE  NextWave(p, tasks, W) = {First(p, tasks)}
  <1> DEFINE Together(t) == /\ \A u \in UpTo(p, tasks, t) : MayShare(p, u, W)
                            /\ Cardinality(UpTo(p, tasks, t)) <= W
  <1>1. ASSUME NEW t \in tasks PROVE ~Together(t)
    <2>1. First(p, tasks) \in tasks /\ p.place[First(p, tasks)] <= p.place[t]
      BY FirstOfTasks DEF Shape
    <2>2. First(p, tasks) \in UpTo(p, tasks, t)
      BY <2>1 DEF UpTo
    <2> QED
      BY <2>2
  <1>2. {t \in tasks : Together(t)} = {}
    BY <1>1
  <1> QED
    BY <1>2 DEF NextWave

-----------------------------------------------------------------------------
(* One wave after the other *)

(* current are the tasks collected for the next wave, rest those behind. *)
Collecting(p, W, rest, current) ==
    /\ rest \cap current = {} /\ rest \cup current # {}
    /\ Cardinality(current) < W
    /\ \A u \in current : MayShare(p, u, W)
    /\ \A u \in current : \A v \in rest : p.place[u] < p.place[v]

FirstWave(p, W, h, rest, current) ==
    LET tasks == rest \cup current
        N == NextWave(p, tasks, W)
    IN  h[<<rest, current>>] = <<N>> \o h[<<tasks \ N, {}>>]

LEMMA FirstWaveStep ==
    ASSUME NEW p, Shape(p), NEW W \in Nat \ {0}, NEW S \in SUBSET Members(p),
           NEW h \in [Calls(S) -> Seq(SUBSET S)], Builds(h, p, W, S),
           NEW rest \in SUBSET S, NEW current \in SUBSET S, Collecting(p, W, rest, current),
           \A t \in rest : Collecting(p, W, rest \ {t}, current \cup {t}) =>
                               FirstWave(p, W, h, rest \ {t}, current \cup {t})
    PROVE  FirstWave(p, W, h, rest, current)
  <1> DEFINE tasks == rest \cup current
             t == First(p, rest)
             flushed == IF current = {} THEN <<>> ELSE <<current>>
  <1>1. /\ rest \cap current = {} /\ tasks # {}
        /\ IsFiniteSet(current) /\ Cardinality(current) \in Nat /\ Cardinality(current) < W
        /\ \A u \in current : MayShare(p, u, W)
        /\ \A u \in current : \A v \in rest : p.place[u] < p.place[v]
        /\ IsFiniteSet(S) /\ tasks \in SUBSET Members(p)
    BY FS_Subset, FS_CardinalityType DEF Collecting, Shape
  <1>2. h[<<rest, current>>] = WavesBody(p, W, h, rest, current)
    BY DEF Builds
  <1>3. \A r, c \in SUBSET S : h[<<r, c>>] \in Seq(SUBSET S)
    BY CallFacts
  <1>4. tasks \ current = rest
    BY <1>1
  <1>5. CASE rest = {}
    <2>1. current # {} /\ tasks = current
      BY <1>1, <1>5
    <2>2. NextWave(p, tasks, W) = current
      <3>1. tasks \ current = {} /\ current \in SUBSET tasks /\ Cardinality(current) <= W
        BY <1>1, <2>1
      <3> HIDE DEF tasks
      <3>2. Fills(p, W, tasks, current)
        BY <1>1, <2>1, <3>1 DEF Fills
      <3> QED
        BY <1>1, <3>2, NextIs
    <2>3. h[<<rest, current>>] = <<current>>
      BY <1>2, <1>5, <2>1 DEF WavesBody
    <2>4. h[<<tasks \ current, {}>>] = <<>>
      <3>1. h[<<rest, {}>>] = WavesBody(p, W, h, rest, {})
        BY DEF Builds
      <3>2. h[<<rest, {}>>] = <<>>
        BY <1>5, <3>1 DEF WavesBody
      <3> QED
        BY <1>4, <3>2, Zenon
    <2>5. <<current>> \o <<>> = <<current>>
      OBVIOUS
    <2> HIDE DEF tasks
    <2>6. h[<<rest, current>>] = <<current>> \o h[<<tasks \ current, {}>>]
      BY <2>3, <2>4, <2>5
    <2> QED
      BY <2>2, <2>6 DEF FirstWave, tasks
  <1>6. CASE rest # {} /\ ~MayShare(p, t, W)
    <2>1. t \in rest /\ t \in S /\ rest \ {t} \in SUBSET S
      BY <1>6, FirstOfRest
    <2>2. h[<<rest, current>>] = (flushed \o <<{t}>>) \o h[<<rest \ {t}, {}>>]
      BY <1>2, <1>6 DEF WavesBody
    <2>3. h[<<rest \ {t}, {}>>] \in Seq(SUBSET S)
      BY <1>3, <2>1
    <2>4. CASE current = {}
      <3>1. NextWave(p, tasks, W) = {t} /\ tasks = rest
        <4>1. tasks = rest /\ rest \in SUBSET Members(p)
          BY <2>4
        <4> QED
          BY <1>6, <4>1, NextIsFirst
      <3>2. h[<<rest, current>>] = <<{t}>> \o h[<<rest \ {t}, {}>>]
        <4> DEFINE later == h[<<rest \ {t}, {}>>]
                   A == SUBSET S
                   one == {t}
        <4>1. later \in Seq(A) /\ one \in A
          BY <2>1, <2>3
        <4>2. h[<<rest, current>>] = (<<>> \o <<one>>) \o later
          BY <2>2, <2>4
        <4> HIDE DEF later, A, one
        <4>3. h[<<rest, current>>] = <<one>> \o later
          BY <4>1, <4>2, ConcatTypes
        <4> QED
          BY <4>3 DEF later, one
      <3> HIDE DEF tasks
      <3> QED
        BY <3>1, <3>2 DEF FirstWave, tasks
    <2>5. CASE current # {}
      <3>1. NextWave(p, tasks, W) = current
        <4>0. current \in SUBSET tasks /\ Cardinality(current) <= W
          BY <1>1
        <4> HIDE DEF tasks
        <4>1. /\ tasks \ current # {}
              /\ \A u \in current : \A v \in tasks \ current : p.place[u] < p.place[v]
              /\ ~MayShare(p, First(p, tasks \ current), W)
          BY <1>1, <1>4, <1>6, Zenon
        <4>2. Fills(p, W, tasks, current)
          BY <1>1, <2>5, <4>0, <4>1 DEF Fills
        <4> QED
          BY <1>1, <4>2, NextIs
      <3>2. h[<<rest, {}>>] = (<<>> \o <<{t}>>) \o h[<<rest \ {t}, {}>>]
        <4>1. h[<<rest, {}>>] = WavesBody(p, W, h, rest, {})
          BY DEF Builds
        <4> QED
          BY <1>6, <4>1 DEF WavesBody
      <3>3. h[<<rest, current>>] = <<current>> \o h[<<rest, {}>>]
        <4> DEFINE later == h[<<rest \ {t}, {}>>]
                   A == SUBSET S
                   one == {t}
        <4>1. later \in Seq(A) /\ one \in A /\ current \in A
          BY <2>1, <2>3
        <4>2. h[<<rest, current>>] = (<<current>> \o <<one>>) \o later
          BY <2>2, <2>5
        <4>3. h[<<rest, {}>>] = (<<>> \o <<one>>) \o later
          BY <3>2
        <4> HIDE DEF later, A, one
        <4>4. h[<<rest, {}>>] = <<one>> \o later
          BY <4>1, <4>3, ConcatTypes
        <4>5. h[<<rest, current>>] = <<current>> \o (<<one>> \o later)
          BY <4>1, <4>2, ConcatTypes
        <4> QED
          BY <4>4, <4>5
      <3>4. h[<<rest, current>>] = <<current>> \o h[<<tasks \ current, {}>>]
        BY <1>4, <3>3, Zenon
      <3> HIDE DEF tasks
      <3> QED
        BY <3>1, <3>4 DEF FirstWave, tasks
    <2> QED
      BY <2>4, <2>5
  <1>7. CASE rest # {} /\ MayShare(p, t, W)
    <2> DEFINE more == current \cup {t}
    <2>1. /\ t \in rest /\ t \in S /\ rest \ {t} \in SUBSET S /\ more \in SUBSET S
          /\ \A v \in rest : p.place[t] <= p.place[v]
      <3>1. rest \in SUBSET Members(p)
        OBVIOUS
      <3>2. t \in rest /\ \A v \in rest : p.place[t] <= p.place[v]
        BY <1>7, <3>1, FirstOfTasks DEF Shape
      <3> QED
        BY <3>2
    <2> HIDE DEF t
    <2>2. Cardinality(more) = Cardinality(current) + 1
      BY <1>1, <2>1, FS_AddElement
    <2>3. /\ (rest \ {t}) \cap more = {} /\ (rest \ {t}) \cup more = tasks
          /\ tasks \ more = rest \ {t}
          /\ \A u \in more : MayShare(p, u, W)
      BY <1>1, <1>7, <2>1
    <2>4. \A u \in more : \A v \in rest \ {t} : p.place[u] < p.place[v]
      <3>1. ASSUME NEW v \in rest \ {t} PROVE p.place[t] < p.place[v]
        <4>1. /\ p.place[t] <= p.place[v] /\ p.place[t] # p.place[v]
              /\ p.place[t] \in Nat /\ p.place[v] \in Nat
          BY <2>1, <3>1 DEF Shape
        <4> QED
          BY <4>1
      <3> QED
        BY <1>1, <3>1
    <2>5. h[<<rest, current>>] = IF Cardinality(more) >= W THEN <<more>> \o h[<<rest \ {t}, {}>>]
                                 ELSE h[<<rest \ {t}, more>>]
      BY <1>2, <1>7 DEF WavesBody, t
    <2>6. CASE Cardinality(more) >= W
      <3>1. Cardinality(more) = W
        BY <1>1, <2>2, <2>6
      <3>2. NextWave(p, tasks, W) = more
        <4>1. /\ more \in SUBSET tasks /\ more # {} /\ Cardinality(more) <= W
              /\ \A u \in more : \A v \in tasks \ more : p.place[u] < p.place[v]
          BY <2>3, <2>4, <3>1
        <4> HIDE DEF tasks, more
        <4>2. tasks \in SUBSET Members(p) /\ W \in Nat
          BY <1>1
        <4>3. \A u \in more : MayShare(p, u, W)
          BY <2>3
        <4>4. Fills(p, W, tasks, more)
          BY <3>1, <4>1, <4>3 DEF Fills
        <4> QED
          BY <4>2, <4>4, NextIs
      <3>3. h[<<rest, current>>] = <<more>> \o h[<<tasks \ more, {}>>]
        <4>1. h[<<rest, current>>] = <<more>> \o h[<<rest \ {t}, {}>>]
          BY <2>5, <2>6
        <4> HIDE DEF tasks, more
        <4> QED
          BY <2>3, <4>1, Zenon
      <3> HIDE DEF tasks, more
      <3> QED
        BY <3>2, <3>3 DEF FirstWave, tasks
    <2>7. CASE ~(Cardinality(more) >= W)
      <3>1. Cardinality(more) < W
        BY <1>1, <2>2, <2>7
      <3>2. (rest \ {t}) \cup more # {}
        OBVIOUS
      <3>3. Collecting(p, W, rest \ {t}, more)
        <4> HIDE DEF more
        <4> QED
          BY <2>3, <2>4, <3>1, <3>2 DEF Collecting
      <3>4. FirstWave(p, W, h, rest \ {t}, more)
        BY <2>1, <3>3
      <3>5. h[<<rest, current>>] = h[<<rest \ {t}, more>>]
        BY <2>5, <2>7
      <3>6. h[<<rest \ {t}, more>>]
            = <<NextWave(p, tasks, W)>> \o h[<<tasks \ NextWave(p, tasks, W), {}>>]
        <4> HIDE DEF tasks, more
        <4> QED
          BY <2>3, <3>4 DEF FirstWave
      <3> HIDE DEF more
      <3>7. h[<<rest, current>>]
            = <<NextWave(p, tasks, W)>> \o h[<<tasks \ NextWave(p, tasks, W), {}>>]
        BY <3>5, <3>6, Zenon
      <3> QED
        BY <3>7 DEF FirstWave
    <2> QED
      BY <2>6, <2>7
  <1> QED
    BY <1>5, <1>6, <1>7

(* Building all waves at once is building the next one, then the others. *)
LEMMA WavesOneByOne ==
    ASSUME NEW p, Shape(p), NEW W \in Nat \ {0}, NEW S \in SUBSET Members(p), S # {}
    PROVE  ExecutionWaves(p, S, W)
           = <<NextWave(p, S, W)>> \o ExecutionWaves(p, S \ NextWave(p, S, W), W)
  <1>0. IsFiniteSet(S)
    BY FS_Subset DEF Shape
  <1>1. PICK h \in [Calls(S) -> Seq(SUBSET S)] :
            Builds(h, p, W, S) /\ ExecutionWaves(p, S, W) = h[<<S, {}>>]
    BY WavesFunction
  <1> DEFINE D == Calls(S)
             Good(c) == Collecting(p, W, c[1], c[2]) => FirstWave(p, W, h, c[1], c[2])
             T == {c \in D : Good(c)}
  <1>2. /\ Ranked(Remaining(S), D)
        /\ \A rest, a, b \in SUBSET S : \A t \in rest :
              Remaining(S)[<<rest \ {t}, a>>] < Remaining(S)[<<rest, b>>]
    BY <1>0, RemainingFacts
  <1>3. ASSUME NEW x \in D, \A y \in D : Remaining(S)[y] < Remaining(S)[x] => y \in T,
               Collecting(p, W, x[1], x[2])
        PROVE  FirstWave(p, W, h, x[1], x[2])
    <2>1. x[1] \in SUBSET S /\ x[2] \in SUBSET S /\ x = <<x[1], x[2]>>
      BY CallFacts
    <2>2. ASSUME NEW t \in x[1], Collecting(p, W, x[1] \ {t}, x[2] \cup {t})
          PROVE  FirstWave(p, W, h, x[1] \ {t}, x[2] \cup {t})
      <3> DEFINE less == x[1] \ {t}
                 more == x[2] \cup {t}
                 y == <<less, more>>
      <3>1. less \in SUBSET S /\ more \in SUBSET S
        BY <2>1
      <3>2. Remaining(S)[y] < Remaining(S)[x]
        BY <1>2, <2>1, <3>1
      <3> HIDE DEF less, more
      <3>3. y \in D /\ y[1] = less /\ y[2] = more
        BY <3>1, CallFacts
      <3>4. Good(y)
        BY <1>3, <3>2, <3>3
      <3> QED
        BY <2>2, <3>3, <3>4 DEF less, more
    <2> DEFINE rest == x[1]
               current == x[2]
    <2>3. /\ rest \in SUBSET S /\ current \in SUBSET S /\ Collecting(p, W, rest, current)
          /\ \A t \in rest : Collecting(p, W, rest \ {t}, current \cup {t}) =>
                               FirstWave(p, W, h, rest \ {t}, current \cup {t})
      BY <1>3, <2>1, <2>2
    <2> HIDE DEF rest, current, D, T
    <2>4. FirstWave(p, W, h, rest, current)
      BY <1>1, <2>3, FirstWaveStep
    <2> QED
      BY <2>4 DEF rest, current
  <1>4. D \subseteq T
    <2>1. Inductive(T, D, Remaining(S))
      BY <1>3 DEF Inductive
    <2> HIDE DEF D, T
    <2> QED
      BY <1>2, <2>1, RankInduction
  <1>5. <<S, {}>> \in D /\ <<S, {}>>[1] = S /\ <<S, {}>>[2] = {}
    BY CallFacts
  <1>6. Collecting(p, W, S, {})
    BY FS_EmptySet DEF Collecting
  <1>7. FirstWave(p, W, h, S, {})
    BY <1>4, <1>5, <1>6
  <1> DEFINE N == NextWave(p, S, W)
             others == S \ N
  <1>8. h[<<S, {}>>] = <<N>> \o h[<<others, {}>>]
    <2>1. S \cup {} = S
      OBVIOUS
    <2> QED
      BY <1>7, <2>1 DEF FirstWave
  <1>9. others \in SUBSET S /\ others \in SUBSET Members(p)
    OBVIOUS
  <1> HIDE DEF N, others, D, T, Good
  <1>10. PICK k \in [Calls(others) -> Seq(SUBSET others)] :
            Builds(k, p, W, others) /\ ExecutionWaves(p, others, W) = k[<<others, {}>>]
    BY <1>9, WavesFunction
  <1>11. h[<<others, {}>>] = k[<<others, {}>>]
    <2>1. Builds(h, p, W, S) /\ Builds(k, p, W, others)
      BY <1>1, <1>10
    <2>2. SomeOf(p, S, others)
      BY <1>9 DEF SomeOf
    <2> QED
      BY <2>1, <2>2, WavesAgree
  <1>12. ExecutionWaves(p, S, W) = <<N>> \o ExecutionWaves(p, others, W)
    BY <1>1, <1>8, <1>10, <1>11
  <1> QED
    BY <1>12 DEF N, others

-----------------------------------------------------------------------------
(* validate: one search after the other *)

Searches(p) == [acyclic : BOOLEAN, visited : SUBSET Members(p)]

Continue(f, V, d, search) == IF search.acyclic THEN f[<<d, V, search.visited>>] ELSE search

SearchAll(f, V, base, S) ==
    LET Then(d, search) == Continue(f, V, d, search) IN FoldSet(Then, base, S)

FoldBody(g, f, V, base, s) == IF s = {} THEN base ELSE Continue(f, V, AnyOf(s), g[s \ {AnyOf(s)}])

(* f answers searches from S with searches. *)
Answers(p, f, V, S) == \A d \in S : \A W \in SUBSET Members(p) : f[<<d, V, W>>] \in Searches(p)

LEMMA ContinueType ==
    ASSUME NEW p, NEW f, NEW V, NEW S, Answers(p, f, V, S), NEW d \in S, NEW search \in Searches(p)
    PROVE  Continue(f, V, d, search) \in Searches(p)
  <1>1. search.visited \in SUBSET Members(p)
    BY DEF Searches
  <1>2. f[<<d, V, search.visited>>] \in Searches(p)
    BY <1>1 DEF Answers
  <1> QED
    BY <1>2 DEF Continue

Folding(g, f, V, base, S) == \A s \in SUBSET S : g[s] = FoldBody(g, f, V, base, s)

FoldOf(g, p, f, V, base, S) ==
    /\ g \in [SUBSET S -> Searches(p)]
    /\ Folding(g, f, V, base, S)
    /\ SearchAll(f, V, base, S) = g[S]

(* The recursive function behind the fold. *)
LEMMA FoldExists ==
    ASSUME NEW p, NEW S, IsFiniteSet(S), NEW f, NEW V, Answers(p, f, V, S), NEW base \in Searches(p)
    PROVE  \E g : FoldOf(g, p, f, V, base, S)
  <1> DEFINE D == SUBSET S
             R == Searches(p)
             G == [g \in [D -> R] |-> [s \in D |-> FoldBody(g, f, V, base, s)]]
             Is(g) == g = [s \in D |-> FoldBody(g, f, V, base, s)]
             iter == CHOOSE g : Is(g)
  <1>1. /\ Ranked(Sizes(S), D)
        /\ \A s \in D : \A x \in s : Sizes(S)[s \ {x}] < Sizes(S)[s]
        /\ \A s \in D : s # {} => AnyOf(s) \in s
    BY SizesFacts
  <1>2. ASSUME NEW g, NEW s \in D,
               \A y \in D : Sizes(S)[y] < Sizes(S)[s] => g[y] \in R
        PROVE  FoldBody(g, f, V, base, s) \in R
    <2>1. CASE s = {}
      BY <2>1 DEF FoldBody
    <2>2. CASE s # {}
      <3>1. AnyOf(s) \in s /\ AnyOf(s) \in S /\ s \ {AnyOf(s)} \in D
        BY <1>1, <2>2
      <3>2. g[s \ {AnyOf(s)}] \in R
        BY <1>1, <1>2, <3>1
      <3>3. Continue(f, V, AnyOf(s), g[s \ {AnyOf(s)}]) \in R
        BY <3>1, <3>2, ContinueType
      <3> QED
        BY <2>2, <3>3 DEF FoldBody
    <2> QED
      BY <2>1, <2>2
  <1>3. G \in [[D -> R] -> [D -> R]]
    <2>1. ASSUME NEW g \in [D -> R], NEW s \in D PROVE FoldBody(g, f, V, base, s) \in R
      BY <1>2
    <2> HIDE DEF D, R
    <2> QED
      BY <2>1
  <1>4. Descends(G, D, R, Sizes(S))
    <2> SUFFICES ASSUME NEW h \in [D -> R], NEW k \in [D -> R], NEW x \in D,
                        \A y \in D : Sizes(S)[y] < Sizes(S)[x] => h[y] = k[y]
                 PROVE  FoldBody(h, f, V, base, x) = FoldBody(k, f, V, base, x)
      BY DEF Descends
    <2>1. CASE x = {}
      BY <2>1 DEF FoldBody
    <2>2. CASE x # {}
      <3>1. AnyOf(x) \in x /\ x \ {AnyOf(x)} \in D
        BY <1>1, <2>2
      <3>2. h[x \ {AnyOf(x)}] = k[x \ {AnyOf(x)}]
        BY <1>1, <3>1
      <3> QED
        BY <3>2 DEF FoldBody
    <2> QED
      BY <2>1, <2>2
  <1>5. Functional(G, D, R)
    <2>1. base \in R
      OBVIOUS
    <2> HIDE DEF D, R, G
    <2> QED
      BY <1>3, <2>1 DEF Functional
  <1>6. PICK g : FixedPoint(g, G, D, R)
    <2> HIDE DEF D, R, G
    <2> QED
      BY <1>1, <1>4, <1>5, Recursion
  <1>7. g \in [D -> R] /\ g = G[g]
    BY <1>6 DEF FixedPoint
  <1>8. Is(g)
    <2> HIDE DEF D, R
    <2> QED
      BY <1>7
  <1>9. Is(iter)
    BY <1>8
  <1>10. SearchAll(f, V, base, S) = iter[S]
    BY DEF SearchAll, FoldSet, MapThenFoldSet, AnyOf, FoldBody
  <1> HIDE DEF iter
  <1>11. iter \in [D -> R]
    <2> DEFINE T == {s \in D : iter[s] \in R}
    <2>1. ASSUME NEW x \in D, \A y \in D : Sizes(S)[y] < Sizes(S)[x] => y \in T
          PROVE  x \in T
      <3>1. FoldBody(iter, f, V, base, x) \in R
        BY <1>2, <2>1
      <3> HIDE DEF R
      <3> QED
        BY <1>9, <3>1
    <2>2. D \subseteq T
      <3> HIDE DEF D, T
      <3>1. Inductive(T, D, Sizes(S))
        BY <2>1 DEF Inductive
      <3> QED
        BY <1>1, <3>1, RankInduction
    <2> HIDE DEF R
    <2> QED
      BY <1>9, <2>2
  <1>12. Folding(iter, f, V, base, S)
    BY <1>9 DEF Folding
  <1>13. FoldOf(iter, p, f, V, base, S)
    BY <1>10, <1>11, <1>12 DEF FoldOf
  <1> QED
    BY <1>13

(* T holds of a search from more when it holds of that from less. *)
Keeps(T, p, f, V, S) ==
    \A s \in SUBSET S : \A x \in s : \A search \in Searches(p) :
        <<s \ {x}, search>> \in T => <<s, Continue(f, V, x, search)>> \in T

(* Induction along the fold. *)
LEMMA FoldRule ==
    ASSUME NEW p, NEW S, IsFiniteSet(S), NEW f, NEW V, Answers(p, f, V, S), NEW base \in Searches(p),
           NEW T, <<{}, base>> \in T, Keeps(T, p, f, V, S)
    PROVE  <<S, SearchAll(f, V, base, S)>> \in T /\ SearchAll(f, V, base, S) \in Searches(p)
  <1>1. PICK g : FoldOf(g, p, f, V, base, S)
    BY FoldExists
  <1> DEFINE D == SUBSET S
             Q == {s \in D : <<s, g[s]>> \in T}
  <1>2. /\ Ranked(Sizes(S), D)
        /\ \A s \in D : \A x \in s : Sizes(S)[s \ {x}] < Sizes(S)[s]
        /\ \A s \in D : s # {} => AnyOf(s) \in s
    BY SizesFacts
  <1>3. ASSUME NEW s \in D, \A y \in D : Sizes(S)[y] < Sizes(S)[s] => y \in Q
        PROVE  <<s, g[s]>> \in T
    <2>1. g[s] = FoldBody(g, f, V, base, s)
      BY <1>1 DEF FoldOf, Folding
    <2>2. CASE s = {}
      BY <2>1, <2>2 DEF FoldBody
    <2>3. CASE s # {}
      <3> DEFINE x == AnyOf(s)
                 less == s \ {x}
      <3>1. x \in s /\ less \in D
        BY <1>2, <2>3
      <3>2. <<less, g[less]>> \in T /\ g[less] \in Searches(p)
        BY <1>1, <1>2, <1>3, <3>1 DEF FoldOf
      <3>3. g[s] = Continue(f, V, x, g[less])
        BY <2>1, <2>3 DEF FoldBody
      <3> HIDE DEF x
      <3>4. <<s, Continue(f, V, x, g[less])>> \in T
        BY <3>1, <3>2 DEF Keeps
      <3> QED
        BY <3>3, <3>4
    <2> QED
      BY <2>2, <2>3
  <1>4. D \subseteq Q
    <2>1. Inductive(Q, D, Sizes(S))
      BY <1>3 DEF Inductive
    <2> HIDE DEF D, Q
    <2> QED
      BY <1>2, <2>1, RankInduction
  <1> QED
    BY <1>1, <1>4 DEF FoldOf

(* Searches that get the same answers are the same. *)
LEMMA FoldSame ==
    ASSUME NEW p, NEW S, IsFiniteSet(S), NEW V, NEW base \in Searches(p),
           NEW f, Answers(p, f, V, S), NEW k, Answers(p, k, V, S),
           \A d \in S : \A W \in SUBSET Members(p) : f[<<d, V, W>>] = k[<<d, V, W>>]
    PROVE  SearchAll(f, V, base, S) = SearchAll(k, V, base, S)
  <1>1. PICK g : FoldOf(g, p, f, V, base, S)
    BY FoldExists
  <1>2. PICK e : FoldOf(e, p, k, V, base, S)
    BY FoldExists
  <1> DEFINE D == SUBSET S
             Q == {s \in D : g[s] = e[s]}
  <1>3. /\ Ranked(Sizes(S), D)
        /\ \A s \in D : \A x \in s : Sizes(S)[s \ {x}] < Sizes(S)[s]
        /\ \A s \in D : s # {} => AnyOf(s) \in s
    BY SizesFacts
  <1>4. ASSUME NEW s \in D, \A y \in D : Sizes(S)[y] < Sizes(S)[s] => y \in Q
        PROVE  g[s] = e[s]
    <2>1. g[s] = FoldBody(g, f, V, base, s) /\ e[s] = FoldBody(e, k, V, base, s)
      BY <1>1, <1>2 DEF FoldOf, Folding
    <2>2. CASE s = {}
      BY <2>1, <2>2 DEF FoldBody
    <2>3. CASE s # {}
      <3> DEFINE x == AnyOf(s)
                 less == s \ {x}
      <3>1. x \in S /\ x \in s /\ less \in D
        BY <1>3, <2>3
      <3>2. g[less] = e[less] /\ e[less] \in Searches(p)
        BY <1>2, <1>3, <1>4, <3>1 DEF FoldOf
      <3>3. g[s] = Continue(f, V, x, g[less]) /\ e[s] = Continue(k, V, x, e[less])
        BY <2>1, <2>3 DEF FoldBody
      <3> HIDE DEF x, less
      <3>4. e[less].visited \in SUBSET Members(p)
        BY <3>2 DEF Searches
      <3>5. f[<<x, V, e[less].visited>>] = k[<<x, V, e[less].visited>>]
        BY <3>1, <3>4
      <3>6. Continue(f, V, x, e[less]) = Continue(k, V, x, e[less])
        BY <3>5 DEF Continue
      <3> QED
        BY <3>2, <3>3, <3>6
    <2> QED
      BY <2>2, <2>3
  <1>5. D \subseteq Q
    <2>1. Inductive(Q, D, Sizes(S))
      BY <1>4 DEF Inductive
    <2> HIDE DEF D, Q
    <2> QED
      BY <1>3, <2>1, RankInduction
  <1> QED
    BY <1>1, <1>2, <1>5 DEF FoldOf

Found(acyclic, W) == [acyclic |-> acyclic, visited |-> W]
Visits(p) == Members(p) \X (SUBSET Members(p)) \X (SUBSET Members(p))

LEMMA SearchFacts ==
    ASSUME NEW p
    PROVE  /\ \A W \in SUBSET Members(p) : \A a \in BOOLEAN :
                 /\ Found(a, W) \in Searches(p) /\ Found(a, W).visited = W
           /\ \A s \in Searches(p) : s.visited \in SUBSET Members(p)
           /\ \A s \in Searches(p) : \A t \in Members(p) :
                 /\ [s EXCEPT !.visited = @ \cup {t}] \in Searches(p)
                 /\ [s EXCEPT !.visited = @ \cup {t}].visited = s.visited \cup {t}
  BY DEF Searches, Found

LEMMA FoundAcyclic ==
    ASSUME NEW W PROVE Found(TRUE, W).acyclic /\ ~Found(FALSE, W).acyclic
  BY DEF Found

LEMMA VisitedKeeps ==
    ASSUME NEW p, NEW s \in Searches(p), NEW t
    PROVE  [s EXCEPT !.visited = @ \cup {t}].acyclic <=> s.acyclic
  BY DEF Searches

LEMMA VisitFacts ==
    ASSUME NEW p
    PROVE  /\ \A c \in Visits(p) : /\ c[1] \in Members(p) /\ c[2] \in SUBSET Members(p)
                                   /\ c[3] \in SUBSET Members(p) /\ c = <<c[1], c[2], c[3]>>
           /\ \A t \in Members(p) : \A V, W \in SUBSET Members(p) :
                 /\ <<t, V, W>> \in Visits(p)
                 /\ <<t, V, W>>[1] = t /\ <<t, V, W>>[2] = V /\ <<t, V, W>>[3] = W
  <1> DEFINE A == Members(p)
             B == SUBSET A
  <1>1. Visits(p) = A \X B \X B
    BY DEF Visits
  <1> HIDE DEF A, B
  <1>2. /\ \A c \in A \X B \X B : c[1] \in A /\ c[2] \in B /\ c[3] \in B /\ c = <<c[1], c[2], c[3]>>
        /\ \A x \in A, y \in B, z \in B :
              /\ <<x, y, z>> \in A \X B \X B
              /\ <<x, y, z>>[1] = x /\ <<x, y, z>>[2] = y /\ <<x, y, z>>[3] = z
    BY TripleFacts
  <1> QED
    BY <1>1, <1>2 DEF A, B

LEMMA FoldType ==
    ASSUME NEW p, NEW S, IsFiniteSet(S), NEW f, NEW V, Answers(p, f, V, S), NEW base \in Searches(p)
    PROVE  SearchAll(f, V, base, S) \in Searches(p)
  <1>1. PICK g : FoldOf(g, p, f, V, base, S)
    BY FoldExists
  <1> QED
    BY <1>1 DEF FoldOf

(* The tasks that are not on the stack. *)
OffStack(p) == [call \in Visits(p) |-> Cardinality(Members(p) \ call[2])]

LEMMA OffStackFacts ==
    ASSUME NEW p, Shape(p)
    PROVE  /\ Ranked(OffStack(p), Visits(p))
           /\ \A t, d \in Members(p) : \A V, W, X \in SUBSET Members(p) :
                 t \notin V => OffStack(p)[<<d, V \cup {t}, X>>] < OffStack(p)[<<t, V, W>>]
  <1> DEFINE M == Members(p)
  <1>1. Cardinality(M) \in Nat /\ IsFiniteSet(M)
    BY FS_CardinalityType DEF Shape
  <1>2. ASSUME NEW s \in SUBSET M
        PROVE  /\ Cardinality(s) \in Nat /\ Cardinality(s) <= Cardinality(M)
               /\ \A x \in s : Cardinality(s \ {x}) = Cardinality(s) - 1
    BY <1>1, SubsetFacts
  <1>3. \A c \in Visits(p) : OffStack(p)[c] = Cardinality(M \ c[2])
    BY DEF OffStack
  <1>4. \A c \in Visits(p) : OffStack(p)[c] \in 0..Cardinality(M)
    <2> TAKE c \in Visits(p)
    <2>1. M \ c[2] \in SUBSET M
      OBVIOUS
    <2>2. Cardinality(M \ c[2]) \in Nat /\ Cardinality(M \ c[2]) <= Cardinality(M)
      BY <1>2, <2>1
    <2> QED
      BY <1>1, <1>3, <2>2
  <1>5. Ranked(OffStack(p), Visits(p))
    <2>1. OffStack(p) \in [Visits(p) -> 0..Cardinality(M)]
      BY <1>4 DEF OffStack
    <2> QED
      BY <1>1, <2>1 DEF Ranked
  <1>6. ASSUME NEW t \in M, NEW d \in M, NEW V \in SUBSET M, NEW W \in SUBSET M, NEW X \in SUBSET M,
               t \notin V
        PROVE  OffStack(p)[<<d, V \cup {t}, X>>] < OffStack(p)[<<t, V, W>>]
    <2> DEFINE more == V \cup {t}
    <2>1. more \in SUBSET M /\ M \ more = (M \ V) \ {t} /\ t \in M \ V /\ M \ V \in SUBSET M
      BY <1>6
    <2> HIDE DEF more
    <2>2. <<d, more, X>> \in Visits(p) /\ <<d, more, X>>[2] = more
      BY <2>1, VisitFacts
    <2>3. <<t, V, W>> \in Visits(p) /\ <<t, V, W>>[2] = V
      BY VisitFacts
    <2>4. Cardinality((M \ V) \ {t}) = Cardinality(M \ V) - 1 /\ Cardinality(M \ V) \in Nat
      BY <1>2, <2>1
    <2>5. OffStack(p)[<<d, more, X>>] = Cardinality((M \ V) \ {t})
      BY <1>3, <2>1, <2>2
    <2>6. OffStack(p)[<<t, V, W>>] = Cardinality(M \ V)
      BY <1>3, <2>3
    <2>7. OffStack(p)[<<d, more, X>>] < OffStack(p)[<<t, V, W>>]
      BY <2>4, <2>5, <2>6
    <2> QED
      BY <2>7 DEF more
  <1> QED
    BY <1>5, <1>6

VisitBody(p, f, t, V, W) ==
    IF t \in V THEN Found(FALSE, W)
    ELSE IF t \in W THEN Found(TRUE, W)
    ELSE [SearchAll(f, V \cup {t}, Found(TRUE, W), p.deps[t]) EXCEPT !.visited = @ \cup {t}]

LEMMA VisitType ==
    ASSUME NEW p, Shape(p), Closed(p), NEW f, NEW t \in Members(p), NEW V \in SUBSET Members(p),
           NEW W \in SUBSET Members(p), t \notin V => Answers(p, f, V \cup {t}, p.deps[t])
    PROVE  VisitBody(p, f, t, V, W) \in Searches(p)
  <1> DEFINE below == SearchAll(f, V \cup {t}, Found(TRUE, W), p.deps[t])
  <1>1. Found(FALSE, W) \in Searches(p) /\ Found(TRUE, W) \in Searches(p)
    BY SearchFacts
  <1>2. CASE t \notin V
    <2>1. IsFiniteSet(p.deps[t])
      BY FS_Subset DEF Shape, Closed
    <2>2. below \in Searches(p)
      BY <1>1, <1>2, <2>1, FoldType
    <2> HIDE DEF below
    <2>3. [below EXCEPT !.visited = @ \cup {t}] \in Searches(p)
      BY <2>2, SearchFacts
    <2> QED
      BY <1>1, <1>2, <2>3 DEF VisitBody, below
  <1>3. CASE t \in V
    BY <1>1, <1>3 DEF VisitBody
  <1> QED
    BY <1>2, <1>3

VisitOf(visit, p) ==
    /\ \A t \in Members(p) : \A V, W \in SUBSET Members(p) :
          /\ visit[<<t, V, W>>] \in Searches(p)
          /\ visit[<<t, V, W>>] = VisitBody(p, visit, t, V, W)
    /\ NoCycle(p) = SearchAll(visit, {}, Found(TRUE, {}), Members(p)).acyclic

(* The recursive function of validate. *)
LEMMA VisitFunction ==
    ASSUME NEW p, Shape(p), Closed(p)
    PROVE  \E visit : VisitOf(visit, p)
  <1> DEFINE M == Members(p)
             D == Visits(p)
             R == Searches(p)
             G == [f \in [D -> R] |-> [c \in D |-> VisitBody(p, f, c[1], c[2], c[3])]]
             Is(f) == f = [c \in D |-> VisitBody(p, f, c[1], c[2], c[3])]
             visit == CHOOSE f : Is(f)
  <1>1. /\ Ranked(OffStack(p), D)
        /\ \A t, d \in M : \A V, W, X \in SUBSET M :
              t \notin V => OffStack(p)[<<d, V \cup {t}, X>>] < OffStack(p)[<<t, V, W>>]
    BY OffStackFacts
  <1>2. ASSUME NEW c \in D, c[1] \notin c[2], NEW d \in p.deps[c[1]], NEW X \in SUBSET M
        PROVE  <<d, c[2] \cup {c[1]}, X>> \in D /\ OffStack(p)[<<d, c[2] \cup {c[1]}, X>>] < OffStack(p)[c]
    <2>1. c[1] \in M /\ c[2] \in SUBSET M /\ c[3] \in SUBSET M /\ c = <<c[1], c[2], c[3]>>
      BY VisitFacts
    <2> DEFINE t == c[1]
               V == c[2]
               W == c[3]
               more == V \cup {t}
    <2>2. t \in M /\ V \in SUBSET M /\ W \in SUBSET M /\ t \notin V /\ c = <<t, V, W>>
          /\ d \in M /\ more \in SUBSET M
      BY <1>2, <2>1 DEF Closed
    <2> HIDE DEF t, V, W, D, M
    <2>3. OffStack(p)[<<d, more, X>>] < OffStack(p)[<<t, V, W>>]
      BY <1>1, <2>2
    <2> HIDE DEF more
    <2>4. <<d, more, X>> \in D
      BY <2>2, VisitFacts DEF D, M
    <2> QED
      BY <2>2, <2>3, <2>4 DEF more, t, V
  <1>3. ASSUME NEW f, NEW c \in D,
               \A y \in D : OffStack(p)[y] < OffStack(p)[c] => f[y] \in R
        PROVE  VisitBody(p, f, c[1], c[2], c[3]) \in R
    <2>1. c[1] \in M /\ c[2] \in SUBSET M /\ c[3] \in SUBSET M
      BY VisitFacts
    <2>2. ASSUME c[1] \notin c[2] PROVE Answers(p, f, c[2] \cup {c[1]}, p.deps[c[1]])
      <3> SUFFICES ASSUME NEW d \in p.deps[c[1]], NEW X \in SUBSET M
                   PROVE  f[<<d, c[2] \cup {c[1]}, X>>] \in R
        BY DEF Answers
      <3>1. <<d, c[2] \cup {c[1]}, X>> \in D /\ OffStack(p)[<<d, c[2] \cup {c[1]}, X>>] < OffStack(p)[c]
        BY <1>2, <2>2
      <3> HIDE DEF D, R
      <3> QED
        BY <1>3, <3>1
    <2> HIDE DEF D
    <2> QED
      BY <2>1, <2>2, VisitType
  <1>4. G \in [[D -> R] -> [D -> R]]
    <2>1. ASSUME NEW f \in [D -> R], NEW c \in D
          PROVE  VisitBody(p, f, c[1], c[2], c[3]) \in R
      <3> HIDE DEF D, R
      <3> QED
        BY <1>3
    <2> HIDE DEF D, R
    <2> QED
      BY <2>1
  <1>5. Descends(G, D, R, OffStack(p))
    <2> SUFFICES ASSUME NEW h \in [D -> R], NEW k \in [D -> R], NEW x \in D,
                        \A y \in D : OffStack(p)[y] < OffStack(p)[x] => h[y] = k[y]
                 PROVE  VisitBody(p, h, x[1], x[2], x[3]) = VisitBody(p, k, x[1], x[2], x[3])
      <3> HIDE DEF D, R
      <3> QED
        BY DEF Descends
    <2>1. x[1] \in M /\ x[2] \in SUBSET M /\ x[3] \in SUBSET M
      BY VisitFacts
    <2>2. CASE x[1] \in x[2]
      BY <2>2 DEF VisitBody
    <2>3. CASE x[1] \notin x[2]
      <3> DEFINE V == x[2] \cup {x[1]}
                 S == p.deps[x[1]]
                 base == Found(TRUE, x[3])
      <3>1. \A d \in S : \A X \in SUBSET M : <<d, V, X>> \in D /\ OffStack(p)[<<d, V, X>>] < OffStack(p)[x]
        BY <1>2, <2>3
      <3>2. IsFiniteSet(S) /\ base \in Searches(p)
        <4>1. S \subseteq M
          BY <2>1 DEF Closed
        <4>2. IsFiniteSet(S)
          BY <4>1, FS_Subset DEF Shape
        <4> HIDE DEF S
        <4>3. base \in Searches(p)
          BY <2>1, SearchFacts
        <4> QED
          BY <4>2, <4>3
      <3> HIDE DEF V, S, base, D
      <3>3. Answers(p, h, V, S) /\ Answers(p, k, V, S)
        BY <3>1 DEF Answers
      <3>4. \A d \in S : \A X \in SUBSET M : h[<<d, V, X>>] = k[<<d, V, X>>]
        BY <3>1
      <3>5. SearchAll(h, V, base, S) = SearchAll(k, V, base, S)
        BY <3>2, <3>3, <3>4, FoldSame
      <3> QED
        BY <2>3, <3>5 DEF VisitBody, V, S, base
    <2> QED
      BY <2>2, <2>3
  <1>6. Functional(G, D, R)
    <2>1. Found(TRUE, {}) \in R
      BY SearchFacts
    <2> HIDE DEF D, R, G
    <2> QED
      BY <1>4, <2>1 DEF Functional
  <1>7. PICK f : FixedPoint(f, G, D, R)
    <2> HIDE DEF D, R, G
    <2> QED
      BY <1>1, <1>5, <1>6, Recursion
  <1>8. f \in [D -> R] /\ f = G[f]
    BY <1>7 DEF FixedPoint
  <1>9. Is(f)
    <2> HIDE DEF D, R
    <2> QED
      BY <1>8
  <1>10. Is(visit)
    BY <1>9
  <1>11. NoCycle(p) = SearchAll(visit, {}, Found(TRUE, {}), M).acyclic
    BY DEF NoCycle, VisitBody, SearchAll, Continue, Visits, FoldSet, MapThenFoldSet, Found
  <1> HIDE DEF visit
  <1>12. \A c \in D : visit[c] \in R
    <2> DEFINE T == {c \in D : visit[c] \in R}
    <2>1. ASSUME NEW x \in D, \A y \in D : OffStack(p)[y] < OffStack(p)[x] => y \in T
          PROVE  x \in T
      <3>1. VisitBody(p, visit, x[1], x[2], x[3]) \in R
        BY <1>3, <2>1
      <3> HIDE DEF D, R
      <3> QED
        BY <1>10, <3>1
    <2>2. D \subseteq T
      <3> HIDE DEF D, T
      <3>1. Inductive(T, D, OffStack(p))
        BY <2>1 DEF Inductive
      <3> QED
        BY <1>1, <3>1, RankInduction
    <2> HIDE DEF D, R
    <2> QED
      BY <2>2
  <1>13. ASSUME NEW t \in M, NEW V \in SUBSET M, NEW W \in SUBSET M
         PROVE  /\ visit[<<t, V, W>>] \in Searches(p)
                /\ visit[<<t, V, W>>] = VisitBody(p, visit, t, V, W)
    <2> DEFINE c == <<t, V, W>>
    <2>1. c \in D /\ c[1] = t /\ c[2] = V /\ c[3] = W
      BY VisitFacts
    <2> HIDE DEF c, D
    <2>2. visit[c] = VisitBody(p, visit, c[1], c[2], c[3])
      BY <1>10, <2>1
    <2> QED
      BY <1>12, <2>1, <2>2 DEF c
  <1> QED
    BY <1>11, <1>13 DEF VisitOf

-----------------------------------------------------------------------------
(* validate finds the cycles *)

(* The tasks of W can be ranked, and W is closed under dependencies. *)
Ordered(p, W) ==
    /\ \A t \in W : p.deps[t] \subseteq W
    /\ \E r \in [W -> 1 .. Cardinality(W)] : \A t \in W : \A d \in p.deps[t] : r[d] < r[t]

LEMMA DoneMore ==
    ASSUME NEW p, Shape(p), NEW W \in SUBSET Members(p), Ordered(p, W), NEW t \in Members(p),
           p.deps[t] \subseteq W
    PROVE  Ordered(p, W \cup {t})
  <1>1. PICK r \in [W -> 1 .. Cardinality(W)] : \A u \in W : \A d \in p.deps[u] : r[d] < r[u]
    BY DEF Ordered
  <1>2. IsFiniteSet(W) /\ Cardinality(W) \in Nat
    BY FS_Subset, FS_CardinalityType DEF Shape
  <1>3. CASE t \in W
    <2>1. W \cup {t} = W
      BY <1>3
    <2> QED
      BY <2>1
  <1>4. CASE t \notin W
    <2> DEFINE more == W \cup {t}
               m == [u \in more |-> IF u = t THEN Cardinality(W) + 1 ELSE r[u]]
    <2>1. Cardinality(more) = Cardinality(W) + 1
      BY <1>2, <1>4, FS_AddElement
    <2>2. \A u \in W : r[u] \in Nat /\ 1 <= r[u] /\ r[u] <= Cardinality(W)
      BY <1>1, <1>2
    <2>3. \A u \in more : m[u] \in 1 .. Cardinality(more)
      BY <1>2, <2>1, <2>2
    <2>4. \A u \in more : p.deps[u] \subseteq W
      BY DEF Ordered
    <2>5. \A u \in more : \A d \in p.deps[u] : m[d] < m[u]
      <3> TAKE u \in more
      <3> TAKE d \in p.deps[u]
      <3>1. d \in W /\ d # t /\ m[d] = r[d] /\ r[d] \in Nat /\ r[d] <= Cardinality(W)
        BY <1>4, <2>2, <2>4
      <3>2. CASE u = t
        <4>1. m[u] = Cardinality(W) + 1
          BY <3>2
        <4> QED
          BY <1>2, <3>1, <4>1
      <3>3. CASE u # t
        <4>1. u \in W /\ m[u] = r[u]
          BY <3>3
        <4>2. r[d] < r[u]
          BY <1>1, <4>1
        <4> QED
          BY <3>1, <4>1, <4>2
      <3> QED
        BY <3>2, <3>3
    <2>6. m \in [more -> 1 .. Cardinality(more)]
      BY <2>3
    <2>7. \A u \in more : p.deps[u] \subseteq more
      BY <2>4
    <2> HIDE DEF m
    <2>8. Ordered(p, more)
      <3> HIDE DEF more
      <3> QED
        BY <2>5, <2>6, <2>7 DEF Ordered
    <2> QED
      BY <2>8
  <1> QED
    BY <1>3, <1>4

(* A search that found no cycle has finished what it was asked about. *)
Sound(p, S, W, search) ==
    search.acyclic /\ Ordered(p, W) =>
        Ordered(p, search.visited) /\ W \subseteq search.visited /\ S \subseteq search.visited

LEMMA FoldSound ==
    ASSUME NEW p, NEW S, IsFiniteSet(S), NEW f, NEW V, Answers(p, f, V, S),
           \A d \in S : \A X \in SUBSET Members(p) : Sound(p, {d}, X, f[<<d, V, X>>]),
           NEW W \in SUBSET Members(p)
    PROVE  Sound(p, S, W, SearchAll(f, V, Found(TRUE, W), S))
  <1> DEFINE base == Found(TRUE, W)
             T == {pair \in (SUBSET S) \X Searches(p) : Sound(p, pair[1], W, pair[2])}
  <1>1. base \in Searches(p) /\ base.visited = W
    BY SearchFacts
  <1>2. \A s \in SUBSET S : \A search \in Searches(p) :
           <<s, search>> \in T <=> Sound(p, s, W, search)
    <2> DEFINE A == SUBSET S
               B == Searches(p)
    <2> HIDE DEF A, B
    <2>1. \A s \in A : \A search \in B :
             <<s, search>> \in A \X B /\ <<s, search>>[1] = s /\ <<s, search>>[2] = search
      BY PairFacts
    <2>2. T = {pair \in A \X B : Sound(p, pair[1], W, pair[2])}
      BY DEF A, B
    <2> HIDE DEF T
    <2>3. \A s \in A : \A search \in B : <<s, search>> \in T <=> Sound(p, s, W, search)
      BY <2>1, <2>2
    <2> QED
      BY <2>3 DEF A, B
  <1> HIDE DEF T
  <1>3. <<{}, base>> \in T
    <2>1. Sound(p, {}, W, base)
      BY <1>1 DEF Sound
    <2> HIDE DEF base
    <2> QED
      BY <1>1, <1>2, <2>1
  <1>4. Keeps(T, p, f, V, S)
    <2> SUFFICES ASSUME NEW s \in SUBSET S, NEW x \in s, NEW search \in Searches(p),
                        <<s \ {x}, search>> \in T
                 PROVE  <<s, Continue(f, V, x, search)>> \in T
      BY DEF Keeps
    <2> DEFINE less == s \ {x}
               next == Continue(f, V, x, search)
    <2>1. less \in SUBSET S /\ x \in S
      OBVIOUS
    <2>2. next \in Searches(p)
      BY <2>1, ContinueType
    <2>3. Sound(p, less, W, search)
      BY <1>2, <2>1
    <2>4. search.visited \in SUBSET Members(p)
      BY SearchFacts
    <2>5. Sound(p, {x}, search.visited, f[<<x, V, search.visited>>])
      BY <2>1, <2>4
    <2>6. Sound(p, s, W, next)
      <3>1. CASE search.acyclic
        <4>1. next = f[<<x, V, search.visited>>]
          BY <3>1 DEF Continue
        <4> HIDE DEF next
        <4>2. Sound(p, {x}, search.visited, next)
          BY <2>5, <4>1, Zenon
        <4>3. s = less \cup {x}
          OBVIOUS
        <4> HIDE DEF less
        <4> QED
          BY <2>3, <3>1, <4>2, <4>3 DEF Sound
      <3>2. CASE ~search.acyclic
        BY <3>2 DEF Sound, Continue
      <3> QED
        BY <3>1, <3>2
    <2> HIDE DEF next
    <2>7. <<s, next>> \in T
      BY <1>2, <2>2, <2>6
    <2> QED
      BY <2>7 DEF next
  <1> HIDE DEF base
  <1>5. /\ <<S, SearchAll(f, V, base, S)>> \in T
        /\ SearchAll(f, V, base, S) \in Searches(p)
    BY <1>1, <1>3, <1>4, FoldRule
  <1>6. Sound(p, S, W, SearchAll(f, V, base, S))
    BY <1>2, <1>5
  <1> QED
    BY <1>6 DEF base

(* From a task that comes before all on the stack no cycle is found. *)
LEMMA FoldComplete ==
    ASSUME NEW p, NEW S, IsFiniteSet(S), NEW f, NEW V, Answers(p, f, V, S),
           \A d \in S : \A X \in SUBSET Members(p) : f[<<d, V, X>>].acyclic,
           NEW W \in SUBSET Members(p)
    PROVE  SearchAll(f, V, Found(TRUE, W), S).acyclic
  <1> DEFINE base == Found(TRUE, W)
             T == {pair \in (SUBSET S) \X Searches(p) : pair[2].acyclic}
  <1>1. base \in Searches(p) /\ base.acyclic
    BY SearchFacts, FoundAcyclic
  <1>2. \A s \in SUBSET S : \A search \in Searches(p) : <<s, search>> \in T <=> search.acyclic
    <2> DEFINE A == SUBSET S
               B == Searches(p)
    <2> HIDE DEF A, B
    <2>1. \A s \in A : \A search \in B :
             <<s, search>> \in A \X B /\ <<s, search>>[1] = s /\ <<s, search>>[2] = search
      BY PairFacts
    <2>2. T = {pair \in A \X B : pair[2].acyclic}
      BY DEF A, B
    <2> HIDE DEF T
    <2>3. \A s \in A : \A search \in B : <<s, search>> \in T <=> search.acyclic
      BY <2>1, <2>2
    <2> QED
      BY <2>3 DEF A, B
  <1> HIDE DEF T, base
  <1>3. <<{}, base>> \in T
    BY <1>1, <1>2
  <1>4. Keeps(T, p, f, V, S)
    <2> SUFFICES ASSUME NEW s \in SUBSET S, NEW x \in s, NEW search \in Searches(p),
                        <<s \ {x}, search>> \in T
                 PROVE  <<s, Continue(f, V, x, search)>> \in T
      BY DEF Keeps
    <2>1. x \in S /\ s \ {x} \in SUBSET S
      OBVIOUS
    <2>2. search.acyclic /\ search.visited \in SUBSET Members(p)
      BY <1>2, <2>1, SearchFacts
    <2>3. Continue(f, V, x, search).acyclic
      BY <2>1, <2>2 DEF Continue
    <2>4. Continue(f, V, x, search) \in Searches(p)
      BY <2>1, ContinueType
    <2> QED
      BY <1>2, <2>3, <2>4
  <1>5. /\ <<S, SearchAll(f, V, base, S)>> \in T
        /\ SearchAll(f, V, base, S) \in Searches(p)
    BY <1>1, <1>3, <1>4, FoldRule
  <1>6. SearchAll(f, V, base, S).acyclic
    BY <1>2, <1>5
  <1> QED
    BY <1>6 DEF base

LEMMA VisitAnswers ==
    ASSUME NEW p, Closed(p), NEW visit, VisitOf(visit, p), NEW S \in SUBSET Members(p),
           NEW V \in SUBSET Members(p)
    PROVE  Answers(p, visit, V, S)
  BY DEF VisitOf, Answers

LEMMA VisitSound ==
    ASSUME NEW p, Shape(p), Closed(p), NEW visit, VisitOf(visit, p)
    PROVE  \A c \in Visits(p) : Sound(p, {c[1]}, c[3], visit[c])
  <1> DEFINE M == Members(p)
             D == Visits(p)
             T == {c \in D : Sound(p, {c[1]}, c[3], visit[c])}
  <1>1. /\ Ranked(OffStack(p), D)
        /\ \A t, d \in M : \A V, W, X \in SUBSET M :
              t \notin V => OffStack(p)[<<d, V \cup {t}, X>>] < OffStack(p)[<<t, V, W>>]
    BY OffStackFacts
  <1>2. ASSUME NEW c \in D, \A y \in D : OffStack(p)[y] < OffStack(p)[c] => y \in T
        PROVE  Sound(p, {c[1]}, c[3], visit[c])
    <2> DEFINE t == c[1]
               V == c[2]
               W == c[3]
               S == p.deps[t]
               more == V \cup {t}
               below == SearchAll(visit, more, Found(TRUE, W), S)
    <2>1. t \in M /\ V \in SUBSET M /\ W \in SUBSET M /\ c = <<t, V, W>>
      BY VisitFacts
    <2>2. S \in SUBSET M /\ more \in SUBSET M /\ IsFiniteSet(S)
      BY <2>1, FS_Subset DEF Shape, Closed
    <2> HIDE DEF t, V, W, D, T
    <2>3. visit[c] = VisitBody(p, visit, t, V, W)
      BY <2>1 DEF VisitOf
    <2>4. CASE t \in V
      <3>1. visit[c] = Found(FALSE, W)
        BY <2>3, <2>4 DEF VisitBody
      <3> QED
        BY <3>1, FoundAcyclic DEF Sound, t, W
    <2>5. CASE t \notin V /\ t \in W
      <3>1. visit[c] = Found(TRUE, W)
        BY <2>3, <2>5 DEF VisitBody
      <3>2. Found(TRUE, W).visited = W
        BY <2>1, SearchFacts
      <3>3. Sound(p, {t}, W, visit[c])
        BY <2>5, <3>1, <3>2 DEF Sound
      <3> QED
        BY <3>3 DEF t, W
    <2>6. CASE t \notin V /\ t \notin W
      <3>1. visit[c] = [below EXCEPT !.visited = @ \cup {t}]
        BY <2>3, <2>6 DEF VisitBody
      <3> HIDE DEF S, below, more
      <3>2. Answers(p, visit, more, S)
        BY <2>2, VisitAnswers
      <3>3. ASSUME NEW d \in S, NEW X \in SUBSET M PROVE Sound(p, {d}, X, visit[<<d, more, X>>])
        <4> DEFINE y == <<d, more, X>>
        <4>1. d \in M
          BY <2>2
        <4>2. OffStack(p)[<<d, V \cup {t}, X>>] < OffStack(p)[<<t, V, W>>]
          BY <1>1, <2>1, <2>6, <4>1
        <4>3. y \in D /\ y[1] = d /\ y[3] = X
          BY <2>2, <4>1, VisitFacts DEF D
        <4>4. OffStack(p)[y] < OffStack(p)[c]
          BY <2>1, <4>2 DEF more
        <4> HIDE DEF y
        <4>5. y \in T
          BY <1>2, <4>3, <4>4
        <4>6. Sound(p, {y[1]}, y[3], visit[y])
          BY <4>5 DEF T
        <4> QED
          BY <4>3, <4>6 DEF y
      <3>4. Sound(p, S, W, below)
        <4>1. Sound(p, S, W, SearchAll(visit, more, Found(TRUE, W), S))
          BY <2>1, <2>2, <3>2, <3>3, FoldSound
        <4> QED
          BY <4>1 DEF below
      <3>5. below \in Searches(p)
        <4>1. Found(TRUE, W) \in Searches(p)
          BY <2>1, SearchFacts
        <4> QED
          BY <2>2, <3>2, <4>1, FoldType DEF below
      <3>6. /\ visit[c].acyclic <=> below.acyclic
            /\ visit[c].visited = below.visited \cup {t} /\ below.visited \in SUBSET M
        <4>1. [below EXCEPT !.visited = @ \cup {t}].acyclic <=> below.acyclic
          BY <3>5, VisitedKeeps
        <4>2. /\ [below EXCEPT !.visited = @ \cup {t}].visited = below.visited \cup {t}
              /\ below.visited \in SUBSET M
          BY <2>1, <3>5, SearchFacts
        <4> QED
          BY <3>1, <4>1, <4>2, Zenon
      <3>7. ASSUME visit[c].acyclic, Ordered(p, W)
            PROVE  Ordered(p, visit[c].visited) /\ W \subseteq visit[c].visited /\ {t} \subseteq visit[c].visited
        <4>1. Ordered(p, below.visited) /\ W \subseteq below.visited /\ S \subseteq below.visited
          BY <3>4, <3>6, <3>7 DEF Sound
        <4> DEFINE now == below.visited
        <4>2. now \in SUBSET M /\ Ordered(p, now) /\ p.deps[t] \subseteq now /\ visit[c].visited = now \cup {t}
          BY <3>6, <4>1 DEF S
        <4> HIDE DEF now
        <4>3. Ordered(p, now \cup {t})
          BY <2>1, <4>2, DoneMore
        <4>4. W \subseteq now
          BY <4>1 DEF now
        <4> QED
          BY <4>2, <4>3, <4>4
      <3>8. Sound(p, {t}, W, visit[c])
        BY <3>7 DEF Sound
      <3> QED
        BY <3>8 DEF t, W
    <2> QED
      BY <2>4, <2>5, <2>6
  <1>3. D \subseteq T
    <2>1. Inductive(T, D, OffStack(p))
      BY <1>2 DEF Inductive
    <2> HIDE DEF D, T
    <2> QED
      BY <1>1, <2>1, RankInduction
  <1> QED
    BY <1>3

(* The task comes before those on the stack. *)
Above(r, t, V) == \A v \in V : r[t] < r[v]

LEMMA VisitComplete ==
    ASSUME NEW p, Shape(p), Closed(p), NEW visit, VisitOf(visit, p),
           NEW r \in [Members(p) -> Nat], IsRank(p, r)
    PROVE  \A c \in Visits(p) : Above(r, c[1], c[2]) => visit[c].acyclic
  <1> DEFINE M == Members(p)
             D == Visits(p)
             T == {c \in D : Above(r, c[1], c[2]) => visit[c].acyclic}
  <1>1. /\ Ranked(OffStack(p), D)
        /\ \A t, d \in M : \A V, W, X \in SUBSET M :
              t \notin V => OffStack(p)[<<d, V \cup {t}, X>>] < OffStack(p)[<<t, V, W>>]
    BY OffStackFacts
  <1>2. ASSUME NEW c \in D, \A y \in D : OffStack(p)[y] < OffStack(p)[c] => y \in T,
               Above(r, c[1], c[2])
        PROVE  visit[c].acyclic
    <2> DEFINE t == c[1]
               V == c[2]
               W == c[3]
               S == p.deps[t]
               more == V \cup {t}
               below == SearchAll(visit, more, Found(TRUE, W), S)
    <2>1. t \in M /\ V \in SUBSET M /\ W \in SUBSET M /\ c = <<t, V, W>> /\ Above(r, t, V)
      BY <1>2, VisitFacts
    <2>2. S \in SUBSET M /\ more \in SUBSET M /\ IsFiniteSet(S)
      BY <2>1, FS_Subset DEF Shape, Closed
    <2> HIDE DEF t, V, W, D, T
    <2>3. visit[c] = VisitBody(p, visit, t, V, W)
      BY <2>1 DEF VisitOf
    <2>4. t \notin V
      <3>1. r[t] \in Nat
        BY <2>1
      <3>2. t \in V => r[t] < r[t]
        BY <2>1 DEF Above
      <3> QED
        BY <3>1, <3>2
    <2>5. CASE t \in W
      <3>1. visit[c] = Found(TRUE, W)
        BY <2>3, <2>4, <2>5 DEF VisitBody
      <3> QED
        BY <3>1, FoundAcyclic
    <2>6. CASE t \notin W
      <3>1. visit[c] = [below EXCEPT !.visited = @ \cup {t}]
        BY <2>3, <2>4, <2>6 DEF VisitBody
      <3>2. ASSUME NEW d \in S PROVE Above(r, d, more)
        <4>1. d \in M /\ r[d] < r[t]
          BY <2>1, <2>2, <3>2 DEF IsRank
        <4>2. r[d] \in Nat /\ r[t] \in Nat /\ \A v \in V : r[v] \in Nat /\ r[t] < r[v]
          BY <2>1, <4>1 DEF Above
        <4> QED
          BY <4>1, <4>2 DEF Above
      <3> HIDE DEF S, below, more
      <3>3. Answers(p, visit, more, S)
        BY <2>2, VisitAnswers
      <3>4. ASSUME NEW d \in S, NEW X \in SUBSET M PROVE visit[<<d, more, X>>].acyclic
        <4> DEFINE y == <<d, more, X>>
        <4>1. d \in M
          BY <2>2
        <4>2. OffStack(p)[<<d, V \cup {t}, X>>] < OffStack(p)[<<t, V, W>>]
          BY <1>1, <2>1, <2>4, <4>1
        <4>3. y \in D /\ y[1] = d /\ y[2] = more
          BY <2>2, <4>1, VisitFacts DEF D
        <4>4. OffStack(p)[y] < OffStack(p)[c]
          BY <2>1, <4>2 DEF more
        <4> HIDE DEF y
        <4>5. y \in T
          BY <1>2, <4>3, <4>4
        <4>6. Above(r, y[1], y[2]) => visit[y].acyclic
          BY <4>5 DEF T
        <4>7. visit[y].acyclic
          BY <3>2, <4>3, <4>6
        <4> QED
          BY <4>7 DEF y
      <3>5. below.acyclic
        <4>1. SearchAll(visit, more, Found(TRUE, W), S).acyclic
          BY <2>1, <2>2, <3>3, <3>4, FoldComplete
        <4> QED
          BY <4>1 DEF below
      <3>6. below \in Searches(p)
        <4>1. Found(TRUE, W) \in Searches(p)
          BY <2>1, SearchFacts
        <4> QED
          BY <2>2, <3>3, <4>1, FoldType DEF below
      <3> QED
        BY <3>1, <3>5, <3>6, VisitedKeeps
    <2> QED
      BY <2>5, <2>6
  <1>3. D \subseteq T
    <2>1. Inductive(T, D, OffStack(p))
      BY <1>2 DEF Inductive
    <2> HIDE DEF D, T
    <2> QED
      BY <1>1, <2>1, RankInduction
  <1> QED
    BY <1>3

(* The search of validate finds no cycle exactly in a DAG. *)
LEMMA SearchIsExact ==
    ASSUME NEW p, Shape(p), Closed(p), Members(p) # {}
    PROVE  NoCycle(p) <=> IsDag(p)
  <1> DEFINE M == Members(p)
  <1>1. PICK visit : VisitOf(visit, p)
    BY VisitFunction
  <1>2. /\ IsFiniteSet(M) /\ M \in SUBSET M /\ {} \in SUBSET M
        /\ Answers(p, visit, {}, M)
    BY <1>1, VisitAnswers DEF Shape
  <1> DEFINE all == SearchAll(visit, {}, Found(TRUE, {}), M)
  <1>3. NoCycle(p) = all.acyclic
    BY <1>1 DEF VisitOf
  <1>4. all \in Searches(p)
    BY <1>2, FoldType, SearchFacts
  <1>5. ASSUME NEW d \in M, NEW X \in SUBSET M
        PROVE  /\ Sound(p, {d}, X, visit[<<d, {}, X>>])
               /\ \A r \in [M -> Nat] : IsRank(p, r) => visit[<<d, {}, X>>].acyclic
    <2> DEFINE c == <<d, {}, X>>
    <2>1. c \in Visits(p) /\ c[1] = d /\ c[2] = {} /\ c[3] = X
      BY VisitFacts
    <2> HIDE DEF c
    <2>2. Sound(p, {c[1]}, c[3], visit[c])
      BY <1>1, <2>1, VisitSound
    <2>3. ASSUME NEW r \in [M -> Nat], IsRank(p, r) PROVE visit[c].acyclic
      <3>1. Above(r, c[1], c[2])
        BY <2>1 DEF Above
      <3> QED
        BY <1>1, <2>1, <2>3, <3>1, VisitComplete
    <2> QED
      BY <2>1, <2>2, <2>3 DEF c
  <1>6. ASSUME all.acyclic PROVE IsDag(p)
    <2>1. Sound(p, M, {}, all)
      BY <1>2, <1>5, FoldSound
    <2>2. Ordered(p, {})
      <3>1. [t \in {} |-> 1] \in [{} -> 1 .. Cardinality({})]
        OBVIOUS
      <3> QED
        BY <3>1 DEF Ordered
    <2>3. Ordered(p, all.visited) /\ M \subseteq all.visited
      BY <1>6, <2>1, <2>2 DEF Sound
    <2>4. all.visited = M
      BY <1>4, <2>3, SearchFacts
    <2>5. Ordered(p, M)
      BY <2>3, <2>4
    <2> QED
      BY <2>5 DEF Ordered, IsDag, IsRank, Closed
  <1>7. ASSUME IsDag(p) PROVE all.acyclic
    <2>1. PICK r \in [M -> 1 .. Cardinality(M)] : IsRank(p, r)
      BY <1>7 DEF IsDag
    <2>2. r \in [M -> Nat]
      OBVIOUS
    <2>3. \A d \in M : \A X \in SUBSET M : visit[<<d, {}, X>>].acyclic
      BY <1>5, <2>1, <2>2
    <2> QED
      BY <1>2, <2>3, FoldComplete
  <1> QED
    BY <1>3, <1>6, <1>7

(* What the validator accepts are the DAGs without self-dependencies. *)
LEMMA ValidatesIsExact ==
    ASSUME NEW p, Shape(p)
    PROVE  Validates(p) <=> IsDag(p) /\ \A t \in Members(p) : t \notin p.deps[t]
  <1>1. ASSUME Validates(p) PROVE IsDag(p) /\ \A t \in Members(p) : t \notin p.deps[t]
    <2>1. Members(p) # {} /\ NoCycle(p) /\ \A t \in Members(p) : p.deps[t] \subseteq Members(p) \ {t}
      BY <1>1 DEF Validates
    <2>2. Closed(p)
      BY <2>1 DEF Closed
    <2>3. IsDag(p)
      BY <2>1, <2>2, SearchIsExact
    <2> QED
      BY <2>1, <2>3
  <1>2. ASSUME IsDag(p), \A t \in Members(p) : t \notin p.deps[t] PROVE Validates(p)
    <2>1. Members(p) # {} /\ Closed(p)
      BY <1>2 DEF IsDag, Closed
    <2>2. NoCycle(p)
      BY <1>2, <2>1, SearchIsExact
    <2>3. \A t \in Members(p) : p.deps[t] \subseteq Members(p) \ {t}
      BY <1>2 DEF IsDag
    <2> QED
      BY <2>1, <2>2, <2>3 DEF Validates
  <1> QED
    BY <1>1, <1>2

-----------------------------------------------------------------------------
(* The invariant *)

(* The place of a thread and the status of its task. *)
Placed(t) ==
    /\ at[t] \in {"working", "answered", "threw", "reviewing", "judged"} => status[t] = "running"
    /\ at[t] = "top" => status[t] \in {"pending", "running"} /\ attempts[t] <= MaxReviewRetries
    /\ at[t] \in {"finishing", "returned"} => status[t] \in {"completed", "failed"}
    /\ at[t] = "raised" => status[t] # "skipped"
    /\ at[t] = "idle" /\ status[t] = "running" => phase = "raised"
    /\ status[t] = "pending" => attempts[t] = 0
PlaceInv == \A t \in Ids : Placed(t)

(* Threads exist in waves only; what is executed was validated. *)
PhaseInv ==
    /\ plan = NoPlan \/ plan \in ValidPlans
    /\ phase # "wave" => Wave = {}
    /\ phase = "revise" => revisions < MaxPlanRevisions

(* What a started or waiting task depends on is completed and settled, and *)
(* its result at hand.                                                     *)
LayerInv ==
    /\ \A t \in layer : status[t] = "pending" /\ at[t] = "idle"
    /\ \A t \in layer \cup Wave : \A d \in plan.deps[t] :
           status[d] = "completed" /\ d \in results /\ d \notin Wave
    /\ mode = "plan" /\ phase \notin Ended => Completed(plan, status) \subseteq results

StartedInv ==
    \A t \in Members(plan) : attempts[t] > 0 =>
        \A d \in plan.deps[t] : status[d] = "completed" /\ d \in handed[t] /\ d \notin Wave

(* An approval about to be acted on is grounded. *)
Grounded(t) == at[t] = "judged" /\ judgement[t] = "approved" => changed[t] \subseteq inspected[t]
JudgedInv == \A t \in Ids : Grounded(t)

Inv == /\ TypeOK /\ PhaseInv /\ PlaceInv /\ LayerInv /\ StartedInv /\ JudgedInv
       /\ MutatorsRunAlone /\ SkippedBehindFailure /\ CompletedByReview /\ ResultsMatchTheirTask

-----------------------------------------------------------------------------
(* Plans *)

LEMMA NoPlanIsEmpty ==
    Members(NoPlan) = {} /\ NoPlan.place \in [Members(NoPlan) -> Nat]
  <1>1. NoPlan.place = <<>>
    BY DEF NoPlan
  <1>2. DOMAIN <<>> = {} /\ <<>> \in [{} -> Nat]
    BY SMT
  <1> QED
    BY <1>1, <1>2 DEF Members

LEMMA ProposalFacts ==
    ASSUME NEW p, p = NoPlan \/ p \in Proposals
    PROVE  /\ Members(p) \subseteq Ids
           /\ IsFiniteSet(Members(p))
           /\ p.place \in [Members(p) -> Nat]
           /\ \A t \in Members(p) : p.deps[t] \subseteq Ids
           /\ \A t \in Members(p) : Content(p, t) \in Contents
  <1>1. CASE p = NoPlan
    BY <1>1, NoPlanIsEmpty, FS_EmptySet
  <1>2. CASE p \in Proposals
    <2>1. IsProposal(p)
      BY <1>2, PlanParameters
    <2>2. Members(p) \subseteq Ids /\ p.place \in [Members(p) -> Nat]
      BY <2>1 DEF IsProposal
    <2>3. \A t \in Members(p) : p.deps[t] \subseteq Ids
      BY <2>1 DEF IsProposal
    <2>4. IsFiniteSet(Members(p))
      BY <2>2, FS_Subset, PlanParameters
    <2>5. \A t \in Members(p) : Content(p, t) \in Contents
      BY <1>2 DEF Contents
    <2> QED
      BY <2>2, <2>3, <2>4, <2>5
  <1> QED
    BY <1>1, <1>2

LEMMA ProposalShape ==
    ASSUME NEW p, p = NoPlan \/ p \in Proposals
    PROVE  Shape(p)
  <1>1. \A t, u \in Members(p) : p.place[t] = p.place[u] => t = u
    BY NoPlanIsEmpty, PlanParameters DEF IsProposal
  <1> QED
    BY <1>1, ProposalFacts DEF Shape

(* What is executed has no cycle. *)
LEMMA ExecutedIsAcyclic ==
    ASSUME NEW p, p = NoPlan \/ p \in ValidPlans
    PROVE  Acyclic(p)
  <1>1. CASE p = NoPlan
    <2>1. Members(p) = {}
      BY <1>1, NoPlanIsEmpty
    <2> DEFINE r == [t \in Members(p) |-> 1]
    <2>2. r \in [Members(p) -> 1 .. Cardinality(Members(p))] /\ IsRank(p, r) /\ Closed(p)
      BY <2>1 DEF IsRank, Closed
    <2> QED
      BY <2>2 DEF Acyclic
  <1>2. CASE p \in ValidPlans
    <2>1. p \in Proposals /\ Validates(p)
      BY <1>2 DEF ValidPlans
    <2>2. IsDag(p)
      BY <2>1, ProposalShape, ValidatesIsExact
    <2> QED
      BY <2>2 DEF IsDag, Acyclic, Closed
  <1> QED
    BY <1>1, <1>2

(* A wave is part of the tasks it is taken from, it is not empty, its tasks *)
(* may share it, and there are no more of them than workers.               *)
LEMMA WaveFacts ==
    ASSUME NEW p, p.place \in [Members(p) -> Nat], IsFiniteSet(Members(p)),
           NEW S \in SUBSET Members(p), S # {}
    PROVE  LET W == NextWave(p, S, MaxWorkers)
           IN  /\ W \subseteq S /\ W # {}
               /\ IsFiniteSet(W) /\ Cardinality(W) <= MaxWorkers
               /\ \A t, u \in W : t # u => p.type[t] \in ParallelTypes
  <1> DEFINE Together == {t \in S : /\ \A u \in UpTo(p, S, t) : MayShare(p, u, MaxWorkers)
                                    /\ Cardinality(UpTo(p, S, t)) <= MaxWorkers}
  <1>1. NextWave(p, S, MaxWorkers) = IF Together = {} THEN {First(p, S)} ELSE Together
    BY DEF NextWave
  <1>2. IsFiniteSet(S)
    BY FS_Subset
  <1>3. CASE Together = {}
    <2>1. First(p, S) \in S
      BY FirstOfTasks
    <2>2. IsFiniteSet({First(p, S)}) /\ Cardinality({First(p, S)}) = 1
      BY FS_Singleton
    <2> HIDE DEF Together
    <2> QED
      BY <1>1, <1>3, <2>1, <2>2, PlanParameters
  <1>4. CASE Together # {}
    <2> DEFINE Free(t) == MaxWorkers - Cardinality(UpTo(p, S, t))
               N == {Free(t) : t \in Together}
    <2>1. \A t \in S : IsFiniteSet(UpTo(p, S, t)) /\ Cardinality(UpTo(p, S, t)) \in Nat
      BY <1>2, FS_Subset, FS_CardinalityType DEF UpTo
    <2>2. \A t \in Together : Free(t) \in Nat
      BY <2>1, PlanParameters
    <2>3. N \in SUBSET Nat /\ N # {}
      BY <2>2, <1>4
    <2>4. PICK n \in N : \A m \in N : n <= m
      <3> HIDE DEF N
      <3> QED
        BY <2>3, LeastNatural
    <2>5. PICK last \in Together : Free(last) = n
      BY <2>4
    <2>6. \A u \in Together : p.place[u] <= p.place[last]
      <3> SUFFICES ASSUME NEW u \in Together, ~ (p.place[u] <= p.place[last]) PROVE FALSE
        OBVIOUS
      <3>1. UpTo(p, S, last) \subseteq UpTo(p, S, u)
        BY DEF UpTo
      <3>2. u \in UpTo(p, S, u) /\ u \notin UpTo(p, S, last)
        BY DEF UpTo
      <3>3. Cardinality(UpTo(p, S, last)) < Cardinality(UpTo(p, S, u))
        <4> DEFINE A == UpTo(p, S, last)
                   B == UpTo(p, S, u)
        <4>1. IsFiniteSet(A) /\ IsFiniteSet(B) /\ A \subseteq B /\ A # B
          BY <2>1, <3>1, <3>2
        <4> HIDE DEF A, B
        <4>2. Cardinality(A) < Cardinality(B)
          BY <4>1, FS_Subset, FS_CardinalityType
        <4> QED
          BY <4>2 DEF A, B
      <3>4. Free(last) <= Free(u)
        BY <2>4, <2>5
      <3> QED
        BY <2>1, <3>3, <3>4, PlanParameters
    <2>7. Together \subseteq UpTo(p, S, last)
      BY <2>6 DEF UpTo
    <2>8. IsFiniteSet(Together) /\ Cardinality(Together) <= Cardinality(UpTo(p, S, last))
      <3> HIDE DEF Together
      <3> QED
        BY <1>2, <2>1, <2>7, FS_Subset DEF UpTo
    <2>9. Cardinality(Together) <= MaxWorkers
      <3>1. Cardinality(UpTo(p, S, last)) <= MaxWorkers
        OBVIOUS
      <3>2. Cardinality(Together) \in Nat /\ Cardinality(UpTo(p, S, last)) \in Nat
        BY <2>1, <2>8, FS_CardinalityType
      <3> HIDE DEF Together
      <3> QED
        BY <2>8, <3>1, <3>2, PlanParameters
    <2>10. \A t \in Together : p.type[t] \in ParallelTypes
      BY DEF UpTo, MayShare
    <2>11. NextWave(p, S, MaxWorkers) = Together
      BY <1>1, <1>4
    <2>12. Together \subseteq S
      OBVIOUS
    <2> HIDE DEF Together
    <2> QED
      BY <1>4, <2>8, <2>9, <2>10, <2>11, <2>12
  <1> QED
    BY <1>3, <1>4

LEMMA PlanFacts ==
    ASSUME Inv
    PROVE  /\ Members(plan) \subseteq Ids
           /\ IsFiniteSet(Members(plan))
           /\ plan.place \in [Members(plan) -> Nat]
           /\ \A t \in Members(plan) : plan.deps[t] \subseteq Ids
           /\ \A t \in Members(plan) : Content(plan, t) \in Contents
  <1>1. plan = NoPlan \/ plan \in Proposals
    BY DEF Inv, TypeOK
  <1> QED
    BY <1>1, ProposalFacts

-----------------------------------------------------------------------------
(* Steps of the main thread that leave the tasks alone *)

LEMMA QuietStep ==
    ASSUME Inv,
           phase \notin Ended \cup {"wave"}, phase' \in Phases \ {"wave"},
           invalid' \in 0 .. MaxPlanRepairs, revisions' \in 0 .. MaxPlanRevisions,
           phase' = "revise" => revisions' < MaxPlanRevisions,
           mode' = mode, plan' = plan, allowReplan' = allowReplan,
           layer' = layer, results' = results, doneAs' = doneAs,
           status' = status, attempts' = attempts, at' = at, handed' = handed,
           changed' = changed, unread' = unread, inspected' = inspected,
           repairs' = repairs, judgement' = judgement
    PROVE  Inv'
  <1>0. Wave' = Wave
    BY DEF Wave
  <1>1. TypeOK'
    BY <1>0 DEF Inv, TypeOK
  <1>2. PhaseInv'
    BY <1>0 DEF Inv, PhaseInv
  <1>3. PlaceInv'
    BY DEF Inv, PlaceInv, Placed, Ended
  <1>4. LayerInv'
    BY <1>0 DEF Inv, LayerInv, Completed
  <1>5. StartedInv'
    BY <1>0 DEF Inv, StartedInv
  <1>6. JudgedInv'
    BY DEF Inv, JudgedInv, Grounded
  <1>7. MutatorsRunAlone'
    BY <1>0 DEF Inv, MutatorsRunAlone
  <1>8. SkippedBehindFailure'
    BY DEF Inv, SkippedBehindFailure
  <1>9. CompletedByReview'
    BY DEF Inv, CompletedByReview
  <1>10. ResultsMatchTheirTask'
    BY DEF Inv, ResultsMatchTheirTask
  <1> QED
    BY <1>1, <1>2, <1>3, <1>4, <1>5, <1>6, <1>7, <1>8, <1>9, <1>10 DEF Inv

LEMMA PlannerRefuses ==
    ASSUME Inv, PlannerBabbles \/ PlannerFails
    PROVE  Inv'
  <1>1. phase \in Asking /\ invalid \in 0 .. MaxPlanRepairs /\ revisions \in 0 .. MaxPlanRevisions
    BY DEF Inv, TypeOK, PlannerBabbles, PlannerFails
  <1>2. phase \notin Ended \cup {"wave"}
    BY <1>1 DEF Asking, Ended
  <1>3. /\ phase' \in Phases \ {"wave"}
        /\ invalid' \in 0 .. MaxPlanRepairs
        /\ phase' = "revise" => phase = "revise"
    <2>1. CASE GiveUp
      BY <2>1, PlanParameters DEF GiveUp, Phases, Ended
    <2>2. CASE invalid < MaxPlanRepairs /\ invalid' = invalid + 1 /\ phase' = phase
      BY <2>2, <1>1, PlanParameters DEF Asking, Phases
    <2> QED
      BY <2>1, <2>2 DEF PlannerBabbles, PlannerFails
  <1>4. UNCHANGED <<mode, plan, revisions, allowReplan, layer, results, doneAs, taskVars>>
    BY DEF PlannerBabbles, PlannerFails
  <1>5. phase' = "revise" => revisions' < MaxPlanRevisions
    BY <1>3, <1>4 DEF Inv, PhaseInv
  <1> QED
    BY <1>1, <1>2, <1>3, <1>4, <1>5, QuietStep DEF taskVars, reviewVars

LEMMA Approval ==
    ASSUME Inv, User \/ PlanReady \/ AllSettled \/ CloseLayer
    PROVE  Inv'
  <1>1. invalid \in 0 .. MaxPlanRepairs /\ revisions \in 0 .. MaxPlanRevisions
    BY DEF Inv, TypeOK
  <1>2. /\ phase \notin Ended \cup {"wave"}
        /\ phase' \in Phases \ {"wave"}
        /\ revisions' \in 0 .. MaxPlanRevisions
        /\ phase' = "revise" => revisions' < MaxPlanRevisions
        /\ UNCHANGED <<mode, plan, invalid, allowReplan, layer, results, doneAs, taskVars>>
    <2>1. CASE Execute
      BY <2>1, PlanParameters DEF Execute, Ended, Phases
    <2>2. CASE Cancel
      BY <2>2, <1>1 DEF Cancel, Ended, Phases, planVars
    <2>3. CASE Supplement
      BY <2>3, <1>1, PlanParameters DEF Supplement, Ended, Phases, Asking, planVars
    <2>4. CASE PlanReady
      BY <2>4, <1>1 DEF PlanReady, Ended, Phases, planVars
    <2>5. CASE AllSettled
      BY <2>5, <1>1 DEF AllSettled, Ended, Phases, planVars
    <2>6. CASE CloseLayer
      BY <2>6, <1>1 DEF CloseLayer, Ended, Phases, planVars
    <2> QED
      BY <2>1, <2>2, <2>3, <2>4, <2>5, <2>6 DEF User
  <1> QED
    BY <1>1, <1>2, QuietStep DEF taskVars, reviewVars

(* A new plan: nothing has been started in it, and what is completed was   *)
(* completed as the same task.                                             *)
LEMMA NewPlan ==
    ASSUME Inv, PlannerPlans
    PROVE  Inv'
  <1>1. phase \in Asking
    BY DEF PlannerPlans
  <1>2. Wave = {} /\ Wave' = {}
    BY <1>1 DEF Inv, PhaseInv, PlannerPlans, Asking, Wave
  <1>3. PICK p \in ValidPlans :
           IF phase = "replan" THEN Replace(p)
           ELSE /\ Enter(p, [t \in Ids |-> "pending"])
                /\ phase' = IF mode = "plan" THEN "approval" ELSE "accepted"
                /\ revisions' = IF phase = "revise" THEN revisions + 1 ELSE revisions
                /\ UNCHANGED allowReplan
    BY DEF PlannerPlans
  <1>4. /\ plan' = p /\ p \in Proposals
        /\ layer' = {} /\ results' = Completed(p, status')
        /\ attempts' = [t \in Ids |-> 0]
        /\ invalid' = 0
        /\ UNCHANGED <<mode, doneAs, at, handed, changed, unread, inspected, repairs, judgement>>
    BY <1>3 DEF Replace, Enter, PlannerPlans, reviewVars, ValidPlans
  <1>5. /\ phase' \in {"dispatch", "approval", "accepted"}
        /\ revisions' \in 0 .. MaxPlanRevisions
        /\ allowReplan' \in BOOLEAN
    <2>1. allowReplan \in BOOLEAN /\ revisions \in 0 .. MaxPlanRevisions
      BY DEF Inv, TypeOK
    <2>2. phase = "revise" => revisions < MaxPlanRevisions
      BY DEF Inv, PhaseInv
    <2>3. CASE phase = "replan"
      BY <1>3, <2>1, <2>3 DEF Replace
    <2>4. CASE phase # "replan"
      BY <1>3, <2>1, <2>2, <2>4, PlanParameters
    <2> QED
      BY <2>3, <2>4
  <1>6. /\ status' \in [Ids -> {"pending", "completed"}]
        /\ \A t \in Members(p) : status'[t] = "completed" => doneAs[t] = Content(p, t)
    <2>1. CASE phase = "replan"
      <3>1. status' = Inherit(p)
        BY <1>3, <2>1 DEF Replace, Enter
      <3>2. ResultsMatchTheirTask
        BY DEF Inv
      <3>3. Members(p) \subseteq Ids
        BY <1>4, ProposalFacts
      <3>4. \A t \in Completed(plan, status) : doneAs[t] = Content(plan, t)
        BY <3>2 DEF ResultsMatchTheirTask, Completed
      <3> QED
        BY <3>1, <3>3, <3>4 DEF Inherit
    <2>2. CASE phase # "replan"
      BY <1>3, <2>2, ProposalFacts, <1>4 DEF Enter
    <2> QED
      BY <2>1, <2>2
  <1>7. Members(p) \subseteq Ids
    BY <1>4, ProposalFacts
  <1>8. TypeOK'
    <2>1. TypeOK
      BY DEF Inv
    <2>2. status' \in [Ids -> TaskStatuses] /\ results' \subseteq Members(p)
      BY <1>4, <1>6 DEF TaskStatuses, Completed
    <2>3. attempts' \in [Ids -> 0 .. MaxReviewRetries + 1]
      BY <1>4, PlanParameters
    <2> QED
      BY <1>2, <1>4, <1>5, <2>1, <2>2, <2>3, PlanParameters DEF TypeOK, Phases
  <1>9. PhaseInv'
    BY <1>2, <1>3, <1>4, <1>5 DEF PhaseInv
  <1>10. PlaceInv'
    <2>1. \A t \in Ids : at'[t] = "idle"
      BY <1>2 DEF Wave
    <2>2. \A t \in Ids : attempts'[t] = 0 /\ status'[t] \in {"pending", "completed"}
      BY <1>4, <1>6
    <2> QED
      BY <2>1, <2>2 DEF PlaceInv, Placed
  <1>11. LayerInv'
    BY <1>2, <1>4 DEF LayerInv
  <1>12. StartedInv'
    BY <1>4, <1>7 DEF StartedInv
  <1>13. JudgedInv'
    BY <1>2 DEF JudgedInv, Grounded, Wave
  <1>14. MutatorsRunAlone'
    BY <1>2, FS_EmptySet, PlanParameters DEF MutatorsRunAlone
  <1>15. SkippedBehindFailure'
    BY <1>4, <1>6, <1>7 DEF SkippedBehindFailure
  <1>16. CompletedByReview'
    <2>1. \A t \in Members(p) : attempts'[t] = 0
      BY <1>4, <1>7
    <2> QED
      BY <1>4, <2>1, PlanParameters DEF CompletedByReview
  <1>17. ResultsMatchTheirTask'
    BY <1>4, <1>6 DEF ResultsMatchTheirTask
  <1> QED
    BY <1>8, <1>9, <1>10, <1>11, <1>12, <1>13, <1>14, <1>15, <1>16, <1>17 DEF Inv

(* The ready tasks wait, and what they depend on is completed; no thread   *)
(* is at work when a layer is opened.                                      *)
LEMMA NewLayer ==
    ASSUME Inv, OpenLayer
    PROVE  Inv'
  <1>1. Wave = {} /\ Wave' = {}
    BY DEF Inv, PhaseInv, OpenLayer, Wave, taskVars
  <1>2. /\ layer' = Ready(plan, status)
        /\ results' = IF mode = "team" THEN Completed(plan, status) ELSE results
        /\ phase = "dispatch" /\ phase' = "waves"
        /\ UNCHANGED <<mode, plan, invalid, revisions, allowReplan, doneAs, status, attempts, at,
                       handed, changed, unread, inspected, repairs, judgement>>
    BY DEF OpenLayer, planVars, taskVars, reviewVars
  <1>3. \A t \in layer' : /\ t \in Members(plan) /\ status[t] = "pending"
                          /\ \A d \in plan.deps[t] : status[d] = "completed"
    BY <1>2 DEF Ready
  <1>4. \A t \in layer' : \A d \in plan.deps[t] : d \in results'
    <2> SUFFICES ASSUME NEW t \in layer', NEW d \in plan.deps[t]
                 PROVE  d \in Completed(plan, status)
      BY <1>2 DEF Inv, LayerInv, TypeOK, Ended
    <2>1. plan \in ValidPlans
      BY <1>3, NoPlanIsEmpty DEF Inv, PhaseInv
    <2>2. d \in Members(plan)
      BY <1>3, <2>1 DEF ValidPlans, Validates
    <2> QED
      BY <1>3, <2>2 DEF Completed
  <1>5. TypeOK'
    <2>1. layer' \subseteq Members(plan) /\ results' \subseteq Members(plan)
      BY <1>2 DEF Inv, TypeOK, Ready, Completed
    <2> QED
      BY <1>1, <1>2, <2>1 DEF Inv, TypeOK, Phases
  <1>6. PhaseInv'
    BY <1>1, <1>2 DEF Inv, PhaseInv
  <1>7. PlaceInv'
    BY <1>2 DEF Inv, PlaceInv, Placed
  <1>8. LayerInv'
    <2>1. \A t \in layer' : at[t] = "idle"
      <3>1. Members(plan) \subseteq Ids
        BY PlanFacts
      <3> QED
        BY <1>1, <1>3, <3>1 DEF Wave
    <2> QED
      BY <1>1, <1>2, <1>3, <1>4, <2>1 DEF Inv, LayerInv, Ended, Completed, TypeOK
  <1>9. StartedInv'
    BY <1>1, <1>2 DEF Inv, StartedInv
  <1>10. JudgedInv'
    BY <1>2 DEF Inv, JudgedInv, Grounded
  <1>11. MutatorsRunAlone'
    BY <1>1, FS_EmptySet, PlanParameters DEF MutatorsRunAlone
  <1>12. SkippedBehindFailure' /\ CompletedByReview' /\ ResultsMatchTheirTask'
    BY <1>2 DEF Inv, SkippedBehindFailure, CompletedByReview, ResultsMatchTheirTask
  <1> QED
    BY <1>5, <1>6, <1>7, <1>8, <1>9, <1>10, <1>11, <1>12 DEF Inv

(* "A valid DAG should not reach this branch": of the waiting tasks of a   *)
(* valid plan, one of least rank is ready or blocked.                      *)
LEMMA NotStuck ==
    ASSUME Inv, phase = "dispatch", ~IsFinished(plan, status)
    PROVE  Ready(plan, status) # {} \/ Blocked(plan, status) # {}
  <1>1. PICK t0 \in Members(plan) : status[t0] \notin {"completed", "failed", "skipped"}
    BY DEF IsFinished
  <1>2. plan \in ValidPlans
    BY <1>1, NoPlanIsEmpty DEF Inv, PhaseInv
  <1>3. Acyclic(plan)
    BY <1>2, ExecutedIsAcyclic
  <1>4. PICK r \in [Members(plan) -> 1 .. Cardinality(Members(plan))] : IsRank(plan, r)
    BY <1>3 DEF Acyclic
  <1> DEFINE Waiting == {t \in Members(plan) : status[t] = "pending"}
             Ranks == {r[t] : t \in Waiting}
  <1>5. \A t \in Members(plan) : status[t] \in {"pending", "completed", "failed", "skipped"}
    <2>1. Members(plan) \subseteq Ids
      BY PlanFacts
    <2>2. \A t \in Ids : at[t] = "idle"
      BY DEF Inv, PhaseInv, Wave
    <2> QED
      BY <2>1, <2>2 DEF Inv, PlaceInv, Placed, TypeOK, TaskStatuses
  <1>6. t0 \in Waiting
    BY <1>1, <1>5
  <1>7. Cardinality(Members(plan)) \in Nat
    BY PlanFacts, FS_CardinalityType
  <1>8. Ranks \in SUBSET Nat /\ Ranks # {}
    BY <1>4, <1>6, <1>7
  <1>9. PICK n \in Ranks : \A m \in Ranks : n <= m
    <2> HIDE DEF Ranks
    <2> QED
      BY <1>8, LeastNatural
  <1>10. PICK t \in Waiting : r[t] = n
    BY <1>9
  <1>11. \A d \in plan.deps[t] : d \in Members(plan) /\ r[d] < r[t]
    BY <1>3, <1>4, <1>10 DEF Acyclic, Closed, IsRank
  <1>12. \A d \in plan.deps[t] : d \notin Waiting
    <2> SUFFICES ASSUME NEW d \in plan.deps[t], d \in Waiting PROVE FALSE
      OBVIOUS
    <2>1. r[d] \in Ranks /\ r[d] < n
      BY <1>10, <1>11
    <2>2. r[d] \in Nat /\ n \in Nat
      BY <1>8, <2>1
    <2> QED
      BY <1>9, <2>1, <2>2
  <1>13. \A d \in plan.deps[t] : status[d] \in {"completed", "failed", "skipped"}
    BY <1>5, <1>11, <1>12
  <1> QED
    BY <1>10, <1>13 DEF Ready, Blocked

(* Skipping what waits behind a failure. *)
LEMMA Blocking ==
    ASSUME Inv, NothingReady \/ MarkBlocked
    PROVE  Inv'
  <1>1. /\ UNCHANGED <<mode, plan, invalid, revisions, allowReplan, layer, results, doneAs, attempts,
                       at, handed, changed, unread, inspected, repairs, judgement>>
        /\ phase \in {"dispatch", "blocking", "blocking_layer"}
        /\ phase' \in {"blocking", "blocking_layer", "dispatch", "waves"}
        /\ status' = [t \in Ids |-> IF t \in Blocked(plan, status) THEN "skipped" ELSE status[t]]
           \/ status' = status
    <2>1. CASE NothingReady
      <3>1. Blocked(plan, status) # {}
        BY <2>1, NotStuck DEF NothingReady
      <3> QED
        BY <2>1, <3>1 DEF NothingReady, planVars, reviewVars
    <2>2. CASE MarkBlocked
      BY <2>2 DEF MarkBlocked, planVars, reviewVars
    <2> QED
      BY <2>1, <2>2
  <1>2. Wave = {} /\ Wave' = {}
    BY <1>1 DEF Inv, PhaseInv, Wave
  <1>3. phase \notin Ended /\ phase' \notin Ended /\ phase' \in Phases
    BY <1>1 DEF Ended, Phases
  <1>4. CASE status' = status
    <2>1. phase' \in Phases \ {"wave"} /\ phase' # "revise" /\ phase # "wave"
      BY <1>1, <1>3
    <2>2. invalid \in 0 .. MaxPlanRepairs /\ revisions \in 0 .. MaxPlanRevisions
      BY DEF Inv, TypeOK
    <2> QED
      BY <1>1, <1>3, <1>4, <2>1, <2>2, QuietStep
  <1>5. CASE status' = [t \in Ids |-> IF t \in Blocked(plan, status) THEN "skipped" ELSE status[t]]
    <2> DEFINE B == Blocked(plan, status)
    <2>1. /\ \A t \in B : /\ t \in Members(plan) /\ status[t] = "pending"
                          /\ \E d \in plan.deps[t] : status[d] \in {"failed", "skipped"}
      BY DEF Blocked
    <2>2. /\ status' \in [Ids -> TaskStatuses]
          /\ \A t \in Ids : IF t \in B THEN status'[t] = "skipped" ELSE status'[t] = status[t]
      BY <1>5 DEF Inv, TypeOK, TaskStatuses
    <2>3. Members(plan) \subseteq Ids /\ \A t \in Members(plan) : plan.deps[t] \subseteq Ids
      BY PlanFacts
    <2> HIDE DEF B
    <2>4. TypeOK'
      BY <1>1, <1>2, <1>3, <2>2 DEF Inv, TypeOK
    <2>5. PhaseInv'
      BY <1>1, <1>2 DEF Inv, PhaseInv
    <2>6. PlaceInv'
      <3> SUFFICES ASSUME NEW t \in Ids PROVE Placed(t)'
        BY DEF PlaceInv
      <3>1. Placed(t) /\ at[t] = "idle"
        BY <1>2 DEF Inv, PlaceInv, Wave
      <3> QED
        BY <1>1, <2>2, <3>1 DEF Placed
    <2>7. LayerInv'
      <3>1. \A t \in layer : \A d \in plan.deps[t] : status[d] = "completed" /\ d \in results
        BY DEF Inv, LayerInv
      <3>2. layer \subseteq Members(plan)
        BY DEF Inv, TypeOK
      <3>3. \A t \in layer : status'[t] = "pending" /\ at[t] = "idle"
        <4> SUFFICES ASSUME NEW t \in layer PROVE status'[t] = "pending" /\ at[t] = "idle"
          OBVIOUS
        <4>1. t \notin B
          BY <2>1, <3>1
        <4> QED
          BY <2>2, <2>3, <3>2, <4>1 DEF Inv, LayerInv
      <3>4. \A t \in layer : \A d \in plan.deps[t] : status'[d] = "completed"
        BY <2>1, <2>2, <2>3, <3>1, <3>2
      <3>5. Completed(plan, status') \subseteq Completed(plan, status)
        BY <2>2, <2>3 DEF Completed
      <3>6. mode = "plan" => Completed(plan, status) \subseteq results
        BY <1>3 DEF Inv, LayerInv
      <3> QED
        BY <1>1, <1>2, <3>1, <3>3, <3>4, <3>5, <3>6 DEF LayerInv
    <2>8. StartedInv'
      <3> SUFFICES ASSUME NEW t \in Members(plan), attempts[t] > 0, NEW d \in plan.deps[t]
                   PROVE  status'[d] = "completed" /\ d \in handed[t]
        BY <1>1, <1>2 DEF StartedInv
      <3> QED
        BY <2>1, <2>2, <2>3 DEF Inv, StartedInv
    <2>9. JudgedInv'
      BY <1>1 DEF Inv, JudgedInv, Grounded
    <2>10. MutatorsRunAlone'
      BY <1>2, FS_EmptySet, PlanParameters DEF MutatorsRunAlone
    <2>11. SkippedBehindFailure'
      <3> SUFFICES ASSUME NEW t \in Members(plan), status'[t] = "skipped"
                   PROVE  \E d \in plan.deps[t] : status'[d] \in {"failed", "skipped"}
        BY <1>1 DEF SkippedBehindFailure
      <3>1. PICK d \in plan.deps[t] : status[d] \in {"failed", "skipped"}
        BY <2>1, <2>2, <2>3 DEF Inv, SkippedBehindFailure
      <3> QED
        BY <2>2, <2>3, <3>1
    <2>12. CompletedByReview'
      BY <1>1, <2>2, <2>3 DEF Inv, CompletedByReview
    <2>13. ResultsMatchTheirTask'
      BY <1>1, <2>2, <2>3 DEF Inv, ResultsMatchTheirTask
    <2> QED
      BY <2>4, <2>5, <2>6, <2>7, <2>8, <2>9, <2>10, <2>11, <2>12, <2>13 DEF Inv
  <1> QED
    BY <1>1, <1>4, <1>5

-----------------------------------------------------------------------------
(* Waves *)

LEMMA NextTasksFacts ==
    ASSUME Inv, layer # {}
    PROVE  /\ NextTasks \subseteq layer /\ NextTasks # {}
           /\ IsFiniteSet(NextTasks) /\ Cardinality(NextTasks) <= MaxWorkers
           /\ \A t, u \in NextTasks : t # u => plan.type[t] \in ParallelTypes
  <1>1. layer \in SUBSET Members(plan)
    BY DEF Inv, TypeOK
  <1> QED
    BY <1>1, PlanFacts, WaveFacts DEF NextTasks

(* The tasks of a wave have not been started, and what they depend on is   *)
(* at hand when they are.                                                  *)
LEMMA NewWave ==
    ASSUME Inv, phase = "waves", layer # {},
           layer' = layer \ NextTasks,
           NEW S \in SUBSET NextTasks,
           RunningIn(S) \/ (UNCHANGED <<status, attempts, handed>> /\ S = {}),
           \/ /\ phase' = "raised" /\ at' = at
           \/ /\ phase' = "wave" /\ mode = "plan" /\ S = NextTasks
              /\ at' = [t \in Ids |-> IF t \in NextTasks THEN "working" ELSE "idle"]
           \/ /\ phase' = "wave" /\ S = {}
              /\ at' = [t \in Ids |-> IF t \in NextTasks THEN "top" ELSE "idle"],
           mode' = mode, plan' = plan, invalid' = invalid, revisions' = revisions,
           allowReplan' = allowReplan, results' = results, doneAs' = doneAs,
           changed' = changed, unread' = unread, inspected' = inspected,
           repairs' = repairs, judgement' = judgement
    PROVE  Inv'
  <1>1. /\ NextTasks \subseteq layer
        /\ layer \subseteq Members(plan) /\ Members(plan) \subseteq Ids
        /\ \A t \in Members(plan) : plan.deps[t] \subseteq Ids
    BY NextTasksFacts, PlanFacts DEF Inv, TypeOK
  <1>2. Wave = {} /\ \A t \in Ids : at[t] = "idle"
    BY DEF Inv, PhaseInv, Wave
  <1>3. Wave' = {} \/ Wave' = NextTasks
    BY <1>1, <1>2 DEF Wave
  <1>4. \A t \in layer : /\ status[t] = "pending" /\ attempts[t] = 0
                         /\ \A d \in plan.deps[t] : status[d] = "completed" /\ d \in results
    BY <1>1 DEF Inv, LayerInv, PlaceInv, Placed
  <1>5. /\ status' \in [Ids -> TaskStatuses]
        /\ attempts' \in [Ids -> 0 .. MaxReviewRetries + 1]
        /\ handed' \in [Ids -> SUBSET Ids]
        /\ \A t \in Ids : IF t \in S
                          THEN /\ status'[t] = "running" /\ attempts'[t] = 1
                               /\ handed'[t] = plan.deps[t] \cap results
                          ELSE /\ status'[t] = status[t] /\ attempts'[t] = attempts[t]
                               /\ handed'[t] = handed[t]
    <2>1. /\ status \in [Ids -> TaskStatuses]
          /\ attempts \in [Ids -> 0 .. MaxReviewRetries + 1]
          /\ handed \in [Ids -> SUBSET Ids]
      BY DEF Inv, TypeOK
    <2>2. CASE UNCHANGED <<status, attempts, handed>> /\ S = {}
      BY <2>1, <2>2
    <2>3. CASE RunningIn(S)
      BY <1>1, <1>4, <2>1, <2>3, PlanParameters DEF RunningIn, Packet, TaskStatuses
    <2> QED
      BY <2>2, <2>3
  <1>6. \A d \in Ids : status[d] = "completed" => status'[d] = "completed" /\ d \notin NextTasks
    BY <1>1, <1>4, <1>5
  <1>7. TypeOK'
    <2>1. at' \in [Ids -> Places]
      BY DEF Inv, TypeOK, Places
    <2>2. layer' \subseteq Members(plan) /\ Wave' \subseteq Members(plan)
      BY <1>1, <1>3
    <2>3. phase' \in Phases
      BY DEF Phases, Ended
    <2> QED
      BY <1>5, <2>1, <2>2, <2>3 DEF Inv, TypeOK
  <1>8. PhaseInv'
    <2>1. phase' # "wave" => Wave' = {}
      BY <1>2 DEF Wave
    <2> QED
      BY <2>1 DEF Inv, PhaseInv
  <1>9. PlaceInv'
    <2> SUFFICES ASSUME NEW t \in Ids PROVE Placed(t)'
      BY DEF PlaceInv
    <2>1. Placed(t)
      BY DEF Inv, PlaceInv
    <2>2. CASE t \in S
      BY <1>1, <1>2, <1>5, <2>2, PlanParameters DEF Placed
    <2>3. CASE t \notin S
      BY <1>1, <1>2, <1>4, <1>5, <2>1, <2>3, PlanParameters DEF Placed
    <2> QED
      BY <2>2, <2>3
  <1>10. LayerInv'
    <2>1. \A t \in layer' : status'[t] = "pending" /\ at'[t] = "idle"
      BY <1>1, <1>2, <1>4, <1>5
    <2>2. \A t \in layer' \cup Wave' : \A d \in plan.deps[t] :
             status'[d] = "completed" /\ d \in results /\ d \notin Wave'
      BY <1>1, <1>3, <1>4, <1>6
    <2>3. Completed(plan, status') \subseteq Completed(plan, status)
      BY <1>1, <1>5 DEF Completed
    <2>4. mode = "plan" => Completed(plan, status) \subseteq results
      BY DEF Inv, LayerInv, Ended
    <2> QED
      BY <2>1, <2>2, <2>3, <2>4 DEF LayerInv
  <1>11. StartedInv'
    <2> SUFFICES ASSUME NEW t \in Members(plan), attempts'[t] > 0, NEW d \in plan.deps[t]
                 PROVE  status'[d] = "completed" /\ d \in handed'[t] /\ d \notin Wave'
      BY DEF StartedInv
    <2>1. d \in Ids /\ t \in Ids
      BY <1>1
    <2>2. status[d] = "completed" /\ d \in handed'[t]
      BY <1>1, <1>4, <1>5, <2>1 DEF Inv, StartedInv
    <2> QED
      BY <1>3, <1>6, <2>1, <2>2
  <1>12. JudgedInv'
    <2>1. \A t \in Ids : at'[t] # "judged"
      BY <1>2
    <2> QED
      BY <2>1 DEF JudgedInv, Grounded
  <1>13. MutatorsRunAlone'
    <2>1. CASE Wave' = {}
      BY <2>1, FS_EmptySet, PlanParameters DEF MutatorsRunAlone
    <2>2. CASE Wave' = NextTasks
      BY <2>2, NextTasksFacts DEF MutatorsRunAlone
    <2> QED
      BY <1>3, <2>1, <2>2
  <1>14. SkippedBehindFailure'
    <2> SUFFICES ASSUME NEW t \in Members(plan), status'[t] = "skipped"
                 PROVE  \E d \in plan.deps[t] : status'[d] \in {"failed", "skipped"}
      BY DEF SkippedBehindFailure
    <2>1. status[t] = "skipped"
      BY <1>1, <1>5
    <2>2. PICK d \in plan.deps[t] : status[d] \in {"failed", "skipped"}
      BY <2>1 DEF Inv, SkippedBehindFailure
    <2>3. d \in Ids /\ d \notin S
      BY <1>1, <1>4, <2>2
    <2> QED
      BY <1>5, <2>2, <2>3
  <1>15. CompletedByReview'
    <2> SUFFICES ASSUME mode = "team", NEW t \in Members(plan)
                 PROVE  /\ attempts'[t] > 0 /\ status'[t] = "completed" =>
                               judgement[t] = "approved" /\ changed[t] \subseteq inspected[t]
                        /\ attempts'[t] <= MaxReviewRetries + 1
      BY DEF CompletedByReview
    <2>1. t \in Ids
      BY <1>1
    <2> QED
      BY <1>5, <2>1, PlanParameters DEF Inv, CompletedByReview
  <1>16. ResultsMatchTheirTask'
    BY <1>1, <1>5 DEF Inv, ResultsMatchTheirTask
  <1> QED
    BY <1>7, <1>8, <1>9, <1>10, <1>11, <1>12, <1>13, <1>14, <1>15, <1>16 DEF Inv

LEMMA BeginWave ==
    ASSUME Inv, BeginPlanWave \/ BeginTeamWave
    PROVE  Inv'
  <1>1. CASE BeginTeamWave
    <2>1. /\ phase = "waves" /\ layer # {} /\ layer' = layer \ NextTasks /\ phase' = "wave"
          /\ at' = [t \in Ids |-> IF t \in NextTasks THEN "top" ELSE "idle"]
          /\ UNCHANGED <<mode, plan, invalid, revisions, allowReplan, results, doneAs, status,
                         attempts, handed, changed, unread, inspected, repairs, judgement>>
      BY <1>1 DEF BeginTeamWave, planVars, reviewVars
    <2>2. {} \in SUBSET NextTasks
      OBVIOUS
    <2> QED
      BY <2>1, <2>2, NewWave
  <1>2. CASE BeginPlanWave
    <2>1. /\ phase = "waves" /\ mode = "plan" /\ layer # {} /\ layer' = layer \ NextTasks
          /\ UNCHANGED <<mode, plan, invalid, revisions, allowReplan, results, doneAs,
                         changed, unread, inspected, repairs, judgement>>
      BY <1>2 DEF BeginPlanWave, planVars, reviewVars
    <2>2. CASE /\ RunningIn(NextTasks)
               /\ at' = [t \in Ids |-> IF t \in NextTasks THEN "working" ELSE "idle"]
               /\ phase' = "wave"
      BY <2>1, <2>2, NewWave
    <2>3. CASE \E t \in NextTasks : /\ RunningIn(UpTo(plan, NextTasks, t) \ {t})
                                    /\ phase' = "raised"
                                    /\ UNCHANGED at
      <3>1. PICK t \in NextTasks : RunningIn(UpTo(plan, NextTasks, t) \ {t})
        BY <2>3
      <3>2. UpTo(plan, NextTasks, t) \ {t} \in SUBSET NextTasks
        BY DEF UpTo
      <3> QED
        BY <2>1, <2>3, <3>1, <3>2, NewWave
    <2> QED
      BY <1>2, <2>2, <2>3 DEF BeginPlanWave
  <1> QED
    BY <1>1, <1>2

-----------------------------------------------------------------------------
(* Threads *)

(* A step of the thread of t: it moves between places of a wave, marks its *)
(* own task only, and never one that is skipped, nor back from completed   *)
(* or failed.                                                              *)
LEMMA ThreadStep ==
    ASSUME Inv, NEW t \in Wave, at'[t] # "idle",
           mode' = mode, phase' = phase, plan' = plan, invalid' = invalid, revisions' = revisions,
           allowReplan' = allowReplan, layer' = layer, results' = results,
           status' \in [Ids -> TaskStatuses], attempts' \in [Ids -> 0 .. MaxReviewRetries + 1],
           at' \in [Ids -> Places], handed' \in [Ids -> SUBSET Ids],
           changed' \in [Ids -> SUBSET Files], unread' \in [Ids -> SUBSET Files],
           inspected' \in [Ids -> SUBSET Files], repairs' \in [Ids -> 0 .. MaxReviewRepairs],
           judgement' \in [Ids -> Judgements],
           \A u \in Ids \ {t} : /\ status'[u] = status[u] /\ attempts'[u] = attempts[u]
                                /\ at'[u] = at[u] /\ handed'[u] = handed[u]
                                /\ changed'[u] = changed[u] /\ inspected'[u] = inspected[u]
                                /\ judgement'[u] = judgement[u],
           Placed(t)', Grounded(t)',
           status[t] = "failed" => status'[t] = "failed", status'[t] # "skipped",
           mode = "plan" => status'[t] # "completed",
           attempts'[t] > 0 => plan.deps[t] \cap results \subseteq handed'[t],
           mode = "team" /\ attempts'[t] > 0 /\ status'[t] = "completed" =>
               judgement'[t] = "approved" /\ changed'[t] \subseteq inspected'[t],
           doneAs' = [u \in Ids |-> IF u \in {t} /\ status'[u] = "completed"
                                    THEN Content(plan, u) ELSE doneAs[u]]
    PROVE  Inv'
  <1>1. /\ Wave \subseteq Members(plan) /\ Members(plan) \subseteq Ids
        /\ \A u \in Members(plan) : plan.deps[u] \subseteq Ids
        /\ layer \subseteq Members(plan)
    BY PlanFacts DEF Inv, TypeOK
  <1>2. t \in Ids /\ at[t] # "idle" /\ phase = "wave"
    BY <1>1 DEF Inv, PhaseInv, Wave
  <1>3. Wave' = Wave
    BY <1>2 DEF Wave
  <1>4. \A u \in layer \cup Wave : t \notin plan.deps[u]
    BY <1>1 DEF Inv, LayerInv
  <1>5. TypeOK'
    <2>1. doneAs' \in [Ids -> Contents]
      BY <1>1, <1>2, PlanFacts DEF Inv, TypeOK
    <2>2. TypeOK
      BY DEF Inv
    <2> QED
      BY <1>3, <2>1, <2>2 DEF TypeOK
  <1>6. PhaseInv'
    BY <1>2, <1>3 DEF Inv, PhaseInv
  <1>7. PlaceInv'
    <2> SUFFICES ASSUME NEW u \in Ids PROVE Placed(u)'
      BY DEF PlaceInv
    <2>1. CASE u # t
      BY <2>1 DEF Inv, PlaceInv, Placed
    <2> QED
      BY <2>1
  <1>8. LayerInv'
    <2>1. \A u \in layer : status'[u] = "pending" /\ at'[u] = "idle"
      <3> SUFFICES ASSUME NEW u \in layer PROVE status'[u] = "pending" /\ at'[u] = "idle"
        OBVIOUS
      <3>1. u \in Ids /\ status[u] = "pending" /\ at[u] = "idle"
        BY <1>1 DEF Inv, LayerInv
      <3>2. u # t
        BY <1>2, <3>1
      <3> QED
        BY <3>1, <3>2
    <2>2. \A u \in layer \cup Wave : \A d \in plan.deps[u] :
             status'[d] = "completed" /\ d \in results /\ d \notin Wave
      BY <1>1, <1>4 DEF Inv, LayerInv
    <2>3. mode = "plan" => Completed(plan, status') \subseteq results
      <3>1. mode = "plan" => status'[t] # "completed"
        OBVIOUS
      <3>2. mode = "plan" => Completed(plan, status) \subseteq results
        BY <1>2 DEF Inv, LayerInv, Ended
      <3> QED
        BY <1>1, <3>1, <3>2 DEF Completed
    <2> QED
      BY <1>3, <2>1, <2>2, <2>3 DEF LayerInv
  <1>9. StartedInv'
    <2> SUFFICES ASSUME NEW u \in Members(plan), attempts'[u] > 0, NEW d \in plan.deps[u]
                 PROVE  status'[d] = "completed" /\ d \in handed'[u] /\ d \notin Wave
      BY <1>3 DEF StartedInv
    <2>1. u \in Ids /\ d \in Ids
      BY <1>1
    <2>2. status[d] = "completed" /\ d \notin Wave /\ d \in handed'[u]
      <3>1. CASE u = t
        BY <3>1 DEF Inv, LayerInv
      <3>2. CASE u # t
        BY <2>1, <3>2 DEF Inv, StartedInv
      <3> QED
        BY <3>1, <3>2
    <2> QED
      BY <2>1, <2>2
  <1>10. JudgedInv'
    <2> SUFFICES ASSUME NEW u \in Ids PROVE Grounded(u)'
      BY DEF JudgedInv
    <2>1. CASE u # t
      BY <2>1 DEF Inv, JudgedInv, Grounded
    <2> QED
      BY <2>1
  <1>11. MutatorsRunAlone'
    BY <1>3 DEF Inv, MutatorsRunAlone
  <1>12. SkippedBehindFailure'
    <2> SUFFICES ASSUME NEW u \in Members(plan), status'[u] = "skipped"
                 PROVE  \E d \in plan.deps[u] : status'[d] \in {"failed", "skipped"}
      BY DEF SkippedBehindFailure
    <2>1. u # t /\ u \in Ids
      BY <1>1
    <2>2. PICK d \in plan.deps[u] : status[d] \in {"failed", "skipped"}
      BY <2>1 DEF Inv, SkippedBehindFailure
    <2>3. status[t] # "skipped"
      BY <1>2 DEF Inv, PlaceInv, Placed, TypeOK, Places
    <2> QED
      BY <1>1, <2>2, <2>3
  <1>13. CompletedByReview'
    <2> SUFFICES ASSUME mode = "team", NEW u \in Members(plan)
                 PROVE  /\ attempts'[u] > 0 /\ status'[u] = "completed" =>
                               judgement'[u] = "approved" /\ changed'[u] \subseteq inspected'[u]
                        /\ attempts'[u] <= MaxReviewRetries + 1
      BY DEF CompletedByReview
    <2>1. u \in Ids
      BY <1>1
    <2>2. attempts'[u] <= MaxReviewRetries + 1
      BY <2>1, PlanParameters
    <2>3. CASE u # t
      BY <2>1, <2>2, <2>3 DEF Inv, CompletedByReview
    <2> QED
      BY <2>2, <2>3
  <1>14. ResultsMatchTheirTask'
    <2> SUFFICES ASSUME NEW u \in Members(plan), status'[u] = "completed"
                 PROVE  doneAs'[u] = Content(plan, u)
      BY DEF ResultsMatchTheirTask
    <2> QED
      BY <1>1 DEF Inv, ResultsMatchTheirTask
  <1> QED
    BY <1>5, <1>6, <1>7, <1>8, <1>9, <1>10, <1>11, <1>12, <1>13, <1>14 DEF Inv

(* Where the thread of a task is, it is at work, and what it was started   *)
(* on is at hand.                                                          *)
LEMMA AtWork ==
    ASSUME Inv, NEW t \in Ids, at[t] # "idle"
    PROVE  /\ t \in Wave /\ Placed(t) /\ Grounded(t)
           /\ attempts[t] > 0 => plan.deps[t] \cap results \subseteq handed[t]
           /\ status \in [Ids -> TaskStatuses] /\ attempts \in [Ids -> 0 .. MaxReviewRetries + 1]
           /\ at \in [Ids -> Places] /\ handed \in [Ids -> SUBSET Ids]
           /\ changed \in [Ids -> SUBSET Files] /\ unread \in [Ids -> SUBSET Files]
           /\ inspected \in [Ids -> SUBSET Files] /\ repairs \in [Ids -> 0 .. MaxReviewRepairs]
           /\ judgement \in [Ids -> Judgements] /\ doneAs \in [Ids -> Contents]
  <1>1. t \in Wave
    BY DEF Wave
  <1>2. t \in Members(plan)
    BY <1>1 DEF Inv, TypeOK
  <1>3. attempts[t] > 0 => plan.deps[t] \cap results \subseteq handed[t]
    BY <1>2 DEF Inv, StartedInv
  <1> QED
    BY <1>1, <1>3 DEF Inv, TypeOK, PlaceInv, JudgedInv

LEMMA PlanThread ==
    ASSUME Inv, NEW t \in Ids, PlanWorker(t)
    PROVE  Inv'
  <1>1. at[t] = "working" /\ mode = "plan"
    BY DEF PlanWorker
  <1>2. /\ at' \in [Ids -> Places] /\ at'[t] \in {"answered", "threw"}
        /\ \A u \in Ids \ {t} : at'[u] = at[u]
    BY AtWork, <1>1 DEF PlanWorker, Move, Places
  <1>3. UNCHANGED <<mode, plan, invalid, revisions, allowReplan, phase, layer, results, doneAs,
                    status, attempts, handed, changed, unread, inspected, repairs, judgement>>
    BY DEF PlanWorker, planVars, reviewVars
  <1>4. status[t] = "running"
    BY <1>1, AtWork DEF Placed
  <1>5. doneAs' = [u \in Ids |-> IF u \in {t} /\ status'[u] = "completed"
                                 THEN Content(plan, u) ELSE doneAs[u]]
    BY <1>1, <1>3, <1>4, AtWork
  <1>6. Placed(t)' /\ Grounded(t)'
    BY <1>1, <1>2, <1>3, <1>4, AtWork DEF Placed, Grounded
  <1> QED
    BY <1>1, <1>2, <1>3, <1>4, <1>5, <1>6, AtWork, ThreadStep

(* What all steps of a Team thread have in common. *)
LEMMA TeamFrame ==
    ASSUME Inv, NEW t \in Ids, TeamThread(t)
    PROVE  /\ mode = "team"
           /\ UNCHANGED <<mode, phase, plan, invalid, revisions, allowReplan, layer, results>>
           /\ doneAs' = [u \in Ids |-> IF u \in {t} /\ status'[u] = "completed"
                                       THEN Content(plan, u) ELSE doneAs[u]]
  BY DEF TeamThread, Done, planVars

LEMMA StartPreserves ==
    ASSUME Inv, NEW t \in Ids, TeamThread(t), Start(t, Packet(t))
    PROVE  Inv'
  <1>1. at[t] = "top"
    BY DEF Start
  <1>2. /\ status[t] \in {"pending", "running"} /\ attempts[t] <= MaxReviewRetries
        /\ attempts[t] \in Nat
    BY <1>1, AtWork, PlanParameters DEF Placed
  <1>3. UNCHANGED <<changed, unread, inspected, repairs, judgement>>
    BY DEF Start, reviewVars
  <1>4. CASE /\ Move(t, "working") /\ Mark(t, "running")
             /\ attempts' = [attempts EXCEPT ![t] = @ + 1]
             /\ handed' = [handed EXCEPT ![t] = Packet(t)]
    <2>1. /\ status' \in [Ids -> TaskStatuses] /\ at' \in [Ids -> Places]
          /\ attempts' \in [Ids -> 0 .. MaxReviewRetries + 1]
          /\ at'[t] = "working" /\ status'[t] = "running" /\ attempts'[t] > 0
          /\ handed'[t] = plan.deps[t] \cap results
          /\ \A u \in Ids \ {t} : /\ status'[u] = status[u] /\ attempts'[u] = attempts[u]
                                  /\ at'[u] = at[u] /\ handed'[u] = handed[u]
      BY <1>1, <1>2, <1>4, AtWork, PlanParameters DEF Move, Mark, TaskStatuses, Places, Packet
    <2>2. handed' \in [Ids -> SUBSET Ids]
      <3>1. results \subseteq Ids
        BY PlanFacts DEF Inv, TypeOK
      <3> QED
        BY <1>1, <1>4, <3>1, AtWork DEF Packet
    <2>3. Placed(t)' /\ Grounded(t)'
      BY <2>1 DEF Placed, Grounded
    <2> QED
      BY <1>1, <1>2, <1>3, <2>1, <2>2, <2>3, AtWork, TeamFrame, ThreadStep
  <1>5. CASE Move(t, "raised") /\ UNCHANGED <<status, attempts, handed>>
    <2>1. /\ at' \in [Ids -> Places] /\ at'[t] = "raised"
          /\ \A u \in Ids \ {t} : at'[u] = at[u]
      BY <1>1, <1>5, AtWork DEF Move, Places
    <2>2. Placed(t)' /\ Grounded(t)'
      BY <1>1, <1>2, <1>5, <2>1, AtWork DEF Placed, Grounded
    <2> QED
      BY <1>1, <1>2, <1>3, <1>5, <2>1, <2>2, AtWork, TeamFrame, ThreadStep
  <1> QED
    BY <1>4, <1>5 DEF Start

LEMMA WorkerReturnsPreserves ==
    ASSUME Inv, NEW t \in Ids, TeamThread(t), WorkerReturns(t, plan.type[t])
    PROVE  Inv'
  <1>1. at[t] = "working" /\ status[t] = "running"
    <2>1. at[t] = "working"
      BY DEF WorkerReturns
    <2> QED
      BY <2>1, AtWork DEF Placed
  <1>2. PICK fs \in SUBSET Files :
           /\ changed' = [changed EXCEPT ![t] = fs]
           /\ unread' = [unread EXCEPT ![t] = @ \cup fs]
           /\ \/ Move(t, "reviewing") /\ UNCHANGED status
              \/ Move(t, "finishing") /\ Mark(t, "failed")
    <2>1. PICK ok \in BOOLEAN : \E fs \in Changes(plan.type[t], ok) :
             /\ changed' = [changed EXCEPT ![t] = fs]
             /\ unread' = [unread EXCEPT ![t] = @ \cup fs]
             /\ IF ok THEN Move(t, "reviewing") /\ UNCHANGED status
                      ELSE Move(t, "finishing") /\ Mark(t, "failed")
      BY DEF WorkerReturns
    <2>2. Changes(plan.type[t], ok) \subseteq SUBSET Files
      BY DEF Changes
    <2> QED
      BY <2>1, <2>2
  <1>3. /\ inspected' = [inspected EXCEPT ![t] = {}]
        /\ judgement' = [judgement EXCEPT ![t] = "none"]
        /\ UNCHANGED <<attempts, handed, repairs>>
    BY DEF WorkerReturns
  <1>4. /\ changed' \in [Ids -> SUBSET Files] /\ unread' \in [Ids -> SUBSET Files]
        /\ inspected' \in [Ids -> SUBSET Files] /\ judgement' \in [Ids -> Judgements]
        /\ judgement'[t] = "none"
        /\ \A u \in Ids \ {t} : /\ changed'[u] = changed[u] /\ inspected'[u] = inspected[u]
                                /\ judgement'[u] = judgement[u]
    BY <1>1, <1>2, <1>3, AtWork DEF Judgements
  <1>5. /\ status' \in [Ids -> TaskStatuses] /\ at' \in [Ids -> Places]
        /\ \/ at'[t] = "reviewing" /\ status'[t] = "running"
           \/ at'[t] = "finishing" /\ status'[t] = "failed"
        /\ \A u \in Ids \ {t} : status'[u] = status[u] /\ at'[u] = at[u]
    BY <1>1, <1>2, AtWork DEF Move, Mark, TaskStatuses, Places
  <1>6. Placed(t)' /\ Grounded(t)'
    BY <1>4, <1>5 DEF Placed, Grounded
  <1> QED
    BY <1>1, <1>3, <1>4, <1>5, <1>6, AtWork, TeamFrame, ThreadStep

(* The review of a running task: it stays running, and an approval is one  *)
(* that has seen the changes.                                              *)
LEMMA ReviewPreserves ==
    ASSUME Inv, NEW t \in Ids, TeamThread(t),
           at[t] = "reviewing",
           status' = status, attempts' = attempts, handed' = handed, changed' = changed,
           inspected' \in [Ids -> SUBSET Files], unread' \in [Ids -> SUBSET Files],
           repairs' \in [Ids -> 0 .. MaxReviewRepairs], judgement' \in [Ids -> Judgements],
           \A u \in Ids \ {t} : inspected'[u] = inspected[u] /\ judgement'[u] = judgement[u],
           at' = at \/ Move(t, "judged"),
           judgement'[t] = "approved" => at' = at \/ changed[t] \subseteq inspected'[t]
    PROVE  Inv'
  <1>1. status[t] = "running"
    BY AtWork DEF Placed
  <1>2. /\ at' \in [Ids -> Places] /\ at'[t] \in {"reviewing", "judged"}
        /\ \A u \in Ids \ {t} : at'[u] = at[u]
        /\ at' = at => at'[t] # "judged"
    BY AtWork DEF Move, Places
  <1>3. Placed(t)' /\ Grounded(t)'
    BY <1>1, <1>2, AtWork DEF Placed, Grounded
  <1> QED
    BY <1>1, <1>2, <1>3, AtWork, TeamFrame, ThreadStep

LEMMA ReviewerPreserves ==
    ASSUME Inv, NEW t \in Ids, TeamThread(t),
           ReviewerFails(t) \/ ReviewerBabbles(t) \/ ReviewerAnswers(t)
    PROVE  Inv'
  <1>1. at[t] = "reviewing"
    BY DEF ReviewerFails, ReviewerBabbles, ReviewerAnswers
  <1>2. UNCHANGED <<status, attempts, handed, changed>>
    BY DEF ReviewerFails, ReviewerBabbles, ReviewerAnswers
  <1>3. ASSUME NEW j \in Judgements, Judge(t, j)
        PROVE  /\ judgement' \in [Ids -> Judgements] /\ repairs' \in [Ids -> 0 .. MaxReviewRepairs]
               /\ judgement'[t] = j /\ Move(t, "judged")
               /\ \A u \in Ids \ {t} : judgement'[u] = judgement[u]
    BY <1>1, <1>3, AtWork, PlanParameters DEF Judge
  <1>4. ASSUME NEW read \in SUBSET Files, Inspect(t, read)
        PROVE  /\ inspected' \in [Ids -> SUBSET Files] /\ unread' \in [Ids -> SUBSET Files]
               /\ \A u \in Ids \ {t} : inspected'[u] = inspected[u]
    BY <1>1, <1>4, AtWork DEF Inspect
  <1>5. CASE ReviewerFails(t)
    <2>1. Judge(t, "error") /\ UNCHANGED <<inspected, unread>>
      BY <1>5 DEF ReviewerFails
    <2>2. "error" \in Judgements
      BY DEF Judgements
    <2> QED
      BY <1>1, <1>2, <1>3, <2>1, <2>2, AtWork, ReviewPreserves
  <1>6. CASE ReviewerBabbles(t)
    <2>1. PICK read \in SUBSET Files : Inspect(t, read)
      BY <1>6 DEF ReviewerBabbles
    <2>2. CASE Judge(t, "error")
      <3>1. "error" \in Judgements
        BY DEF Judgements
      <3> QED
        BY <1>1, <1>2, <1>3, <1>4, <2>1, <2>2, <3>1, ReviewPreserves
    <2>3. CASE /\ ~ (repairs[t] >= MaxReviewRepairs)
               /\ repairs' = [repairs EXCEPT ![t] = @ + 1] /\ UNCHANGED <<judgement, at>>
      <3>1. repairs' \in [Ids -> 0 .. MaxReviewRepairs]
        BY <1>1, <2>3, AtWork, PlanParameters
      <3> QED
        BY <1>1, <1>2, <1>4, <2>1, <2>3, <3>1, AtWork, ReviewPreserves
    <2> QED
      BY <1>6, <2>2, <2>3 DEF ReviewerBabbles
  <1>7. CASE ReviewerAnswers(t)
    <2>1. PICK read \in SUBSET Files, retryable \in BOOLEAN, terminal \in BOOLEAN,
               verdict \in {"approved", "changes_requested", "rejected"} :
               /\ Inspect(t, read)
               /\ Judge(t, Verdict(verdict, retryable, terminal, changed[t], inspected'[t]))
      BY <1>7 DEF ReviewerAnswers
    <2> DEFINE j == Verdict(verdict, retryable, terminal, changed[t], inspected'[t])
    <2>2. j \in Judgements /\ (j = "approved" => changed[t] \subseteq inspected'[t])
      BY DEF Verdict, Judgements
    <2> HIDE DEF j
    <2> QED
      BY <1>1, <1>2, <1>3, <1>4, <2>1, <2>2, ReviewPreserves DEF j
  <1> QED
    BY <1>5, <1>6, <1>7

LEMMA SettlePreserves ==
    ASSUME Inv, NEW t \in Ids, TeamThread(t), Settle(t)
    PROVE  Inv'
  <1>1. at[t] = "judged" /\ status[t] = "running" /\ Grounded(t)
    <2>1. at[t] = "judged"
      BY DEF Settle
    <2> QED
      BY <2>1, AtWork DEF Placed
  <1>2. UNCHANGED <<attempts, handed, changed, unread, inspected, repairs, judgement>>
    BY DEF Settle, reviewVars
  <1>3. attempts[t] \in Nat
    BY <1>1, AtWork
  <1>4. /\ status' \in [Ids -> TaskStatuses] /\ at' \in [Ids -> Places]
        /\ \/ at'[t] = "raised" /\ status'[t] = "running"
           \/ at'[t] = "finishing" /\ status'[t] = "completed" /\ judgement[t] = "approved"
           \/ at'[t] = "finishing" /\ status'[t] = "failed"
           \/ at'[t] = "top" /\ status'[t] = "running" /\ attempts[t] <= MaxReviewRetries
        /\ \A u \in Ids \ {t} : status'[u] = status[u] /\ at'[u] = at[u]
    BY <1>1, <1>3, AtWork, PlanParameters DEF Settle, Move, Mark, TaskStatuses, Places
  <1>5. Placed(t)' /\ Grounded(t)'
    BY <1>2, <1>4 DEF Placed, Grounded
  <1>6. status'[t] = "completed" => judgement[t] = "approved" /\ changed[t] \subseteq inspected[t]
    BY <1>1, <1>4 DEF Grounded
  <1> QED
    BY <1>1, <1>2, <1>4, <1>5, <1>6, AtWork, TeamFrame, ThreadStep

LEMMA FinishPreserves ==
    ASSUME Inv, NEW t \in Ids, TeamThread(t), Finish(t)
    PROVE  Inv'
  <1>1. at[t] = "finishing" /\ status[t] \in {"completed", "failed"}
    <2>1. at[t] = "finishing"
      BY DEF Finish
    <2> QED
      BY <2>1, AtWork DEF Placed
  <1>2. UNCHANGED <<status, attempts, handed, changed, unread, inspected, repairs, judgement>>
    BY DEF Finish, reviewVars
  <1>3. /\ at' \in [Ids -> Places] /\ at'[t] \in {"returned", "raised"}
        /\ \A u \in Ids \ {t} : at'[u] = at[u]
    BY <1>1, AtWork DEF Finish, Move, Places
  <1>4. Placed(t)' /\ Grounded(t)'
    BY <1>1, <1>2, <1>3 DEF Placed, Grounded
  <1>5. mode = "team" /\ attempts[t] > 0 /\ status[t] = "completed" =>
           judgement[t] = "approved" /\ changed[t] \subseteq inspected[t]
    BY <1>1, AtWork DEF Inv, CompletedByReview, TypeOK
  <1> QED
    BY <1>1, <1>2, <1>3, <1>4, <1>5, AtWork, TeamFrame, ThreadStep

LEMMA ThreadPreserves ==
    ASSUME Inv, NEW t \in Ids, Thread(t)
    PROVE  Inv'
  <1>1. CASE PlanWorker(t)
    BY <1>1, PlanThread
  <1>2. CASE TeamThread(t)
    <2>1. CASE Start(t, Packet(t))
      BY <1>2, <2>1, StartPreserves
    <2>2. CASE WorkerReturns(t, plan.type[t])
      BY <1>2, <2>2, WorkerReturnsPreserves
    <2>3. CASE ReviewerFails(t) \/ ReviewerBabbles(t) \/ ReviewerAnswers(t)
      BY <1>2, <2>3, ReviewerPreserves
    <2>4. CASE Settle(t)
      BY <1>2, <2>4, SettlePreserves
    <2>5. CASE Finish(t)
      BY <1>2, <2>5, FinishPreserves
    <2> QED
      BY <1>2, <2>1, <2>2, <2>3, <2>4, <2>5 DEF TeamThread
  <1> QED
    BY <1>1, <1>2 DEF Thread

-----------------------------------------------------------------------------
(* The end of a wave *)

(* The tasks of the wave are settled, unless a hook ends the run; the      *)
(* others, and what is known of the completed ones, stay as they are.      *)
LEMMA JoinStep ==
    ASSUME Inv, phase = "wave", at' = Idle,
           phase' \in {"waves", "replan", "blocking_layer", "raised"},
           mode' = mode, plan' = plan, invalid' = invalid, revisions' = revisions,
           allowReplan' = allowReplan, layer' = layer, attempts' = attempts, handed' = handed,
           repairs' = repairs,
           status' \in [Ids -> TaskStatuses], doneAs' \in [Ids -> Contents],
           changed' \in [Ids -> SUBSET Files], unread' \in [Ids -> SUBSET Files],
           inspected' \in [Ids -> SUBSET Files], judgement' \in [Ids -> Judgements],
           \A t \in Ids \ Wave : status'[t] = status[t] /\ doneAs'[t] = doneAs[t],
           \A t \in Wave : /\ status'[t] \in {"running", "completed", "failed"}
                           /\ status'[t] = "running" => phase' = "raised"
                           /\ status[t] = "failed" => status'[t] = "failed"
                           /\ status'[t] = "completed" => doneAs'[t] = Content(plan, t),
           mode = "team" => \A t \in Ids : status'[t] = "completed" =>
               /\ status[t] = "completed"
               /\ judgement'[t] = judgement[t] /\ changed'[t] = changed[t]
               /\ inspected'[t] = inspected[t],
           results' \subseteq Members(plan),
           \A d \in results : status'[d] = "completed" => d \in results',
           mode = "plan" /\ phase' # "raised" => Completed(plan, status') \subseteq results'
    PROVE  Inv'
  <1>1. /\ Wave \subseteq Members(plan) /\ Members(plan) \subseteq Ids
        /\ \A t \in Members(plan) : plan.deps[t] \subseteq Ids
        /\ layer \subseteq Members(plan)
    BY PlanFacts DEF Inv, TypeOK
  <1>2. Wave' = {} /\ \A t \in Ids : at'[t] = "idle"
    BY DEF Wave, Idle
  <1>3. \A d \in Ids \ Wave : status'[d] = status[d]
    OBVIOUS
  <1>4. TypeOK'
    <2>1. at' \in [Ids -> Places] /\ phase' \in Phases
      BY DEF Idle, Places, Phases, Ended, Asking
    <2> QED
      BY <1>2, <2>1 DEF Inv, TypeOK
  <1>5. PhaseInv'
    BY <1>2 DEF Inv, PhaseInv
  <1>6. PlaceInv'
    <2> SUFFICES ASSUME NEW t \in Ids PROVE Placed(t)'
      BY DEF PlaceInv
    <2>1. CASE t \in Wave
      BY <1>2, <2>1 DEF Placed
    <2>2. CASE t \notin Wave
      <3>1. at[t] = "idle" /\ Placed(t)
        BY <2>2 DEF Inv, PlaceInv, Wave
      <3>2. status[t] # "running"
        BY <3>1 DEF Placed
      <3> QED
        BY <1>2, <2>2, <3>1, <3>2 DEF Placed
    <2> QED
      BY <2>1, <2>2
  <1>7. LayerInv'
    <2>1. \A t \in layer : status'[t] = "pending"
      <3> SUFFICES ASSUME NEW t \in layer PROVE status'[t] = "pending"
        OBVIOUS
      <3>1. t \in Ids /\ status[t] = "pending" /\ at[t] = "idle"
        BY <1>1 DEF Inv, LayerInv
      <3>2. t \notin Wave
        BY <3>1 DEF Wave
      <3> QED
        BY <1>3, <3>1, <3>2
    <2>2. \A t \in layer : \A d \in plan.deps[t] : status'[d] = "completed" /\ d \in results'
      <3> SUFFICES ASSUME NEW t \in layer, NEW d \in plan.deps[t]
                   PROVE  status'[d] = "completed" /\ d \in results'
        OBVIOUS
      <3>1. d \in Ids \ Wave /\ status[d] = "completed" /\ d \in results
        BY <1>1 DEF Inv, LayerInv
      <3> QED
        BY <1>3, <3>1
    <2>3. phase' = "raised" => phase' \in Ended
      BY DEF Ended
    <2>4. \A t \in layer : at'[t] = "idle"
      BY <1>1, <1>2
    <2> QED
      BY <1>2, <2>1, <2>2, <2>3, <2>4 DEF LayerInv
  <1>8. StartedInv'
    <2> SUFFICES ASSUME NEW t \in Members(plan), attempts[t] > 0, NEW d \in plan.deps[t]
                 PROVE  status'[d] = "completed" /\ d \in handed[t]
      BY <1>2 DEF StartedInv
    <2>1. d \in Ids \ Wave /\ status[d] = "completed" /\ d \in handed[t]
      BY <1>1 DEF Inv, StartedInv
    <2> QED
      BY <1>3, <2>1
  <1>9. JudgedInv'
    BY <1>2 DEF JudgedInv, Grounded
  <1>10. MutatorsRunAlone'
    BY <1>2, FS_EmptySet, PlanParameters DEF MutatorsRunAlone
  <1>11. SkippedBehindFailure'
    <2> SUFFICES ASSUME NEW t \in Members(plan), status'[t] = "skipped"
                 PROVE  \E d \in plan.deps[t] : status'[d] \in {"failed", "skipped"}
      BY DEF SkippedBehindFailure
    <2>1. t \in Ids \ Wave
      BY <1>1
    <2>2. PICK d \in plan.deps[t] : status[d] \in {"failed", "skipped"}
      BY <1>3, <2>1 DEF Inv, SkippedBehindFailure
    <2>3. d \in Ids
      BY <1>1
    <2>4. d \in Wave => status[d] # "skipped"
      BY <2>3 DEF Inv, PlaceInv, Placed, Wave, TypeOK, Places
    <2> QED
      BY <1>3, <2>2, <2>3, <2>4
  <1>12. CompletedByReview'
    <2> SUFFICES ASSUME mode = "team", NEW t \in Members(plan)
                 PROVE  /\ attempts[t] > 0 /\ status'[t] = "completed" =>
                               judgement'[t] = "approved" /\ changed'[t] \subseteq inspected'[t]
                        /\ attempts[t] <= MaxReviewRetries + 1
      BY DEF CompletedByReview
    <2> QED
      BY <1>1 DEF Inv, CompletedByReview
  <1>13. ResultsMatchTheirTask'
    <2> SUFFICES ASSUME NEW t \in Members(plan), status'[t] = "completed"
                 PROVE  doneAs'[t] = Content(plan, t)
      BY DEF ResultsMatchTheirTask
    <2> QED
      BY <1>1 DEF Inv, ResultsMatchTheirTask
  <1> QED
    BY <1>4, <1>5, <1>6, <1>7, <1>8, <1>9, <1>10, <1>11, <1>12, <1>13 DEF Inv

LEMMA JoinPlan ==
    ASSUME Inv, JoinPlanWave
    PROVE  Inv'
  <1>1. /\ phase = "wave" /\ mode = "plan" /\ at' = Idle
        /\ \A t \in Wave : at[t] \in {"answered", "threw"}
        /\ UNCHANGED <<mode, plan, invalid, revisions, allowReplan, layer, attempts, handed,
                       changed, unread, inspected, repairs, judgement>>
    BY DEF JoinPlanWave, planVars, reviewVars
  <1>2. /\ Wave \subseteq Members(plan) /\ Members(plan) \subseteq Ids
        /\ results \subseteq Members(plan)
        /\ \A t \in Members(plan) : Content(plan, t) \in Contents
        /\ status \in [Ids -> TaskStatuses] /\ doneAs \in [Ids -> Contents]
    BY PlanFacts DEF Inv, TypeOK
  <1>3. \A t \in Wave : status[t] = "running"
    BY <1>1, <1>2 DEF Inv, PlaceInv, Placed
  <1>4. ASSUME NEW W \in SUBSET Wave, Collect(W)
        PROVE  /\ status' \in [Ids -> TaskStatuses] /\ doneAs' \in [Ids -> Contents]
               /\ \A t \in Ids \ Wave : status'[t] = status[t] /\ doneAs'[t] = doneAs[t]
               /\ \A t \in W : /\ status'[t] \in {"completed", "failed"}
                               /\ status'[t] = "completed" => t \in Answered(W)
               /\ \A t \in Wave \ W : status'[t] = "running"
               /\ \A t \in Wave : status'[t] = "completed" => doneAs'[t] = Content(plan, t)
    BY <1>1, <1>2, <1>3, <1>4 DEF Collect, Done, Answered, Threw, TaskStatuses
  <1>5. /\ changed \in [Ids -> SUBSET Files] /\ unread \in [Ids -> SUBSET Files]
        /\ inspected \in [Ids -> SUBSET Files] /\ judgement \in [Ids -> Judgements]
    BY DEF Inv, TypeOK
  <1>6. CASE /\ Collect(Wave)
             /\ results' = results \cup Answered(Wave)
             /\ phase' = IF Threw(Wave) = {} THEN "waves"
                         ELSE IF allowReplan THEN "replan" ELSE "blocking_layer"
    <2>1. results' \subseteq Members(plan)
      BY <1>2, <1>6 DEF Answered
    <2>2. Completed(plan, status') \subseteq results'
      <3>1. Completed(plan, status) \subseteq results
        BY <1>1 DEF Inv, LayerInv, Ended
      <3> QED
        BY <1>2, <1>4, <1>6, <3>1 DEF Completed
    <2>3. phase' \in {"waves", "replan", "blocking_layer"}
      BY <1>6
    <2> QED
      BY <1>1, <1>3, <1>4, <1>5, <1>6, <2>1, <2>2, <2>3, JoinStep
  <1>7. CASE \E t \in Wave : /\ Collect(UpTo(plan, Wave, t))
                             /\ phase' = "raised"
                             /\ UNCHANGED results
    <2>1. PICK t \in Wave : Collect(UpTo(plan, Wave, t))
      BY <1>7
    <2>2. UpTo(plan, Wave, t) \in SUBSET Wave
      BY DEF UpTo
    <2>3. phase' = "raised" /\ results' = results
      BY <1>7
    <2> QED
      BY <1>1, <1>2, <1>3, <1>4, <1>5, <2>1, <2>2, <2>3, JoinStep
  <1> QED
    BY <1>6, <1>7 DEF JoinPlanWave

LEMMA JoinTeam ==
    ASSUME Inv, JoinTeamWave
    PROVE  Inv'
  <1>1. /\ phase = "wave" /\ mode = "team" /\ at' = Idle /\ phase' = "blocking_layer"
        /\ \A t \in Wave : at[t] \in {"returned", "raised"}
        /\ UNCHANGED <<mode, plan, invalid, revisions, allowReplan, layer, doneAs, attempts, handed,
                       repairs>>
        /\ status' = [t \in Ids |-> IF at[t] = "raised" THEN "failed" ELSE status[t]]
        /\ results' = Completed(plan, status')
    BY DEF JoinTeamWave, planVars, Forget
  <1>2. /\ Wave \subseteq Members(plan) /\ Members(plan) \subseteq Ids
        /\ results \subseteq Members(plan)
        /\ status \in [Ids -> TaskStatuses] /\ doneAs \in [Ids -> Contents]
    BY PlanFacts DEF Inv, TypeOK
  <1>3. /\ status' \in [Ids -> TaskStatuses]
        /\ \A t \in Ids \ Wave : status'[t] = status[t]
        /\ \A t \in Ids : status'[t] = "completed" => status[t] = "completed"
        /\ \A t \in Ids : status[t] = "failed" => status'[t] = "failed"
    BY <1>1, <1>2 DEF Wave, TaskStatuses
  <1>4. \A t \in Wave : status'[t] \in {"completed", "failed"}
    BY <1>1, <1>2 DEF Inv, PlaceInv, Placed
  <1>5. \A t \in Wave : status'[t] = "completed" => doneAs'[t] = Content(plan, t)
    BY <1>1, <1>2, <1>3 DEF Inv, ResultsMatchTheirTask
  <1>6. /\ changed' \in [Ids -> SUBSET Files] /\ unread' \in [Ids -> SUBSET Files]
        /\ inspected' \in [Ids -> SUBSET Files] /\ judgement' \in [Ids -> Judgements]
        /\ \A t \in Ids : status'[t] = "completed" =>
              judgement'[t] = judgement[t] /\ changed'[t] = changed[t] /\ inspected'[t] = inspected[t]
    <2>1. Forget({t \in Wave : status'[t] = "failed"})
      BY DEF JoinTeamWave
    <2>2. /\ changed \in [Ids -> SUBSET Files] /\ unread \in [Ids -> SUBSET Files]
          /\ inspected \in [Ids -> SUBSET Files] /\ judgement \in [Ids -> Judgements]
      BY DEF Inv, TypeOK
    <2> QED
      BY <2>1, <2>2 DEF Forget, Judgements
  <1>7. results' \subseteq Members(plan) /\ \A d \in results : status'[d] = "completed" => d \in results'
    BY <1>1, <1>2 DEF Completed
  <1> QED
    BY <1>1, <1>2, <1>3, <1>4, <1>5, <1>6, <1>7, JoinStep

-----------------------------------------------------------------------------
(* The theorems *)

LEMMA InitEstablishes ==
    ASSUME Init
    PROVE  Inv
  <1>1. /\ mode \in {"plan", "team"} /\ invalid = 0 /\ revisions = 0 /\ allowReplan = TRUE
        /\ layer = {} /\ results = Completed(plan, status)
        /\ doneAs = [t \in Ids |-> IF status[t] = "completed" THEN Content(plan, t) ELSE NoTask]
        /\ attempts = [t \in Ids |-> 0] /\ at = [t \in Ids |-> "idle"]
        /\ handed = [t \in Ids |-> {}] /\ changed = [t \in Ids |-> {}]
        /\ unread = [t \in Ids |-> {}] /\ inspected = [t \in Ids |-> {}]
        /\ repairs = [t \in Ids |-> 0] /\ judgement = [t \in Ids |-> "none"]
    BY DEF Init, Idle
  <1>2. /\ phase \in {"create", "dispatch", "accepted"}
        /\ plan = NoPlan \/ plan \in ValidPlans
        /\ status \in [Ids -> TaskStatuses \ {"running"}]
        /\ \A t \in Members(plan) : status[t] = "skipped" =>
              \E d \in plan.deps[t] : status[d] \in {"failed", "skipped"}
        /\ \A t \in Ids : status[t] = "completed" => t \in Members(plan)
    <2>1. CASE phase = "create" /\ plan = NoPlan /\ status = [t \in Ids |-> "pending"]
      BY <2>1, NoPlanIsEmpty DEF TaskStatuses
    <2>2. CASE /\ phase = IF mode = "plan" THEN "dispatch" ELSE "accepted"
               /\ plan \in ValidPlans \cap Resumable
               /\ status \in [Ids -> TaskStatuses \ {"running"}]
               /\ Stored(plan, status)
      BY <2>2 DEF Stored
    <2> QED
      BY <2>1, <2>2 DEF Init
  <1>3. plan = NoPlan \/ plan \in Proposals
    BY <1>2 DEF ValidPlans
  <1>4. Members(plan) \subseteq Ids /\ \A t \in Members(plan) : Content(plan, t) \in Contents
    BY <1>3, ProposalFacts
  <1>5. Wave = {}
    BY <1>1 DEF Wave
  <1>6. TypeOK
    <2>1. doneAs \in [Ids -> Contents]
      BY <1>1, <1>2, <1>4 DEF Contents
    <2>2. results \subseteq Members(plan)
      BY <1>1 DEF Completed
    <2>3. status \in [Ids -> TaskStatuses]
      BY <1>2 DEF TaskStatuses
    <2>4. phase \in Phases
      BY <1>2 DEF Phases, Asking
    <2>5. attempts \in [Ids -> 0 .. MaxReviewRetries + 1] /\ repairs \in [Ids -> 0 .. MaxReviewRepairs]
          /\ invalid \in 0 .. MaxPlanRepairs /\ revisions \in 0 .. MaxPlanRevisions
      BY <1>1, PlanParameters
    <2>6. at \in [Ids -> Places] /\ judgement \in [Ids -> Judgements]
      BY <1>1 DEF Places, Judgements
    <2> QED
      BY <1>1, <1>3, <1>5, <2>1, <2>2, <2>3, <2>4, <2>5, <2>6 DEF TypeOK
  <1>7. PhaseInv
    BY <1>2, <1>5 DEF PhaseInv
  <1>8. PlaceInv
    BY <1>1, <1>2 DEF PlaceInv, Placed
  <1>9. LayerInv
    BY <1>1, <1>5 DEF LayerInv
  <1>10. StartedInv
    BY <1>1, <1>4 DEF StartedInv
  <1>11. JudgedInv
    BY <1>1 DEF JudgedInv, Grounded
  <1>12. MutatorsRunAlone
    BY <1>5, FS_EmptySet, PlanParameters DEF MutatorsRunAlone
  <1>13. SkippedBehindFailure
    BY <1>2 DEF SkippedBehindFailure
  <1>14. CompletedByReview
    BY <1>1, <1>4, PlanParameters DEF CompletedByReview
  <1>15. ResultsMatchTheirTask
    BY <1>1, <1>4 DEF ResultsMatchTheirTask
  <1> QED
    BY <1>6, <1>7, <1>8, <1>9, <1>10, <1>11, <1>12, <1>13, <1>14, <1>15 DEF Inv

LEMMA NextPreserves ==
    ASSUME Inv, [Next]_vars
    PROVE  Inv'
  <1>1. CASE UNCHANGED vars
    <2>1. Wave' = Wave
      BY <1>1 DEF Wave, vars, taskVars
    <2>2. TypeOK' /\ PhaseInv' /\ PlaceInv' /\ LayerInv' /\ StartedInv' /\ JudgedInv'
      BY <1>1, <2>1 DEF Inv, TypeOK, PhaseInv, PlaceInv, Placed, LayerInv, StartedInv, JudgedInv, Grounded,
                        Completed, vars, planVars, taskVars, reviewVars
    <2>3. MutatorsRunAlone' /\ SkippedBehindFailure' /\ CompletedByReview' /\ ResultsMatchTheirTask'
      BY <1>1, <2>1 DEF Inv, MutatorsRunAlone, SkippedBehindFailure, CompletedByReview,
                        ResultsMatchTheirTask, vars, planVars, taskVars, reviewVars
    <2> QED
      BY <2>2, <2>3 DEF Inv
  <1>2. CASE Planner
    BY <1>2, PlannerRefuses, NewPlan DEF Planner
  <1>3. CASE User \/ PlanReady
    BY <1>3, Approval
  <1>4. CASE Loop
    BY <1>4, NewLayer, Blocking, Approval DEF Loop
  <1>5. CASE Waves
    BY <1>5, BeginWave, JoinPlan, JoinTeam DEF Waves
  <1>6. CASE \E t \in Ids : Thread(t)
    BY <1>6, ThreadPreserves
  <1> QED
    BY <1>1, <1>2, <1>3, <1>4, <1>5, <1>6 DEF Next

(* The invariant holds in every state of every run. *)
THEOREM InvHolds == Spec => []Inv
  BY InitEstablishes, NextPreserves, PTL DEF Spec

(* Every variable keeps its type. *)
THEOREM TypeCorrect == Spec => []TypeOK
  <1>1. Inv => TypeOK
    BY DEF Inv
  <1> QED
    BY <1>1, InvHolds, PTL

(* A worker is started only with the results of all its dependencies, and  *)
(* they stay completed afterwards.                                         *)
THEOREM Dependencies == Spec => []DependenciesHold
  <1>1. Inv => DependenciesHold
    BY DEF Inv, StartedInv, DependenciesHold
  <1> QED
    BY <1>1, InvHolds, PTL

(* Tasks that may change the workspace never share a wave. *)
THEOREM MutatorsAlone == Spec => []MutatorsRunAlone
  <1>1. Inv => MutatorsRunAlone
    BY DEF Inv
  <1> QED
    BY <1>1, InvHolds, PTL

(* Only what waits behind a failure is skipped: the branch for a stuck     *)
(* plan is never taken.                                                    *)
THEOREM SkippedOnlyBehindFailure == Spec => []SkippedBehindFailure
  <1>1. Inv => SkippedBehindFailure
    BY DEF Inv
  <1> QED
    BY <1>1, InvHolds, PTL

(* Only an approval that has seen the changes completes a Team task. *)
THEOREM ReviewGates == Spec => []CompletedByReview
  <1>1. Inv => CompletedByReview
    BY DEF Inv
  <1> QED
    BY <1>1, InvHolds, PTL

(* What a replacement plan inherits was done as it is described there. *)
THEOREM InheritedResults == Spec => []ResultsMatchTheirTask
  <1>1. Inv => ResultsMatchTheirTask
    BY DEF Inv
  <1> QED
    BY <1>1, InvHolds, PTL

(* "A valid DAG should not reach this branch": as long as a task waits,    *)
(* something is ready or to be skipped.                                    *)
THEOREM NeverStuck ==
    Spec => [](phase = "dispatch" /\ ~IsFinished(plan, status) =>
                   Ready(plan, status) # {} \/ Blocked(plan, status) # {})
  <1>1. Inv => (phase = "dispatch" /\ ~IsFinished(plan, status) =>
                    Ready(plan, status) # {} \/ Blocked(plan, status) # {})
    BY NotStuck
  <1> QED
    BY <1>1, InvHolds, PTL

(* The search of the validator finds every cycle of the dependencies and   *)
(* nothing else, and the order, the layers and the waves of a plan are     *)
(* what their names promise.                                               *)
THEOREM SchedulesHold == Spec => []PlansAndSchedules
  <1>1. \A p \in Proposals : Validates(p) <=> IsDag(p) /\ \A t \in Members(p) : t \notin p.deps[t]
    BY ProposalShape, ValidatesIsExact
  <1>2. ASSUME Inv
        PROVE  /\ Shape(plan) /\ layer \in SUBSET Members(plan)
               /\ IsStableOrder(plan, TopologicalOrder(plan))
               /\ IsLayering(plan, ExecutionBatches(plan))
    <2>1. Shape(plan) /\ Acyclic(plan)
      BY <1>2, ProposalShape, ExecutedIsAcyclic DEF Inv, TypeOK, PhaseInv
    <2>2. layer \in SUBSET Members(plan)
      BY <1>2 DEF Inv, TypeOK
    <2> QED
      BY <2>1, <2>2, OrderIsStable, BatchesAreLayers
  <1>3. ASSUME Inv, layer # {}
        PROVE  ExecutionWaves(plan, layer, MaxWorkers)
               = <<NextTasks>> \o ExecutionWaves(plan, layer \ NextTasks, MaxWorkers)
    BY <1>2, <1>3, WavesOneByOne, PlanParameters DEF NextTasks
  <1>4. Inv => PlansAndSchedules
    BY <1>1, <1>2, <1>3 DEF PlansAndSchedules
  <1> QED
    BY <1>4, InvHolds, PTL
=============================================================================
