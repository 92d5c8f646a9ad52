------------------------------ MODULE DataLemmas ------------------------------
(* Facts about natural numbers, sequences, finite sets and recursive       *)
(* functions that the proofs of several modules rest on: induction over a  *)
(* set of numbers, the least and the greatest of some numbers, the elements *)
(* of sequences built from others, sums, and functions that are defined by *)
(* recursion on data of bounded rank.                                      *)
EXTENDS Naturals, Sequences, FiniteSets, Folds, FiniteSetTheorems, WellFoundedInduction, TLAPS

LEMMA LeastNatural ==
    ASSUME NEW T \in SUBSET Nat, T # {}
    PROVE  \E x \in T : \A y \in T : x <= y
<1> DEFINE R == {ss \in Nat \X Nat : ss[1] < ss[2]}
<1>1. IsWellFoundedOn(R, Nat)
    BY NatLessThanWellFounded DEF OpToRel
<1>2. \A x, y \in Nat : <<y, x>> \in R <=> y < x
    OBVIOUS
<1> HIDE DEF R
<1>3. PICK x \in T : \A y \in T : ~(<<y, x>> \in R)
    BY <1>1, WFMin
<1>4. \A y \in T : x <= y
  <2> TAKE y \in T
  <2>1. x \in Nat /\ y \in Nat /\ ~(<<y, x>> \in R)
      BY <1>3
  <2> QED BY <1>2, <2>1
<1> QED BY <1>4

LEMMA SetInduction ==
    ASSUME NEW S, 0 \in S, \A n \in Nat : n \in S => n + 1 \in S
    PROVE  Nat \subseteq S
<1> DEFINE T == Nat \ S
<1> SUFFICES ASSUME T # {} PROVE FALSE
    OBVIOUS
<1>1. PICK x \in T : \A y \in T : x <= y
    BY LeastNatural
<1>2. x # 0 /\ x - 1 \in Nat /\ (x - 1) + 1 = x
    BY <1>1
<1>3. x - 1 \in S
    BY <1>1, <1>2
<1> QED BY <1>1, <1>2, <1>3

LEMMA SeqElement ==
    ASSUME NEW S, NEW w \in Seq(S)
    PROVE  /\ Len(w) \in Nat /\ DOMAIN w = 1..Len(w)
           /\ \A i \in DOMAIN w : w[i] \in S
OBVIOUS

LEMMA SeqAppend ==
    ASSUME NEW S, NEW w \in Seq(S), NEW s \in S
    PROVE  /\ Append(w, s) \in Seq(S) /\ Len(Append(w, s)) = Len(w) + 1
           /\ DOMAIN Append(w, s) = 1..(Len(w) + 1)
           /\ \A i \in 1..Len(w) : Append(w, s)[i] = w[i]
           /\ Append(w, s)[Len(w) + 1] = s
           /\ w \o <<s>> = Append(w, s)
OBVIOUS

LEMMA ConcatElement ==
    ASSUME NEW S, NEW h \in Seq(S), NEW g \in Seq(S)
    PROVE  /\ h \o g \in Seq(S) /\ Len(h) \in Nat /\ Len(g) \in Nat
           /\ DOMAIN h = 1..Len(h) /\ DOMAIN g = 1..Len(g)
           /\ Len(h \o g) = Len(h) + Len(g) /\ DOMAIN (h \o g) = 1..(Len(h) + Len(g))
           /\ \A i \in DOMAIN h : (h \o g)[i] = h[i]
           /\ \A i \in DOMAIN g : (h \o g)[Len(h) + i] = g[i]
           /\ \A i \in DOMAIN (h \o g) : i \in DOMAIN h \/ \E j \in DOMAIN g : i = Len(h) + j
<1>1. /\ h \o g \in Seq(S) /\ Len(h) \in Nat /\ Len(g) \in Nat
      /\ DOMAIN h = 1..Len(h) /\ DOMAIN g = 1..Len(g)
      /\ Len(h \o g) = Len(h) + Len(g) /\ DOMAIN (h \o g) = 1..(Len(h) + Len(g))
    OBVIOUS
<1>2. \A i \in DOMAIN h : (h \o g)[i] = h[i]
    OBVIOUS
<1>3. \A i \in DOMAIN g : (h \o g)[Len(h) + i] = g[i]
    OBVIOUS
<1>4. ASSUME NEW i \in 1..(Len(h) + Len(g)), i \notin 1..Len(h)
      PROVE  i - Len(h) \in 1..Len(g) /\ i = Len(h) + (i - Len(h))
    BY <1>1, <1>4
<1> QED BY <1>1, <1>2, <1>3, <1>4

LEMMA GreatestNatural ==
    ASSUME NEW n \in Nat, NEW T \in SUBSET (0..n), T # {}
    PROVE  \E x \in T : \A y \in T : y <= x
<1> DEFINE R == {n - x : x \in T}
<1>1. \A x \in T : x \in Nat /\ n - x \in Nat
    OBVIOUS
<1>2. R \in SUBSET Nat /\ R # {}
    BY <1>1
<1>3. PICK r \in R : \A y \in R : r <= y
    BY <1>2, LeastNatural
<1>4. PICK x \in T : r = n - x
    BY <1>3
<1>5. \A y \in T : y <= x
  <2> TAKE y \in T
  <2>1. n - y \in R
      OBVIOUS
  <2>2. n - x <= n - y /\ x \in Nat /\ y \in Nat
    <3>1. r <= n - y
        BY <1>3, <2>1
    <3> QED BY <1>1, <1>4, <3>1
  <2> QED BY <2>2
<1> QED BY <1>5

\* The r-th largest element
LEMMA LargestOnes ==
    ASSUME NEW n \in Nat, NEW U \in SUBSET (0..n), NEW r \in Nat \ {0}, r <= Cardinality(U)
    PROVE  \E u \in U : Cardinality({v \in U : v >= u}) = r
<1> DEFINE Upper(u) == {v \in U : v >= u}
           P(m) == m + 1 <= Cardinality(U) => \E u \in U : Cardinality(Upper(u)) = m + 1
           S == {m \in Nat : P(m)}
<1>1. IsFiniteSet(U) /\ Cardinality(U) \in Nat
  <2>1. IsFiniteSet(0..n)
      BY FS_Interval
  <2> QED BY <2>1, FS_Subset, FS_CardinalityType
<1>2. P(0)
  <2>1. U # {}
      BY FS_EmptySet
  <2>2. PICK u \in U : \A v \in U : v <= u
      BY <2>1, GreatestNatural
  <2>3. Upper(u) = {u}
    <3>1. \A v \in U : v \in Nat
        OBVIOUS
    <3>2. \A v \in U : v >= u <=> v = u
        BY <2>2, <3>1
    <3> QED BY <3>2
  <2>4. Cardinality(Upper(u)) = 1
    <3> HIDE DEF Upper
    <3> QED BY <2>3, FS_Singleton
  <2> QED BY <2>4
<1>3. ASSUME NEW m \in Nat, P(m) PROVE P(m + 1)
  <2> SUFFICES ASSUME (m + 1) + 1 <= Cardinality(U)
               PROVE  \E u \in U : Cardinality(Upper(u)) = (m + 1) + 1
      OBVIOUS
  <2>1. PICK u \in U : Cardinality(Upper(u)) = m + 1
      BY <1>1, <1>3
  <2> DEFINE T == {v \in U : v < u}
  <2>2. T # {}
    <3> SUFFICES ASSUME T = {} PROVE FALSE
        OBVIOUS
    <3>1. \A v \in U : v \in Nat /\ ~(v < u)
        OBVIOUS
    <3>2. \A v \in U : v >= u
        BY <3>1
    <3>3. Upper(u) = U
        BY <3>2
    <3> HIDE DEF Upper
    <3> QED BY <1>1, <2>1, <3>3
  <2>3. T \in SUBSET (0..n)
      OBVIOUS
  <2>4. PICK w \in T : \A v \in T : v <= w
    <3> HIDE DEF T
    <3> QED BY <2>2, <2>3, GreatestNatural
  <2>5. Upper(w) = Upper(u) \cup {w} /\ w \notin Upper(u) /\ w \in U
    <3>1. w \in U /\ w < u /\ \A v \in U : v < u => v <= w
        BY <2>4
    <3>2. \A v \in U : v \in Nat
        OBVIOUS
    <3>3. \A v \in U : v >= w <=> v >= u \/ v = w
        BY <3>1, <3>2
    <3>4. ~(w >= u)
        BY <3>1, <3>2
    <3> QED BY <3>1, <3>3, <3>4
  <2>6. IsFiniteSet(Upper(u))
      BY <1>1, FS_Subset
  <2>7. Cardinality(Upper(w)) = (m + 1) + 1
    <3> HIDE DEF Upper
    <3> QED BY <2>1, <2>5, <2>6, FS_AddElement
  <2> QED BY <2>5, <2>7
<1> HIDE DEF P
<1>4. Nat \subseteq S
  <2>1. 0 \in S
      BY <1>2
  <2>2. \A m \in Nat : m \in S => m + 1 \in S
      BY <1>3
  <2> HIDE DEF S
  <2> QED BY <2>1, <2>2, SetInduction
<1>5. P(r - 1) /\ r - 1 \in Nat /\ (r - 1) + 1 = r
    BY <1>4
<1> QED BY <1>5 DEF P

LEMMA SubSeqElement ==
    ASSUME NEW S, NEW h \in Seq(S), NEW a \in Nat \ {0}, NEW b \in Nat, b <= Len(h), a <= b + 1
    PROVE  /\ SubSeq(h, a, b) \in Seq(S)
           /\ DOMAIN SubSeq(h, a, b) = 1..(b - a + 1)
           /\ \A i \in 1..(b - a + 1) : SubSeq(h, a, b)[i] = h[a + i - 1]
OBVIOUS

-----------------------------------------------------------------------------
(* The sum of a function over a finite set                                 *)

AnyOf(s) == CHOOSE x \in s : TRUE

SetSum(f, S) == MapThenFoldSet(+, 0, LAMBDA x : f[x], LAMBDA s : CHOOSE x \in s : TRUE, S)

\* A function of the subsets that adds one element after another
Adds(g, f, dom) ==
    \A s \in dom : g[s] = IF s = {} THEN 0 ELSE f[AnyOf(s)] + g[s \ {AnyOf(s)}]

Subsets(S, n) == {s \in SUBSET S : Cardinality(s) <= n}

LEMMA SubsetFacts ==
    ASSUME NEW S, IsFiniteSet(S), NEW s \in SUBSET S
    PROVE  /\ IsFiniteSet(s) /\ Cardinality(s) \in Nat /\ Cardinality(s) <= Cardinality(S)
           /\ s # {} => AnyOf(s) \in s
           /\ \A x \in s : s \ {x} \in SUBSET S /\ Cardinality(s \ {x}) = Cardinality(s) - 1
           /\ Cardinality(s) = 0 <=> s = {}
<1>1. IsFiniteSet(s) /\ Cardinality(s) <= Cardinality(S)
    BY FS_Subset
<1>2. Cardinality(s) \in Nat /\ (Cardinality(s) = 0 <=> s = {})
    BY <1>1, FS_CardinalityType, FS_EmptySet
<1>3. ASSUME NEW x \in s PROVE Cardinality(s \ {x}) = Cardinality(s) - 1
    BY <1>1, FS_RemoveElement
<1> QED BY <1>1, <1>2, <1>3 DEF AnyOf

LEMMA AddsStep ==
    ASSUME NEW S, IsFiniteSet(S), NEW f \in [S -> Nat], NEW n \in Nat,
           NEW g \in [Subsets(S, n) -> Nat], Adds(g, f, Subsets(S, n))
    PROVE  \E h \in [Subsets(S, n + 1) -> Nat] : Adds(h, f, Subsets(S, n + 1))
<1> DEFINE h == [s \in Subsets(S, n + 1) |->
                    IF s = {} THEN 0 ELSE f[AnyOf(s)] + g[s \ {AnyOf(s)}]]
<1>1. ASSUME NEW s \in Subsets(S, n + 1), s # {}
      PROVE  AnyOf(s) \in S /\ s \ {AnyOf(s)} \in Subsets(S, n) /\ f[AnyOf(s)] \in Nat
  <2>1. s \in SUBSET S /\ Cardinality(s) <= n + 1
      BY DEF Subsets
  <2>2. AnyOf(s) \in s /\ Cardinality(s) \in Nat
      BY <1>1, <2>1, SubsetFacts
  <2>3. s \ {AnyOf(s)} \in SUBSET S /\ Cardinality(s \ {AnyOf(s)}) = Cardinality(s) - 1
      BY <2>1, <2>2, SubsetFacts
  <2>4. Cardinality(s \ {AnyOf(s)}) <= n
      BY <2>1, <2>2, <2>3
  <2> QED BY <2>1, <2>2, <2>3, <2>4 DEF Subsets
<1>2. h \in [Subsets(S, n + 1) -> Nat]
    BY <1>1
<1>3. ASSUME NEW s \in Subsets(S, n) PROVE s \in Subsets(S, n + 1) /\ h[s] = g[s]
  <2>1. s \in SUBSET S /\ Cardinality(s) <= n
      BY DEF Subsets
  <2>2. Cardinality(s) <= n + 1
      BY <2>1, SubsetFacts
  <2>3. s \in Subsets(S, n + 1)
      BY <2>1, <2>2 DEF Subsets
  <2> QED BY <2>3 DEF Adds
<1>4. \A s \in Subsets(S, n + 1) :
          h[s] = IF s = {} THEN 0 ELSE f[AnyOf(s)] + h[s \ {AnyOf(s)}]
    BY <1>1, <1>3
<1> HIDE DEF h
<1> QED BY <1>2, <1>4 DEF Adds

LEMMA AddsExists ==
    ASSUME NEW S, IsFiniteSet(S), NEW f \in [S -> Nat]
    PROVE  \E g \in [SUBSET S -> Nat] : Adds(g, f, SUBSET S)
<1> DEFINE P(n) == \E g \in [Subsets(S, n) -> Nat] : Adds(g, f, Subsets(S, n))
           N == {n \in Nat : P(n)}
<1>1. P(0)
  <2>1. Subsets(S, 0) = {{}}
    <3>1. {} \in SUBSET S /\ Cardinality({}) = 0
        BY FS_EmptySet
    <3>2. \A s \in SUBSET S : Cardinality(s) <= 0 => s = {}
        BY SubsetFacts
    <3> QED BY <3>1, <3>2 DEF Subsets
  <2>2. [s \in {{}} |-> 0] \in [{{}} -> Nat] /\ Adds([s \in {{}} |-> 0], f, {{}})
      BY DEF Adds
  <2> QED BY <2>1, <2>2
<1>2. \A n \in Nat : P(n) => P(n + 1)
    BY AddsStep
<1> HIDE DEF P
<1>3. Nat \subseteq N
  <2>1. 0 \in N
      BY <1>1
  <2>2. \A n \in Nat : n \in N => n + 1 \in N
      BY <1>2
  <2> HIDE DEF N
  <2> QED BY <2>1, <2>2, SetInduction
<1>4. Cardinality(S) \in Nat
    BY FS_CardinalityType
<1>5. P(Cardinality(S))
    BY <1>3, <1>4
<1>6. Subsets(S, Cardinality(S)) = SUBSET S
    BY SubsetFacts DEF Subsets
<1> QED BY <1>5, <1>6 DEF P

LEMMA SumAdds ==
    ASSUME NEW S, IsFiniteSet(S), NEW f \in [S -> Nat]
    PROVE  \E g \in [SUBSET S -> Nat] : Adds(g, f, SUBSET S) /\ SetSum(f, S) = g[S]
<1> DEFINE Iterates(g) ==
               g = [s \in SUBSET S |-> IF s = {} THEN 0 ELSE f[AnyOf(s)] + g[s \ {AnyOf(s)}]]
           iter == CHOOSE g : Iterates(g)
<1>1. PICK g \in [SUBSET S -> Nat] : Adds(g, f, SUBSET S)
    BY AddsExists
<1>2. Iterates(g)
    BY <1>1 DEF Adds
<1>3. Iterates(iter)
    BY <1>2
<1>4. SetSum(f, S) = iter[S]
    BY DEF SetSum, MapThenFoldSet, AnyOf
<1> HIDE DEF iter
<1>5. DOMAIN iter = SUBSET S /\ Adds(iter, f, SUBSET S)
    BY <1>3 DEF Adds
<1>6. iter \in [SUBSET S -> Nat]
  <2> DEFINE P(n) == \A s \in Subsets(S, n) : iter[s] \in Nat
             N == {n \in Nat : P(n)}
  <2>0. {} \in SUBSET S /\ iter[{}] = 0
      BY <1>3
  <2>1. P(0)
    <3>1. \A s \in Subsets(S, 0) : s = {}
        BY SubsetFacts DEF Subsets
    <3>2. ASSUME NEW s \in Subsets(S, 0) PROVE iter[s] \in Nat
      <4>1. s = {}
          BY <3>1
      <4>2. iter[s] = 0
          BY <2>0, <4>1
      <4> QED BY <4>2
    <3> QED BY <3>2
  <2>2. ASSUME NEW n \in Nat, P(n), NEW s \in Subsets(S, n + 1) PROVE iter[s] \in Nat
    <3>1. s \in SUBSET S /\ Cardinality(s) <= n + 1
        BY DEF Subsets
    <3>2. CASE s = {}
        BY <2>0, <3>2
    <3>3. CASE s # {}
      <4>1. AnyOf(s) \in s /\ Cardinality(s) \in Nat
          BY <3>1, <3>3, SubsetFacts
      <4>2. s \ {AnyOf(s)} \in SUBSET S /\ Cardinality(s \ {AnyOf(s)}) = Cardinality(s) - 1
          BY <3>1, <4>1, SubsetFacts
      <4>3. s \ {AnyOf(s)} \in Subsets(S, n)
          BY <3>1, <4>1, <4>2 DEF Subsets
      <4>4. iter[s \ {AnyOf(s)}] \in Nat /\ f[AnyOf(s)] \in Nat
          BY <2>2, <3>1, <4>1, <4>3
      <4> QED BY <1>5, <3>1, <3>3, <4>4 DEF Adds
    <3> QED BY <3>2, <3>3
  <2>3. \A n \in Nat : P(n) => P(n + 1)
      BY <2>2
  <2> HIDE DEF P
  <2>4. Nat \subseteq N
    <3>1. 0 \in N
        BY <2>1
    <3>2. \A n \in Nat : n \in N => n + 1 \in N
        BY <2>3
    <3> HIDE DEF N
    <3> QED BY <3>1, <3>2, SetInduction
  <2>5. Cardinality(S) \in Nat /\ P(Cardinality(S))
      BY <2>4, FS_CardinalityType
  <2>6. \A s \in SUBSET S : s \in Subsets(S, Cardinality(S))
      BY SubsetFacts DEF Subsets
  <2>7. \A s \in SUBSET S : iter[s] \in Nat
      BY <2>5, <2>6 DEF P
  <2>8. iter = [s \in SUBSET S |-> iter[s]]
      BY <1>3
  <2> QED BY <2>7, <2>8
<1> QED BY <1>4, <1>5, <1>6

\* The order of the elements does not matter.
AddsInAnyOrder(g, f, S) == \A s \in SUBSET S : \A x \in s : g[s] = f[x] + g[s \ {x}]

LEMMA AddsAny ==
    ASSUME NEW S, IsFiniteSet(S), NEW f \in [S -> Nat], NEW g \in [SUBSET S -> Nat],
           Adds(g, f, SUBSET S)
    PROVE  AddsInAnyOrder(g, f, S)
<1> DEFINE P(n) == \A s \in Subsets(S, n) : \A x \in s : g[s] = f[x] + g[s \ {x}]
           N == {n \in Nat : P(n)}
<1>1. P(0)
  <2>1. \A s \in Subsets(S, 0) : s = {}
      BY SubsetFacts DEF Subsets
  <2> QED BY <2>1
<1>2. ASSUME NEW n \in Nat, P(n), NEW s \in Subsets(S, n + 1), NEW x \in s
      PROVE  g[s] = f[x] + g[s \ {x}]
  <2> DEFINE y == AnyOf(s)
  <2>1. s \in SUBSET S /\ Cardinality(s) <= n + 1
      BY DEF Subsets
  <2>2. y \in s /\ g[s] = f[y] + g[s \ {y}] /\ Cardinality(s) \in Nat
      BY <2>1, SubsetFacts DEF Adds
  <2> HIDE DEF y
  <2>3. CASE x = y
      BY <2>2, <2>3
  <2>4. CASE x # y
    <3>1. \A z \in s : s \ {z} \in Subsets(S, n)
      <4> TAKE z \in s
      <4>1. s \ {z} \in SUBSET S /\ Cardinality(s \ {z}) = Cardinality(s) - 1
          BY <2>1, SubsetFacts
      <4> QED BY <2>1, <2>2, <4>1 DEF Subsets
    <3>2. g[s \ {y}] = f[x] + g[(s \ {y}) \ {x}]
        BY <1>2, <2>2, <2>4, <3>1
    <3>3. g[s \ {x}] = f[y] + g[(s \ {x}) \ {y}]
        BY <1>2, <2>2, <2>4, <3>1
    <3>4. (s \ {y}) \ {x} = (s \ {x}) \ {y} /\ (s \ {y}) \ {x} \in SUBSET S
        BY <2>1
    <3> DEFINE rest == g[(s \ {x}) \ {y}]
    <3>5. f[x] \in Nat /\ f[y] \in Nat /\ rest \in Nat
        BY <2>1, <2>2, <3>4
    <3>6. g[s \ {y}] = f[x] + rest /\ g[s \ {x}] = f[y] + rest
        BY <3>2, <3>3, <3>4
    <3> HIDE DEF rest
    <3>7. \A a, b, c \in Nat : a + (b + c) = b + (a + c)
        OBVIOUS
    <3>8. f[y] + (f[x] + rest) = f[x] + (f[y] + rest)
        BY <3>5, <3>7
    <3> QED BY <2>2, <3>6, <3>8, Zenon
  <2> QED BY <2>3, <2>4
<1>3. \A n \in Nat : P(n) => P(n + 1)
    BY <1>2
<1> HIDE DEF P
<1>4. Nat \subseteq N
  <2>1. 0 \in N
      BY <1>1
  <2>2. \A n \in Nat : n \in N => n + 1 \in N
      BY <1>3
  <2> HIDE DEF N
  <2> QED BY <2>1, <2>2, SetInduction
<1>5. Cardinality(S) \in Nat /\ P(Cardinality(S))
    BY <1>4, FS_CardinalityType
<1>6. \A s \in SUBSET S : s \in Subsets(S, Cardinality(S))
    BY SubsetFacts DEF Subsets
<1> QED BY <1>5, <1>6 DEF P, AddsInAnyOrder

\* One value changes, and the sum by as much.
LEMMA SumUpdate ==
    ASSUME NEW S, IsFiniteSet(S), NEW f \in [S -> Nat], NEW e \in [S -> Nat], NEW h \in S,
           \A x \in S \ {h} : e[x] = f[x]
    PROVE  /\ SetSum(f, S) \in Nat /\ SetSum(e, S) \in Nat
           /\ SetSum(e, S) + f[h] = SetSum(f, S) + e[h]
<1>1. PICK g \in [SUBSET S -> Nat] : Adds(g, f, SUBSET S) /\ SetSum(f, S) = g[S]
    BY SumAdds
<1>2. PICK k \in [SUBSET S -> Nat] : Adds(k, e, SUBSET S) /\ SetSum(e, S) = k[S]
    BY SumAdds
<1>0. S \in SUBSET S
    OBVIOUS
<1>3. g[S] = f[h] + g[S \ {h}]
  <2>1. AddsInAnyOrder(g, f, S)
      BY <1>1, AddsAny, Zenon
  <2> QED BY <1>0, <2>1 DEF AddsInAnyOrder
<1>4. k[S] = e[h] + k[S \ {h}]
  <2>1. AddsInAnyOrder(k, e, S)
      BY <1>2, AddsAny, Zenon
  <2> QED BY <1>0, <2>1 DEF AddsInAnyOrder
<1>5. k[S \ {h}] = g[S \ {h}]
  <2> DEFINE P(n) == \A s \in Subsets(S \ {h}, n) : k[s] = g[s]
             N == {n \in Nat : P(n)}
  <2>0. IsFiniteSet(S \ {h})
      BY FS_Subset
  <2>1. P(0)
    <3>1. \A s \in Subsets(S \ {h}, 0) : s = {}
        BY <2>0, SubsetFacts DEF Subsets
    <3>2. k[{}] = 0 /\ g[{}] = 0
        BY <1>1, <1>2 DEF Adds
    <3> QED BY <3>1, <3>2
  <2>2. ASSUME NEW n \in Nat, P(n), NEW s \in Subsets(S \ {h}, n + 1) PROVE k[s] = g[s]
    <3>1. s \in SUBSET (S \ {h}) /\ s \in SUBSET S /\ Cardinality(s) <= n + 1
        BY DEF Subsets
    <3>2. CASE s = {}
        BY <1>1, <1>2, <3>1, <3>2 DEF Adds
    <3>3. CASE s # {}
      <4>1. AnyOf(s) \in s /\ Cardinality(s) \in Nat
          BY <3>1, <3>3, SubsetFacts
      <4>2. s \ {AnyOf(s)} \in SUBSET (S \ {h}) /\ Cardinality(s \ {AnyOf(s)}) = Cardinality(s) - 1
          BY <2>0, <3>1, <4>1, SubsetFacts
      <4>3. s \ {AnyOf(s)} \in Subsets(S \ {h}, n)
          BY <3>1, <4>1, <4>2 DEF Subsets
      <4>4. k[s \ {AnyOf(s)}] = g[s \ {AnyOf(s)}] /\ e[AnyOf(s)] = f[AnyOf(s)]
          BY <2>2, <3>1, <4>1, <4>3
      <4> QED BY <1>1, <1>2, <3>1, <3>3, <4>4 DEF Adds
    <3> QED BY <3>2, <3>3
  <2>3. \A n \in Nat : P(n) => P(n + 1)
      BY <2>2
  <2> HIDE DEF P
  <2>4. Nat \subseteq N
    <3>1. 0 \in N
        BY <2>1
    <3>2. \A n \in Nat : n \in N => n + 1 \in N
        BY <2>3
    <3> HIDE DEF N
    <3> QED BY <3>1, <3>2, SetInduction
  <2>5. Cardinality(S \ {h}) \in Nat /\ P(Cardinality(S \ {h}))
      BY <2>0, <2>4, FS_CardinalityType
  <2>6. S \ {h} \in Subsets(S \ {h}, Cardinality(S \ {h}))
      BY <2>0, SubsetFacts DEF Subsets
  <2> QED BY <2>5, <2>6 DEF P
<1>6. f[h] \in Nat /\ e[h] \in Nat /\ g[S \ {h}] \in Nat /\ S \ {h} \in SUBSET S
    OBVIOUS
<1> QED BY <1>1, <1>2, <1>3, <1>4, <1>5, <1>6

LEMMA SumZero ==
    ASSUME NEW S, IsFiniteSet(S), NEW f \in [S -> Nat], \A x \in S : f[x] = 0
    PROVE  SetSum(f, S) = 0
<1>1. PICK g \in [SUBSET S -> Nat] : Adds(g, f, SUBSET S) /\ SetSum(f, S) = g[S]
    BY SumAdds
<1> DEFINE P(n) == \A s \in Subsets(S, n) : g[s] = 0
           N == {n \in Nat : P(n)}
<1>2. P(0)
  <2>1. \A s \in Subsets(S, 0) : s = {}
      BY SubsetFacts DEF Subsets
  <2> QED BY <1>1, <2>1 DEF Adds
<1>3. ASSUME NEW n \in Nat, P(n), NEW s \in Subsets(S, n + 1) PROVE g[s] = 0
  <2>1. s \in SUBSET S /\ Cardinality(s) <= n + 1
      BY DEF Subsets
  <2>2. CASE s = {}
      BY <1>1, <2>1, <2>2 DEF Adds
  <2>3. CASE s # {}
    <3>1. AnyOf(s) \in s /\ Cardinality(s) \in Nat
        BY <2>1, <2>3, SubsetFacts
    <3>2. s \ {AnyOf(s)} \in SUBSET S /\ Cardinality(s \ {AnyOf(s)}) = Cardinality(s) - 1
        BY <2>1, <3>1, SubsetFacts
    <3>3. s \ {AnyOf(s)} \in Subsets(S, n)
        BY <2>1, <3>1, <3>2 DEF Subsets
    <3>4. g[s \ {AnyOf(s)}] = 0 /\ f[AnyOf(s)] = 0
        BY <1>3, <2>1, <3>1, <3>3
    <3> QED BY <1>1, <2>1, <2>3, <3>4 DEF Adds
  <2> QED BY <2>2, <2>3
<1>4. \A n \in Nat : P(n) => P(n + 1)
    BY <1>3
<1> HIDE DEF P
<1>5. Nat \subseteq N
  <2>1. 0 \in N
      BY <1>2
  <2>2. \A n \in Nat : n \in N => n + 1 \in N
      BY <1>4
  <2> HIDE DEF N
  <2> QED BY <2>1, <2>2, SetInduction
<1>6. Cardinality(S) \in Nat /\ P(Cardinality(S))
    BY <1>5, FS_CardinalityType
<1>7. S \in Subsets(S, Cardinality(S))
    BY SubsetFacts DEF Subsets
<1> QED BY <1>1, <1>6, <1>7 DEF P

-----------------------------------------------------------------------------
(* Tuples *)

LEMMA PairFacts ==
    ASSUME NEW A, NEW B
    PROVE  /\ \A c \in A \X B : c[1] \in A /\ c[2] \in B /\ c = <<c[1], c[2]>>
           /\ \A a \in A, b \in B : <<a, b>> \in A \X B /\ <<a, b>>[1] = a /\ <<a, b>>[2] = b
  OBVIOUS

LEMMA TripleFacts ==
    ASSUME NEW A, NEW B, NEW C
    PROVE  /\ \A c \in A \X B \X C : c[1] \in A /\ c[2] \in B /\ c[3] \in C /\ c = <<c[1], c[2], c[3]>>
           /\ \A x \in A, y \in B, z \in C :
                 /\ <<x, y, z>> \in A \X B \X C
                 /\ <<x, y, z>>[1] = x /\ <<x, y, z>>[2] = y /\ <<x, y, z>>[3] = z
  OBVIOUS

-----------------------------------------------------------------------------
(* What <<x>> \o s and other short concatenations are *)

IsCons(w, x, s, S) ==
    /\ w \in Seq(S) /\ Len(s) \in Nat /\ Len(w) = Len(s) + 1
    /\ DOMAIN s = 1..Len(s) /\ DOMAIN w = 1..(Len(s) + 1)
    /\ w[1] = x
    /\ \A i \in DOMAIN s : w[i + 1] = s[i]
    /\ \A i \in DOMAIN w : i = 1 \/ \E j \in DOMAIN s : i = j + 1

LEMMA Cons ==
    ASSUME NEW S, NEW x \in S, NEW s \in Seq(S)
    PROVE  IsCons(<<x>> \o s, x, s, S)
  <1>1. <<x>> \in Seq(S) /\ Len(<<x>>) = 1 /\ <<x>>[1] = x /\ DOMAIN <<x>> = 1..1
    OBVIOUS
  <1>2. /\ <<x>> \o s \in Seq(S) /\ Len(s) \in Nat /\ Len(<<x>> \o s) = 1 + Len(s)
        /\ DOMAIN s = 1..Len(s) /\ DOMAIN (<<x>> \o s) = 1..(1 + Len(s))
        /\ \A i \in 1..1 : (<<x>> \o s)[i] = <<x>>[i]
        /\ \A i \in DOMAIN s : (<<x>> \o s)[1 + i] = s[i]
    BY <1>1, ConcatElement
  <1>3. ASSUME NEW i \in 1..(Len(s) + 1), i # 1 PROVE \E j \in 1..Len(s) : i = j + 1
    <2>1. i - 1 \in 1..Len(s) /\ i = (i - 1) + 1
      BY <1>2, <1>3
    <2> QED
      BY <2>1
  <1> QED
    BY <1>1, <1>2, <1>3 DEF IsCons

LEMMA ShortSequences ==
    ASSUME NEW A, NEW a \in A PROVE <<>> \in Seq(A) /\ <<a>> \in Seq(A)
  OBVIOUS

LEMMA ConcatTypes ==
    ASSUME NEW A, NEW a \in A, NEW b \in A, NEW s \in Seq(A)
    PROVE  /\ <<>> \o s = s /\ <<a>> \o <<>> = <<a>>
           /\ (<<a>> \o <<b>>) \o s = <<a>> \o (<<b>> \o s)
           /\ (<<>> \o <<b>>) \o s = <<b>> \o s
  OBVIOUS

-----------------------------------------------------------------------------
(* Recursion over data of bounded rank *)

\* Every element has a rank, and there is a greatest rank.
Ranked(rank, D) == \E N \in Nat : rank \in [D -> 0..N]

\* What holds of all elements of lower rank holds of the element.
Inductive(T, D, rank) == \A x \in D : (\A y \in D : rank[y] < rank[x] => y \in T) => x \in T

\* Induction on the rank: it holds of all elements then.
LEMMA RankInduction ==
    ASSUME NEW D, NEW rank, Ranked(rank, D), NEW T, Inductive(T, D, rank)
    PROVE  D \subseteq T
<1>1. PICK N \in Nat : rank \in [D -> 0..N]
    BY DEF Ranked
<1> SUFFICES ASSUME D \ T # {} PROVE FALSE
    OBVIOUS
<1> DEFINE bad == {rank[x] : x \in D \ T}
<1>2. bad \in SUBSET Nat /\ bad # {}
    BY <1>1
<1>3. PICK r \in bad : \A s \in bad : r <= s
    BY <1>2, LeastNatural
<1>4. PICK x \in D \ T : rank[x] = r
    BY <1>3
<1>5. ASSUME NEW y \in D, rank[y] < rank[x] PROVE y \in T
  <2>1. rank[y] \in Nat /\ rank[x] \in Nat /\ ~(rank[x] <= rank[y])
      BY <1>1, <1>5
  <2>2. rank[y] \notin bad
      BY <1>3, <1>4, <2>1
  <2> QED BY <2>2
<1> QED BY <1>4, <1>5 DEF Inductive

\* The value at an element depends on elements of lower rank only.
Descends(G, D, R, rank) ==
    \A h, k \in [D -> R] : \A x \in D :
        (\A y \in D : rank[y] < rank[x] => h[y] = k[y]) => G[h][x] = G[k][x]

Functional(G, D, R) == R # {} /\ G \in [[D -> R] -> [D -> R]]
FixedPoint(h, G, D, R) == h \in [D -> R] /\ h = G[h]

\* Recursion: such a functional has a fixed point.
LEMMA Recursion ==
    ASSUME NEW D, NEW R, NEW rank, Ranked(rank, D),
           NEW G, Functional(G, D, R), Descends(G, D, R, rank)
    PROVE  \E h : FixedPoint(h, G, D, R)
<1>a. R # {} /\ G \in [[D -> R] -> [D -> R]]
    BY DEF Functional
<1>0. PICK N \in Nat : rank \in [D -> 0..N]
    BY DEF Ranked
<1> DEFINE P(n) == \E h \in [D -> R] : \A x \in D : rank[x] < n => h[x] = G[h][x]
           S == {n \in Nat : P(n)}
<1>1. P(0)
  <2>1. PICK start \in R : TRUE
      BY <1>a
  <2>2. [x \in D |-> start] \in [D -> R] /\ \A x \in D : ~(rank[x] < 0)
      BY <1>0
  <2> QED BY <2>2
<1>2. ASSUME NEW n \in Nat, P(n) PROVE P(n + 1)
  <2>1. PICK h \in [D -> R] : \A x \in D : rank[x] < n => h[x] = G[h][x]
      BY <1>2
  <2> DEFINE k == G[h]
  <2>2. k \in [D -> R]
      BY <1>a
  <2>3. ASSUME NEW x \in D, rank[x] < n + 1 PROVE k[x] = G[k][x]
    <3>1. \A y \in D : rank[y] < rank[x] => h[y] = k[y]
        BY <1>0, <2>1, <2>3
    <3> HIDE DEF k
    <3>2. G[h][x] = G[k][x]
        BY <2>2, <3>1 DEF Descends
    <3> QED BY <3>2 DEF k
  <2> QED BY <2>2, <2>3
<1> HIDE DEF P
<1>3. Nat \subseteq S
  <2>1. 0 \in S
      BY <1>1
  <2>2. \A n \in Nat : n \in S => n + 1 \in S
      BY <1>2
  <2> HIDE DEF S
  <2> QED BY <2>1, <2>2, SetInduction
<1>4. P(N + 1)
    BY <1>3
<1>5. PICK h \in [D -> R] : \A x \in D : rank[x] < N + 1 => h[x] = G[h][x]
    BY <1>4 DEF P
<1>6. \A x \in D : h[x] = G[h][x]
    BY <1>0, <1>5
<1>7. G[h] \in [D -> R]
    BY <1>a
<1>8. h = G[h]
    BY <1>6, <1>7
<1> QED BY <1>8 DEF FixedPoint

-----------------------------------------------------------------------------
(* Ranks of the subsets of a finite set                                    *)

\* What a set still lacks
Lacks(S) == [s \in SUBSET S |-> Cardinality(S \ s)]

LEMMA LacksFacts ==
    ASSUME NEW S, IsFiniteSet(S)
    PROVE  /\ Ranked(Lacks(S), SUBSET S)
           /\ \A s, t \in SUBSET S : s \subseteq t /\ s # t => Lacks(S)[t] < Lacks(S)[s]
<1>1. Cardinality(S) \in Nat
    BY FS_CardinalityType
<1>2. ASSUME NEW s \in SUBSET S
      PROVE  Cardinality(S \ s) \in Nat /\ Cardinality(S \ s) <= Cardinality(S)
    BY SubsetFacts
<1>3. ASSUME NEW s \in SUBSET S, NEW t \in SUBSET S, s \subseteq t, s # t
      PROVE  Cardinality(S \ t) < Cardinality(S \ s)
  <2>1. S \ t \subseteq S \ s /\ S \ t # S \ s /\ IsFiniteSet(S \ s)
      BY <1>3, FS_Subset
  <2>2. Cardinality(S \ t) <= Cardinality(S \ s) /\ Cardinality(S \ t) # Cardinality(S \ s)
      BY <2>1, FS_Subset
  <2> QED BY <1>2, <2>2
<1>4. \A s \in SUBSET S : Lacks(S)[s] = Cardinality(S \ s)
    BY DEF Lacks
<1>5. \A s \in SUBSET S : Lacks(S)[s] \in 0..Cardinality(S)
  <2> TAKE s \in SUBSET S
  <2>1. Lacks(S)[s] \in Nat /\ Lacks(S)[s] <= Cardinality(S)
      BY <1>2, <1>4
  <2> QED BY <1>1, <2>1
<1>6. Lacks(S) \in [SUBSET S -> 0..Cardinality(S)]
    BY <1>5 DEF Lacks
<1>7. Ranked(Lacks(S), SUBSET S)
    BY <1>1, <1>6 DEF Ranked
<1> QED BY <1>3, <1>4, <1>7

\* How many elements a set has
Sizes(S) == [s \in SUBSET S |-> Cardinality(s)]

LEMMA SizesFacts ==
    ASSUME NEW S, IsFiniteSet(S)
    PROVE  /\ Ranked(Sizes(S), SUBSET S)
           /\ \A s \in SUBSET S : \A x \in s : Sizes(S)[s \ {x}] < Sizes(S)[s]
           /\ \A s \in SUBSET S : s # {} => AnyOf(s) \in s
  <1>1. Cardinality(S) \in Nat
    BY FS_CardinalityType
  <1>2. ASSUME NEW s \in SUBSET S
        PROVE  /\ Cardinality(s) \in Nat /\ Cardinality(s) <= Cardinality(S)
               /\ s # {} => AnyOf(s) \in s
               /\ \A x \in s : Cardinality(s \ {x}) = Cardinality(s) - 1
    BY SubsetFacts
  <1>3. \A s \in SUBSET S : Sizes(S)[s] = Cardinality(s)
    BY DEF Sizes
  <1>4. \A s \in SUBSET S : Sizes(S)[s] \in 0..Cardinality(S)
    <2> TAKE s \in SUBSET S
    <2>1. Sizes(S)[s] \in Nat /\ Sizes(S)[s] <= Cardinality(S)
      BY <1>2, <1>3
    <2> QED
      BY <1>1, <2>1
  <1>5. Ranked(Sizes(S), SUBSET S)
    <2>1. Sizes(S) \in [SUBSET S -> 0..Cardinality(S)]
      BY <1>4 DEF Sizes
    <2> QED
      BY <1>1, <2>1 DEF Ranked
  <1>6. ASSUME NEW s \in SUBSET S, NEW x \in s PROVE Sizes(S)[s \ {x}] < Sizes(S)[s]
    <2>1. s \ {x} \in SUBSET S
      OBVIOUS
    <2>2. Sizes(S)[s \ {x}] = Cardinality(s \ {x}) /\ Sizes(S)[s] = Cardinality(s)
      BY <1>3, <2>1
    <2> QED
      BY <1>2, <2>2
  <1> QED
    BY <1>2, <1>5, <1>6
=============================================================================
