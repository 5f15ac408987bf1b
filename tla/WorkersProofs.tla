---------------------------- MODULE WorkersProofs ----------------------------
(***************************************************************************)
(* What holds of remote execution and of the data caches for any number of *)
(* workers, queries and objects, any sizes and any cap: who is tried and    *)
(* what the load counters count, and that a cache's byte count and its     *)
(* files agree with its items.                                             *)
(***************************************************************************)
EXTENDS Workers, FiniteSetTheorems, SequenceTheorems, TLAPS

-------------------------------------------------------------------------------
(* Sums over finite sets                                                    *)

\* Of a set of subsets of a finite set one has no other below it: induction, for the
\* provers to instantiate.
LEMMA MinimalSubset ==
    ASSUME NEW S, IsFiniteSet(S), NEW B \in SUBSET (SUBSET S), B # {}
    PROVE  \E U \in B : \A V \in SUBSET U : V # U => V \notin B
<1>1. FiniteSubsetsOf(S) = SUBSET S
  BY FS_FiniteSubsetsOfFinite
<1>2. IsWellFoundedOn(StrictSubsetOrdering(S), SUBSET S)
  BY <1>1, FS_StrictSubsetOrderingWellFounded
<1>3. PICK U \in B : \A V \in B : <<V, U>> \notin StrictSubsetOrdering(S)
  BY <1>2, WFMin
<1>4. ASSUME NEW V \in SUBSET U, V # U, V \in B
      PROVE  FALSE
  BY <1>3, <1>4 DEF StrictSubsetOrdering
<1> QED BY <1>4

Some(s) == CHOOSE x \in s : TRUE

SumStep(f, g, s) == IF s = {} THEN 0 ELSE f[Some(s)] + g[s \ {Some(s)}]

IsSum(f, g, S) == g = [s \in SUBSET S |-> SumStep(f, g, s)]

LEMMA SomeIn == \A s : s # {} => Some(s) \in s
BY DEF Some

LEMMA SumUnique ==
    ASSUME NEW S, IsFiniteSet(S), NEW f, NEW g, IsSum(f, g, S), NEW T \in SUBSET S,
           NEW h, IsSum(f, h, T)
    PROVE  \A U \in SUBSET T : g[U] = h[U]
<1> DEFINE B == {U \in SUBSET T : g[U] # h[U]}
<1> SUFFICES ASSUME B # {} PROVE FALSE
  OBVIOUS
<1>1. PICK U \in B : \A V \in SUBSET U : V # U => V \notin B
  <2>1. B \in SUBSET (SUBSET S)
    OBVIOUS
  <2> HIDE DEF B
  <2> QED BY <2>1, MinimalSubset
<1>2. U \in SUBSET S /\ U \in SUBSET T /\ g[U] # h[U]
  OBVIOUS
<1>3. g[U] = SumStep(f, g, U) /\ h[U] = SumStep(f, h, U)
  BY <1>2 DEF IsSum
<1>4. U # {}
  BY <1>2, <1>3 DEF SumStep
<1>5. g[U \ {Some(U)}] = h[U \ {Some(U)}]
  BY <1>1, <1>2, <1>4, SomeIn
<1> QED BY <1>2, <1>3, <1>5 DEF SumStep

LEMMA SumExists ==
    ASSUME NEW f, NEW S, IsFiniteSet(S)
    PROVE  \E g : IsSum(f, g, S)
<1> DEFINE B == {U \in SUBSET S : ~\E g : IsSum(f, g, U)}
<1> SUFFICES ASSUME B # {} PROVE FALSE
  OBVIOUS
<1>1. PICK U \in B : \A V \in SUBSET U : V # U => V \notin B
  <2>1. B \in SUBSET (SUBSET S)
    OBVIOUS
  <2> HIDE DEF B
  <2> QED BY <2>1, MinimalSubset
<1>2. U \in SUBSET S /\ (\A g : ~IsSum(f, g, U)) /\ IsFiniteSet(U)
  BY FS_Subset
<1> DEFINE sum(V) == CHOOSE g : IsSum(f, g, V)
           below == [V \in SUBSET U |-> sum(V)[V]]
           g == [V \in SUBSET U |-> IF V = U THEN SumStep(f, below, U) ELSE sum(V)[V]]
<1>3. \A V \in SUBSET U : V # U => IsSum(f, sum(V), V)
  BY <1>1, <1>2
<1> HIDE DEF sum, B
<1>4. ASSUME NEW V \in SUBSET U
      PROVE  g[V] = SumStep(f, g, V)
  <2>1. CASE V = U
    BY <2>1, SomeIn DEF SumStep
  <2>2. CASE V # U
    <3>1. g[V] = SumStep(f, sum(V), V)
      BY <1>3, <2>2 DEF IsSum
    <3>2. CASE V = {}
      BY <3>1, <3>2 DEF SumStep
    <3>3. CASE V # {}
      <4> DEFINE W == V \ {Some(V)}
      <4>1. W \in SUBSET V /\ W # U /\ W \in SUBSET U /\ IsFiniteSet(V)
        BY <1>2, <3>3, SomeIn, FS_Subset
      <4> HIDE DEF W
      <4>2. sum(V)[W] = sum(W)[W]
        BY <1>3, <2>2, <4>1, SumUnique
      <4>3. g[W] = sum(W)[W]
        BY <4>1
      <4> HIDE DEF g
      <4> QED BY <3>1, <3>3, <4>2, <4>3 DEF SumStep, W
    <3> QED BY <3>2, <3>3
  <2> QED BY <2>1, <2>2
<1>5. IsSum(f, g, U)
  <2>1. g = [V \in SUBSET U |-> g[V]]
    OBVIOUS
  <2> HIDE DEF g
  <2> QED BY <1>4, <2>1 DEF IsSum
<1> QED BY <1>2, <1>5

LEMMA SumRecursion ==
    ASSUME NEW f, NEW S, IsFiniteSet(S)
    PROVE  \E g : IsSum(f, g, S) /\ \A T \in SUBSET S : SumFunctionOnSet(f, T) = g[T]
<1>1. PICK g : IsSum(f, g, S)
  BY SumExists
<1>2. ASSUME NEW T \in SUBSET S
      PROVE  SumFunctionOnSet(f, T) = g[T]
  <2> DEFINE h == CHOOSE k : k = [s \in SUBSET T |-> SumStep(f, k, s)]
  <2>1. SumFunctionOnSet(f, T) = h[T]
    BY DEF SumFunctionOnSet, FoldFunctionOnSet, MapThenFoldSet, SumStep, Some
  <2>2. IsSum(f, h, T)
    <3>1. \E k : IsSum(f, k, T)
      BY SumExists, FS_Subset
    <3> QED BY <3>1 DEF IsSum
  <2> HIDE DEF h
  <2> QED BY <1>1, <2>1, <2>2, SumUnique
<1> QED BY <1>1, <1>2

LEMMA SumOfNone == \A f : SumFunctionOnSet(f, {}) = 0
<1> TAKE f
<1>1. PICK g : IsSum(f, g, {}) /\ \A T \in SUBSET {} : SumFunctionOnSet(f, T) = g[T]
  BY FS_EmptySet, SumRecursion
<1> QED BY <1>1 DEF IsSum, SumStep

\* The order in which the fold takes the members does not matter.
LEMMA SumOfMember ==
    ASSUME NEW S, IsFiniteSet(S), NEW f \in [S -> Int]
    PROVE  \A T \in SUBSET S : /\ SumFunctionOnSet(f, T) \in Int
                               /\ \A x \in T : SumFunctionOnSet(f, T)
                                                 = f[x] + SumFunctionOnSet(f, T \ {x})
<1> DEFINE Good(T) == /\ SumFunctionOnSet(f, T) \in Int
                      /\ \A x \in T : SumFunctionOnSet(f, T) = f[x] + SumFunctionOnSet(f, T \ {x})
           B == {T \in SUBSET S : ~Good(T)}
<1> SUFFICES ASSUME B # {} PROVE FALSE
  OBVIOUS
<1>1. PICK g : IsSum(f, g, S) /\ \A T \in SUBSET S : SumFunctionOnSet(f, T) = g[T]
  BY SumRecursion
<1>2. PICK T \in B : \A V \in SUBSET T : V # T => V \notin B
  <2>1. B \in SUBSET (SUBSET S)
    OBVIOUS
  <2> HIDE DEF B
  <2> QED BY <2>1, MinimalSubset
<1>3. T \in SUBSET S /\ ~Good(T) /\ \A V \in SUBSET T : V # T => Good(V)
  BY <1>2
<1>4. T # {}
  <2>1. SumFunctionOnSet(f, {}) = 0
    BY SumOfNone
  <2>2. Good({})
    BY <2>1
  <2> HIDE DEF Good, B
  <2> QED BY <1>3, <2>2
<1> DEFINE c == Some(T)
           Sum(U) == SumFunctionOnSet(f, U)
<1>5. c \in T /\ f[c] \in Int
  BY <1>3, <1>4, SomeIn
<1>6. Sum(T) = f[c] + Sum(T \ {c})
  <2>1. g[T] = SumStep(f, g, T) /\ T \ {c} \in SUBSET S
    BY <1>1, <1>3 DEF IsSum
  <2>2. Sum(T) = g[T] /\ Sum(T \ {c}) = g[T \ {c}]
    BY <1>1, <1>3, <2>1
  <2> HIDE DEF Sum, B, Good
  <2> QED BY <1>4, <2>1, <2>2 DEF SumStep
<1>7. \A V \in SUBSET T : V # T => Sum(V) \in Int /\ \A x \in V : Sum(V) = f[x] + Sum(V \ {x})
  BY <1>3
<1> HIDE DEF B, c, Sum
<1>8. Sum(T) \in Int
  BY <1>5, <1>6, <1>7
<1>9. ASSUME NEW x \in T
      PROVE  Sum(T) = f[x] + Sum(T \ {x})
  <2>1. CASE x = c
    BY <1>6, <2>1
  <2>2. CASE x # c
    <3> DEFINE R == T \ {c, x}
    <3>1. (T \ {c}) \ {x} = R /\ (T \ {x}) \ {c} = R /\ R \in SUBSET T /\ R # T
      BY <1>5
    <3> HIDE DEF R
    <3>2. Sum(T \ {c}) = f[x] + Sum(R)
      BY <1>5, <1>7, <2>2, <3>1
    <3>3. Sum(T \ {x}) = f[c] + Sum(R)
      BY <1>5, <1>7, <2>2, <3>1
    <3>4. f[x] \in Int /\ Sum(R) \in Int
      BY <1>3, <1>7, <3>1
    <3> QED BY <1>5, <1>6, <3>2, <3>3, <3>4
  <2> QED BY <2>1, <2>2
<1> QED BY <1>3, <1>8, <1>9 DEF Sum

\* A sum over a set is that over a part of it and that over the rest.
LEMMA SumOfParts ==
    ASSUME NEW S, IsFiniteSet(S), NEW f \in [S -> Int], NEW T \in SUBSET S
    PROVE  \A U \in SUBSET T :
               SumFunctionOnSet(f, T) = SumFunctionOnSet(f, U) + SumFunctionOnSet(f, T \ U)
<1> DEFINE Sum(U) == SumFunctionOnSet(f, U)
           B == {U \in SUBSET T : Sum(T) # Sum(U) + Sum(T \ U)}
<1> SUFFICES ASSUME B # {} PROVE FALSE
  OBVIOUS
<1>1. PICK U \in B : \A V \in SUBSET U : V # U => V \notin B
  <2>1. B \in SUBSET (SUBSET S)
    OBVIOUS
  <2> HIDE DEF B
  <2> QED BY <2>1, MinimalSubset
<1>2. \A V \in SUBSET S : Sum(V) \in Int /\ \A x \in V : Sum(V) = f[x] + Sum(V \ {x})
  BY SumOfMember
<1>3. Sum({}) = 0
  BY SumOfNone
<1>4. U \in SUBSET T /\ Sum(T) # Sum(U) + Sum(T \ U)
  OBVIOUS
<1>5. \A V \in SUBSET U : V # U => Sum(T) = Sum(V) + Sum(T \ V)
  BY <1>1
<1> HIDE DEF B, Sum
<1>6. U # {}
  <2> SUFFICES ASSUME U = {} PROVE FALSE
    OBVIOUS
  <2>1. T \ U = T /\ Sum(U) = 0 /\ Sum(T) \in Int
    BY <1>2, <1>3
  <2> QED BY <1>4, <2>1
<1>7. PICK x \in U : TRUE
  BY <1>6
<1> DEFINE V == U \ {x}
<1>8. Sum(T) = Sum(V) + Sum(T \ V)
  BY <1>5
<1>9. (T \ V) \ {x} = T \ U /\ x \in T \ V
  BY <1>4
<1>10. V \in SUBSET S /\ T \ V \in SUBSET S /\ T \ U \in SUBSET S /\ U \in SUBSET S
  BY <1>4
<1>11. Sum(U) = f[x] + Sum(V)
  BY <1>2, <1>10
<1>12. Sum(T \ V) = f[x] + Sum(T \ U)
  <2> DEFINE R == T \ V
  <2>1. R \in SUBSET S /\ x \in R /\ R \ {x} = T \ U
    BY <1>9, <1>10
  <2> HIDE DEF R
  <2>2. Sum(R) = f[x] + Sum(R \ {x})
    BY <1>2, <2>1
  <2> QED BY <2>1, <2>2 DEF R
<1>13. f[x] \in Int /\ Sum(V) \in Int /\ Sum(T \ U) \in Int
  BY <1>2, <1>10
<1> QED BY <1>4, <1>8, <1>11, <1>12, <1>13

LEMMA SumNonNegative ==
    ASSUME NEW S, IsFiniteSet(S), NEW f \in [S -> Nat]
    PROVE  \A T \in SUBSET S : SumFunctionOnSet(f, T) \in Nat
<1> DEFINE B == {T \in SUBSET S : SumFunctionOnSet(f, T) \notin Nat}
<1> SUFFICES ASSUME B # {} PROVE FALSE
  OBVIOUS
<1>1. PICK T \in B : \A V \in SUBSET T : V # T => V \notin B
  <2>1. B \in SUBSET (SUBSET S)
    OBVIOUS
  <2> HIDE DEF B
  <2> QED BY <2>1, MinimalSubset
<1>2. T # {}
  <2>1. SumFunctionOnSet(f, {}) = 0
    BY SumOfNone
  <2> QED BY <2>1
<1>3. PICK x \in T : TRUE
  BY <1>2
<1>4. f \in [S -> Int]
  OBVIOUS
<1>5. SumFunctionOnSet(f, T) = f[x] + SumFunctionOnSet(f, T \ {x})
  BY <1>4, SumOfMember
<1>6. SumFunctionOnSet(f, T \ {x}) \in Nat
  BY <1>1
<1> QED BY <1>5, <1>6

\* A set of numbers has a least one.
LEMMA LeastNumber ==
    ASSUME NEW T \in SUBSET Nat, T # {}
    PROVE  \E n \in T : \A k \in T : n <= k
<1>1. PICK m \in T : TRUE
  OBVIOUS
<1> DEFINE below == 0..m
           B == {U \in SUBSET below : \E k \in T : U = 0..k}
<1>2. IsFiniteSet(below)
  BY FS_Interval
<1>3. B # {} /\ B \in SUBSET (SUBSET below)
  <2>1. 0..m \in B
    OBVIOUS
  <2> QED BY <2>1
<1>4. PICK U \in B : \A V \in SUBSET U : V # U => V \notin B
  <2> HIDE DEF B, below
  <2> QED BY <1>2, <1>3, MinimalSubset
<1>5. PICK n \in T : U = 0..n
  BY <1>4
<1>6. ASSUME NEW k \in T, k < n
      PROVE  FALSE
  <2>1. n \in U /\ n \notin 0..k /\ 0..k \subseteq U
    BY <1>5, <1>6
  <2>2. 0..k \in B
    BY <1>6, <2>1
  <2> HIDE DEF B
  <2> QED BY <1>4, <2>1, <2>2
<1> QED BY <1>5, <1>6

-------------------------------------------------------------------------------
(* The list of a cache's items                                              *)

\* Taking an item out of a list without repetitions leaves the other ones.
LEMMA ItemTakenOut ==
    ASSUME NEW s \in Seq(Objects), IsInjective(s), NEW o \in Objects
    PROVE  /\ RemoveFirst(s, o) \in Seq(Objects)
           /\ IsInjective(RemoveFirst(s, o))
           /\ Range(RemoveFirst(s, o)) = Range(s) \ {o}
<1>1. DOMAIN s = 1..Len(s) /\ Len(s) \in Nat
  BY LenProperties
<1> DEFINE I == {k \in 1..Len(s) : s[k] = o}
<1>2. RemoveFirst(s, o) =
          IF \E i \in 1..Len(s) : s[i] = o
          THEN RemoveAt(s, IF I # {} THEN Min(I) ELSE 0) ELSE s
  BY Zenon DEF RemoveFirst, SelectInSeq
<1>3. CASE \A i \in 1..Len(s) : s[i] # o
  <2>1. RemoveFirst(s, o) = s
    BY <1>2, <1>3
  <2> QED BY <1>1, <1>3, <2>1 DEF Range
<1>4. ASSUME NEW i \in 1..Len(s), s[i] = o
      PROVE  /\ RemoveFirst(s, o) \in Seq(Objects)
             /\ IsInjective(RemoveFirst(s, o))
             /\ Range(RemoveFirst(s, o)) = Range(s) \ {o}
  <2> DEFINE front == SubSeq(s, 1, i - 1)
             back == SubSeq(s, i + 1, Len(s))
             r == front \o back
  <2>1. I = {i}
    BY <1>1, <1>4 DEF IsInjective
  <2>2. Min({i}) = i
    BY DEF Min
  <2>3. RemoveFirst(s, o) = r
    <3> HIDE DEF I
    <3>1. RemoveFirst(s, o) = RemoveAt(s, i)
      BY <1>2, <1>4, <2>1, <2>2
    <3> QED BY <3>1 DEF RemoveAt
  <2>4. /\ front \in Seq(Objects) /\ Len(front) = i - 1
        /\ \A k \in 1..(i - 1) : front[k] = s[k]
    <3>1. \A k \in 1..(i - 1) : s[k] \in Objects
      BY <1>1, ElementOfSeq
    <3> QED BY <1>1, <3>1, SubSeqProperties
  <2>5. /\ back \in Seq(Objects) /\ Len(back) = Len(s) - i
        /\ \A k \in 1..(Len(s) - i) : back[k] = s[k + i]
    <3>1. \A k \in (i + 1)..Len(s) : s[k] \in Objects
      BY <1>1, ElementOfSeq
    <3>2. /\ back \in Seq(Objects)
          /\ Len(back) = IF i + 1 <= Len(s) THEN Len(s) - (i + 1) + 1 ELSE 0
          /\ \A k \in 1..(Len(s) - (i + 1) + 1) : back[k] = s[i + 1 + k - 1]
      BY <1>1, <3>1, SubSeqProperties
    <3> HIDE DEF back
    <3>3. Len(back) = Len(s) - i
      <4> DEFINE len == Len(back)
                 all == Len(s)
      <4>1. len = IF i + 1 <= all THEN all - (i + 1) + 1 ELSE 0
        BY <3>2
      <4>2. i \in 1..all /\ all \in Nat
        BY <1>1
      <4> HIDE DEF len, all
      <4>3. len = all - i
        BY <4>1, <4>2
      <4> QED BY <4>3 DEF len, all
    <3>4. ASSUME NEW k \in 1..(Len(s) - i)
          PROVE  back[k] = s[k + i]
      <4>1. i + 1 + k - 1 = k + i /\ k \in 1..(Len(s) - (i + 1) + 1)
        BY <1>1
      <4> QED BY <3>2, <4>1
    <3> QED BY <3>2, <3>3, <3>4
  <2> HIDE DEF front, back
  <2>6. r \in Seq(Objects) /\ Len(r) = Len(front) + Len(back)
    BY <2>4, <2>5, ConcatProperties
  <2>7. \A k \in 1..(Len(front) + Len(back)) :
            r[k] = IF k <= Len(front) THEN front[k] ELSE back[k - Len(front)]
    BY <2>4, <2>5, ConcatProperties
  <2> HIDE DEF r
  <2>8. Len(r) = Len(s) - 1 /\ DOMAIN r = 1..(Len(s) - 1)
    BY <1>1, <2>4, <2>5, <2>6, LenProperties
  <2>9. \A k \in 1..(Len(s) - 1) : r[k] = IF k < i THEN s[k] ELSE s[k + 1]
    <3> SUFFICES ASSUME NEW k \in 1..(Len(s) - 1)
                 PROVE  r[k] = IF k < i THEN s[k] ELSE s[k + 1]
      OBVIOUS
    <3>1. r[k] = IF k <= i - 1 THEN front[k] ELSE back[k - (i - 1)]
      BY <1>1, <2>4, <2>5, <2>7
    <3>2. CASE k < i
      BY <1>1, <2>4, <3>1, <3>2
    <3>3. CASE ~(k < i)
      <4>1. k - (i - 1) \in 1..(Len(s) - i) /\ k - (i - 1) + i = k + 1
        BY <1>1, <3>3
      <4>2. back[k - (i - 1)] = s[k + 1]
        BY <2>5, <4>1
      <4> QED BY <3>1, <3>3, <4>2
    <3> QED BY <3>2, <3>3
  <2>10. IsInjective(r)
    <3> SUFFICES ASSUME NEW a \in DOMAIN r, NEW b \in DOMAIN r, r[a] = r[b]
                 PROVE  a = b
      BY DEF IsInjective
    <3> DEFINE Of(k) == IF k < i THEN k ELSE k + 1
    <3>1. \A k \in DOMAIN r : Of(k) \in DOMAIN s /\ r[k] = s[Of(k)]
      BY <1>1, <2>8, <2>9
    <3>2. Of(a) = Of(b)
      <4> HIDE DEF Of
      <4> QED BY <3>1 DEF IsInjective
    <3> QED BY <1>1, <2>8, <3>2
  <2>11. Range(r) = Range(s) \ {o}
    <3>1. ASSUME NEW k \in DOMAIN r
          PROVE  r[k] \in Range(s) \ {o}
      BY <1>1, <1>4, <2>8, <2>9 DEF Range, IsInjective
    <3>2. ASSUME NEW k \in 1..Len(s), s[k] # o
          PROVE  s[k] \in Range(r)
      <4>1. CASE k < i
        BY <1>1, <2>8, <2>9, <4>1 DEF Range
      <4>2. CASE k > i
        <5>1. k - 1 \in DOMAIN r /\ r[k - 1] = s[k]
          BY <1>1, <2>8, <2>9, <4>2
        <5> QED BY <5>1 DEF Range
      <4> QED BY <1>1, <1>4, <3>2, <4>1, <4>2
    <3> QED BY <1>1, <3>1, <3>2 DEF Range
  <2> QED BY <2>3, <2>6, <2>10, <2>11
<1> QED BY <1>3, <1>4

LEMMA TouchedList ==
    ASSUME NEW s \in Seq(Objects), IsInjective(s), NEW o \in Objects
    PROVE  /\ Touched(s, o) \in Seq(Objects)
           /\ IsInjective(Touched(s, o))
           /\ Range(Touched(s, o)) = Range(s) \cup {o}
<1> DEFINE r == RemoveFirst(s, o)
           t == Append(r, o)
<1>1. r \in Seq(Objects) /\ IsInjective(r) /\ Range(r) = Range(s) \ {o}
  BY ItemTakenOut
<1>2. Touched(s, o) = t
  BY DEF Touched
<1> HIDE DEF r
<1>3. /\ t \in Seq(Objects) /\ Len(t) = Len(r) + 1 /\ t[Len(r) + 1] = o
      /\ \A i \in 1..Len(r) : t[i] = r[i]
  BY <1>1, AppendProperties
<1>4. \A i \in 1..Len(r) : r[i] # o
  BY <1>1 DEF Range
<1> HIDE DEF t
<1>5. IsInjective(t)
  BY <1>1, <1>3, <1>4 DEF IsInjective
<1>6. Range(t) = Range(r) \cup {o}
  BY <1>1, <1>3 DEF Range
<1> QED BY <1>1, <1>2, <1>3, <1>5, <1>6

\* What eviction removes is the front of the list; the rest stays.
LEMMA ListSplit ==
    ASSUME NEW s \in Seq(Objects), IsInjective(s), NEW n \in 0..Len(s)
    PROVE  /\ SubSeq(s, n + 1, Len(s)) \in Seq(Objects)
           /\ IsInjective(SubSeq(s, n + 1, Len(s)))
           /\ Range(SubSeq(s, 1, n)) \subseteq Range(s)
           /\ Range(SubSeq(s, n + 1, Len(s))) = Range(s) \ Range(SubSeq(s, 1, n))
           /\ n = Len(s) => SubSeq(s, n + 1, Len(s)) = <<>>
<1> DEFINE front == SubSeq(s, 1, n)
           back == SubSeq(s, n + 1, Len(s))
<1>0. DOMAIN s = 1..Len(s) /\ Len(s) \in Nat /\ \A k \in 1..Len(s) : s[k] \in Objects
  BY LenProperties, ElementOfSeq
<1>1. /\ front \in Seq(Objects) /\ Len(front) = n /\ DOMAIN front = 1..n
      /\ \A k \in 1..n : front[k] = s[k]
  <2>1. /\ front \in Seq(Objects) /\ Len(front) = n
        /\ \A k \in 1..n : front[k] = s[k]
    BY <1>0, SubSeqProperties
  <2> QED BY <2>1, LenProperties
<1>2. /\ back \in Seq(Objects) /\ Len(back) = Len(s) - n /\ DOMAIN back = 1..(Len(s) - n)
      /\ \A k \in 1..(Len(s) - n) : back[k] = s[k + n]
  <2>1. /\ back \in Seq(Objects)
        /\ Len(back) = IF n + 1 <= Len(s) THEN Len(s) - (n + 1) + 1 ELSE 0
        /\ \A k \in 1..(Len(s) - (n + 1) + 1) : back[k] = s[n + 1 + k - 1]
    BY <1>0, SubSeqProperties
  <2> HIDE DEF back
  <2>2. DOMAIN back = 1..Len(back) /\ Len(back) = Len(s) - n
    BY <1>0, <2>1, LenProperties
  <2>3. ASSUME NEW k \in 1..(Len(s) - n)
        PROVE  back[k] = s[k + n]
    <3>1. n + 1 + k - 1 = k + n /\ k \in 1..(Len(s) - (n + 1) + 1)
      BY <1>0
    <3> QED BY <2>1, <3>1
  <2> QED BY <2>1, <2>2, <2>3
<1> HIDE DEF front, back
<1>3. IsInjective(back)
  <2> SUFFICES ASSUME NEW a \in DOMAIN back, NEW b \in DOMAIN back, back[a] = back[b]
               PROVE  a = b
    BY DEF IsInjective
  <2>1. a + n \in DOMAIN s /\ b + n \in DOMAIN s
    BY <1>0, <1>2
  <2>2. s[a + n] = s[b + n]
    BY <1>2
  <2>3. a + n = b + n
    BY <2>1, <2>2 DEF IsInjective
  <2> QED BY <1>2, <2>3
<1>4. Range(front) \subseteq Range(s)
  BY <1>0, <1>1 DEF Range
<1>5. ASSUME NEW k \in DOMAIN back
      PROVE  back[k] \in Range(s) /\ back[k] \notin Range(front)
  <2>1. k + n \in DOMAIN s /\ back[k] = s[k + n]
    BY <1>0, <1>2
  <2>2. \A i \in 1..n : s[i] # s[k + n]
    <3> SUFFICES ASSUME NEW i \in 1..n, s[i] = s[k + n] PROVE FALSE
      OBVIOUS
    <3>1. i \in DOMAIN s
      BY <1>0
    <3>2. i = k + n
      BY <2>1, <3>1 DEF IsInjective
    <3> QED BY <1>2, <3>2
  <2> QED BY <1>1, <2>1, <2>2 DEF Range
<1>6. ASSUME NEW k \in 1..Len(s), s[k] \notin Range(front)
      PROVE  s[k] \in Range(back)
  <2>1. k > n
    BY <1>1, <1>6 DEF Range
  <2>2. k - n \in DOMAIN back /\ back[k - n] = s[k]
    BY <1>2, <2>1
  <2> QED BY <2>2 DEF Range
<1>7. n = Len(s) => back = <<>>
  BY <1>2, EmptySeq
<1>8. Range(back) = Range(s) \ Range(front)
  BY <1>0, <1>5, <1>6 DEF Range
<1> QED BY <1>2, <1>3, <1>4, <1>7, <1>8 DEF front, back

LEMMA SumOfItems ==
    \A T \in SUBSET Objects : SumFunctionOnSet(Size, T) \in Nat
BY DataCacheAssumption, SumNonNegative

\* Eviction stops below the cap, or has nothing left.
LEMMA EvictedEnough ==
    ASSUME NEW s \in Seq(Objects), NEW t \in Int
    PROVE  /\ Evicted(s, t) \in 0..Len(s)
           /\ TotalAfter(s, t, Evicted(s, t)) \in Int
           /\ MaxBytes > 0 => \/ TotalAfter(s, t, Evicted(s, t)) <= MaxBytes
                              \/ Evicted(s, t) = Len(s)
<1> DEFINE enough == {n \in 1..Len(s) : TotalAfter(s, t, n) <= MaxBytes}
           first == CHOOSE n \in enough : \A k \in enough : n <= k
<1>1. \A n \in 0..Len(s) : TotalAfter(s, t, n) \in Int
  <2> SUFFICES ASSUME NEW n \in 0..Len(s) PROVE TotalAfter(s, t, n) \in Int
    OBVIOUS
  <2>1. SubSeq(s, 1, n) \in Seq(Objects)
    BY SubSeqProperties
  <2>2. Range(SubSeq(s, 1, n)) \in SUBSET Objects
    BY <2>1, RangeOfSeq
  <2> QED BY <2>2, SumOfItems DEF TotalAfter
<1>2. Evicted(s, t) = IF MaxBytes = 0 \/ t <= MaxBytes THEN 0
                      ELSE IF enough = {} THEN Len(s) ELSE first
  BY DEF Evicted, TotalAfter
<1>3. CASE MaxBytes = 0 \/ t <= MaxBytes
  <2>1. SubSeq(s, 1, 0) = <<>>
    BY SubSeqEmpty
  <2>2. Range(<<>>) = {}
    BY DEF Range
  <2>3. TotalAfter(s, t, 0) = t - SumFunctionOnSet(Size, {})
    BY <2>1, <2>2, Zenon DEF TotalAfter
  <2>4. TotalAfter(s, t, 0) = t
    BY <2>3, SumOfNone
  <2> QED BY <1>2, <1>3, <2>4, DataCacheAssumption
<1>4. CASE ~(MaxBytes = 0 \/ t <= MaxBytes) /\ enough = {}
  <2>1. Evicted(s, t) = Len(s) /\ Len(s) \in 0..Len(s)
    BY <1>2, <1>4, LenProperties
  <2> HIDE DEF enough
  <2> QED BY <1>1, <2>1
<1>5. CASE ~(MaxBytes = 0 \/ t <= MaxBytes) /\ enough # {}
  <2>1. \E n \in enough : \A k \in enough : n <= k
    <3>1. enough \in SUBSET Nat
      OBVIOUS
    <3> HIDE DEF enough
    <3> QED BY <1>5, <3>1, LeastNumber
  <2>2. first \in enough
    BY <2>1
  <2>3. TotalAfter(s, t, first) <= MaxBytes /\ first \in 1..Len(s)
    BY <2>2
  <2> HIDE DEF first
  <2> QED BY <1>1, <1>2, <1>5, <2>3
<1> QED BY <1>3, <1>4, <1>5

-------------------------------------------------------------------------------
(* The workers a query is sent to                                           *)

LEMMA GreatestOfSome ==
    ASSUME NEW n \in Nat, NEW T \in SUBSET (1..n), T # {}
    PROVE  \E i \in T : \A k \in T : k <= i
<1> DEFINE M == {j \in Nat : \A k \in T : k <= j}
<1>1. n \in M /\ M \in SUBSET Nat
  OBVIOUS
<1>2. PICK j \in M : \A k \in M : j <= k
  <2> HIDE DEF M
  <2> QED BY <1>1, LeastNumber
<1>3. j \in T
  <2> SUFFICES ASSUME j \notin T PROVE FALSE
    OBVIOUS
  <2>1. \A k \in T : k <= j - 1
    BY <1>2
  <2>2. j - 1 \in M
    <3>1. PICK k \in T : TRUE
      OBVIOUS
    <3>2. k \in Nat /\ k >= 1 /\ k <= j - 1 /\ j \in Nat
      BY <2>1
    <3> QED BY <2>1, <3>2
  <2> QED BY <1>2, <2>2
<1> QED BY <1>2, <1>3

\* The ring of a configured set of workers names one of them for every key.
LEMMA RingNamesAWorker ==
    ASSUME NEW q \in Requests
    PROVE  Preferred(q) \in Endpoints
<1>1. Precedence \in Seq(Endpoints) /\ ToSet(Precedence) = Endpoints /\ Precedence # <<>>
  BY WorkersAssumption
<1>2. DOMAIN Precedence = 1..Len(Precedence) /\ Len(Precedence) \in Nat
  BY <1>1, LenProperties
<1>3. ASSUME NEW h \in Vnodes
      PROVE  OwnerOf(h) \in Endpoints
  <2> DEFINE T == {i \in DOMAIN Precedence : h \in VnodesOf[Precedence[i]]}
  <2>1. T # {} /\ T \in SUBSET (1..Len(Precedence))
    BY <1>1, <1>2 DEF Vnodes, ToSet
  <2>2. \E i \in T : \A k \in T : k <= i
    <3> HIDE DEF T
    <3> QED BY <1>2, <2>1, GreatestOfSome
  <2>3. \E i \in DOMAIN Precedence :
            /\ h \in VnodesOf[Precedence[i]]
            /\ \A k \in DOMAIN Precedence : h \in VnodesOf[Precedence[k]] => k <= i
    BY <2>2
  <2> DEFINE last == CHOOSE i \in DOMAIN Precedence :
                         /\ h \in VnodesOf[Precedence[i]]
                         /\ \A k \in DOMAIN Precedence : h \in VnodesOf[Precedence[k]] => k <= i
  <2>4. last \in DOMAIN Precedence
    BY <2>3
  <2>5. OwnerOf(h) = Precedence[last]
    BY DEF OwnerOf
  <2> HIDE DEF last
  <2> QED BY <1>1, <2>4, <2>5 DEF ToSet
<1>4. Vnodes # {} /\ Vnodes \in SUBSET Nat
  <2>1. PICK w \in Endpoints : TRUE
    BY <1>1, <1>2, EmptySeq DEF ToSet
  <2>2. VnodesOf[w] # {}
    BY WorkersAssumption
  <2> QED BY <2>2, WorkersAssumption DEF Vnodes
<1> DEFINE after == {h \in Vnodes : h >= RouteKey[q]}
           from == IF after = {} THEN Vnodes ELSE after
           first == CHOOSE h \in from : \A g \in from : h <= g
<1>5. from # {} /\ from \in SUBSET Nat /\ from \subseteq Vnodes
  BY <1>4
<1>6. first \in Vnodes
  <2> HIDE DEF from
  <2>1. \E h \in from : \A g \in from : h <= g
    BY <1>5, LeastNumber
  <2> QED BY <1>5, <2>1
<1>7. Preferred(q) = OwnerOf(first)
  BY DEF Preferred
<1> HIDE DEF first
<1> QED BY <1>3, <1>6, <1>7

IsOrder(t) == t \in Seq(Endpoints) /\ IsInjective(t) /\ ToSet(t) = Endpoints

\* The preferred worker, then each of the other ones.
LEMMA OrderOfAll ==
    ASSUME NEW p \in Endpoints, NEW rest \in LeastLoadedFirst(Endpoints \ {p})
    PROVE  IsOrder(<<p>> \o rest)
<1> DEFINE S == Endpoints \ {p}
           n == Cardinality(S)
           t == <<p>> \o rest
<1>1. IsFiniteSet(S) /\ n \in Nat
  BY DataCacheAssumption, FS_RemoveElement, FS_CardinalityType
<1>2. rest \in [1..n -> S] /\ \A i, k \in 1..n : i # k => rest[i] # rest[k]
  BY DEF LeastLoadedFirst, SetToSeqs
<1> HIDE DEF n
<1>3. {rest[i] : i \in 1..n} = S
  <2>1. rest \in Injection(1..n, S)
    BY <1>2 DEF Injection, IsInjective
  <2>2. Cardinality(1..n) = n
    BY <1>1, FS_Interval
  <2>3. rest \in Surjection(1..n, S)
    BY <1>1, <2>1, <2>2, FS_Injection DEF n
  <2> QED BY <1>2, <2>3 DEF Surjection
<1>4. rest \in Seq(Endpoints) /\ Len(rest) = n
  <2>1. rest \in [1..n -> Endpoints]
    BY <1>2
  <2> QED BY <1>1, <2>1, SeqDef
<1>5. <<p>> \in Seq(Endpoints) /\ Len(<<p>>) = 1 /\ <<p>>[1] = p
  OBVIOUS
<1>6. /\ t \in Seq(Endpoints) /\ Len(t) = 1 + n
      /\ \A i \in 1..(1 + n) : t[i] = IF i <= 1 THEN <<p>>[i] ELSE rest[i - 1]
  BY <1>4, <1>5, ConcatProperties
<1> HIDE DEF t
<1>7. DOMAIN t = 1..(1 + n)
  BY <1>6, LenProperties
<1>8. t[1] = p /\ \A i \in 1..n : i + 1 \in DOMAIN t /\ t[i + 1] = rest[i]
  <2>1. t[1] = p
    BY <1>1, <1>6
  <2>2. ASSUME NEW i \in 1..n
        PROVE  i + 1 \in DOMAIN t /\ t[i + 1] = rest[i]
    <3>1. i + 1 \in 1..(1 + n) /\ (i + 1) - 1 = i /\ ~(i + 1 <= 1)
      BY <1>1
    <3> QED BY <1>6, <1>7, <3>1
  <2> QED BY <2>1, <2>2
<1>9. \A i \in DOMAIN t : i = 1 \/ (i - 1 \in 1..n /\ t[i] = rest[i - 1])
  BY <1>1, <1>6, <1>7
<1>10. IsInjective(t)
  <2> SUFFICES ASSUME NEW a \in DOMAIN t, NEW b \in DOMAIN t, t[a] = t[b]
               PROVE  a = b
    BY DEF IsInjective
  <2>1. CASE a = 1 /\ b = 1
    BY <2>1
  <2>2. CASE a = 1 /\ b # 1
    BY <1>2, <1>8, <1>9, <2>2
  <2>3. CASE a # 1 /\ b = 1
    BY <1>2, <1>8, <1>9, <2>3
  <2>4. CASE a # 1 /\ b # 1
    <3>1. a - 1 \in 1..n /\ b - 1 \in 1..n /\ rest[a - 1] = rest[b - 1]
      BY <1>9, <2>4
    <3>2. a - 1 = b - 1
      BY <1>2, <3>1
    <3> QED BY <1>7, <1>1, <3>2
  <2> QED BY <2>1, <2>2, <2>3, <2>4
<1>11. ToSet(t) = Endpoints
  <2>1. \A i \in DOMAIN t : t[i] \in Endpoints
    BY <1>6, <1>7, ElementOfSeq
  <2>2. ASSUME NEW w \in Endpoints
        PROVE  w \in ToSet(t)
    <3>1. CASE w = p
      <4>1. 1 \in DOMAIN t
        BY <1>1, <1>7
      <4> QED BY <1>8, <3>1, <4>1 DEF ToSet
    <3>2. CASE w # p
      <4>1. PICK i \in 1..n : w = rest[i]
        BY <1>3, <3>2
      <4> QED BY <1>8, <4>1 DEF ToSet
    <3> QED BY <3>1, <3>2
  <2> QED BY <2>1, <2>2 DEF ToSet
<1> QED BY <1>6, <1>10, <1>11 DEF IsOrder, t

Sent(q) == {targets[q][i] : i \in 1..tried[q]}

OpenTo(w) == {q \in Requests : at[q] = "posting" /\ Target(q) = w}

\* A query is ordered once, over all workers, and its position says how many it
\* has been sent to.
QueryInv ==
    /\ at \in [Requests -> Places] /\ DOMAIN targets = Requests /\ DOMAIN tried = Requests
    /\ \A q \in Requests :
         /\ targets[q] = <<>> \/ IsOrder(targets[q])
         /\ tried[q] \in 0..Len(targets[q])
         /\ at[q] = "idle" => targets[q] = <<>>
         /\ at[q] = "posting" => tried[q] > 0
         /\ at[q] = "failed" => tried[q] = Len(targets[q])

LoadInv == inFlight = [w \in Endpoints |-> Cardinality(OpenTo(w))]

RunInv ==
    /\ run \in [Requests -> [Endpoints -> RunPlaces]]
    /\ \A q \in Requests, w \in Endpoints :
         /\ run[q][w] # "none" => w \in Sent(q)
         /\ w \notin Authorized => run[q][w] \in {"none", "refused", "lost"}

DispatchInv == QueryInv /\ LoadInv /\ RunInv

LEMMA LenOfList ==
    ASSUME NEW t, t = <<>> \/ IsOrder(t)
    PROVE  Len(t) \in Nat /\ DOMAIN t = 1..Len(t) /\ \A i \in 1..Len(t) : t[i] \in Endpoints
BY LenProperties, ElementOfSeq DEF IsOrder

LEMMA OpenIsFinite == \A w : IsFiniteSet(OpenTo(w)) /\ Cardinality(OpenTo(w)) \in Nat
BY DataCacheAssumption, FS_Subset, FS_CardinalityType DEF OpenTo

LEMMA DispatchStarts ==
    ASSUME Init
    PROVE  DispatchInv
<1>1. QueryInv
  BY DEF Init, QueryInv, Places
<1>2. LoadInv
  <2>1. \A w \in Endpoints : OpenTo(w) = {}
    BY DEF Init, OpenTo
  <2> QED BY <2>1, FS_EmptySet DEF Init, LoadInv
<1>3. RunInv
  BY DEF Init, RunInv, RunPlaces
<1> QED BY <1>1, <1>2, <1>3 DEF DispatchInv

\* The coordinator's steps.
LEMMA DispatchQuery ==
    ASSUME DispatchInv, NEW q \in Requests, Dispatch(q)
    PROVE  QueryInv'
<1> USE DEF DispatchInv, QueryInv
<1>1. Len(targets[q]) \in Nat
  BY LenOfList
<1>2. CASE Order(q)
  <2>1. at[q] = "idle" /\ tried' = tried /\ tried[q] = 0
    BY <1>2 DEF Order
  <2>2. CASE GoTo(q, "failed") /\ UNCHANGED targets
    BY <2>1, <2>2 DEF GoTo, Places
  <2>3. ASSUME GoTo(q, "ordered"),
               NEW rest \in LeastLoadedFirst(Endpoints \ {Preferred(q)}),
               targets' = [targets EXCEPT ![q] = <<Preferred(q)>> \o rest]
        PROVE  QueryInv'
    <3> DEFINE t == <<Preferred(q)>> \o rest
    <3>1. IsOrder(t)
      BY RingNamesAWorker, OrderOfAll
    <3>2. Len(t) \in Nat
      BY <3>1, LenOfList
    <3> HIDE DEF t
    <3>3. targets' = [targets EXCEPT ![q] = t]
      BY <2>3 DEF t
    <3>4. at' = [at EXCEPT ![q] = "ordered"]
      BY <2>3 DEF GoTo
    <3>5. \A r \in Requests \ {q} :
             at'[r] = at[r] /\ targets'[r] = targets[r] /\ tried'[r] = tried[r]
      BY <2>1, <3>3, <3>4
    <3>6. at'[q] = "ordered" /\ targets'[q] = t /\ tried'[q] = 0
      BY <2>1, <3>3, <3>4
    <3>7. 0 \in 0..Len(t)
      BY <3>2
    <3>8. at' \in [Requests -> Places] /\ DOMAIN targets' = Requests /\ DOMAIN tried' = Requests
      BY <2>1, <3>3, <3>4 DEF Places
    <3> QED BY <3>1, <3>5, <3>6, <3>7, <3>8 DEF Places
  <2> QED BY <1>2, <2>2, <2>3 DEF Order
<1>3. CASE Post(q)
  <2>1. /\ at' = [at EXCEPT ![q] = "posting"] /\ targets' = targets
        /\ tried' = [tried EXCEPT ![q] = tried[q] + 1] /\ tried[q] < Len(targets[q])
    BY <1>3 DEF Post, GoTo, NextTried
  <2> QED BY <1>1, <2>1 DEF Places
<1>4. CASE Answer(q)
  BY <1>1, <1>4 DEF Answer, GoTo, Places
<1>5. CASE GiveUp(q)
  <2>1. /\ at' = [at EXCEPT ![q] = NextTarget(q)] /\ targets' = targets /\ tried' = tried
    BY <1>5 DEF GiveUp, GoTo
  <2>2. NextTarget(q) = "ordered" \/ (NextTarget(q) = "failed" /\ tried[q] = Len(targets[q]))
    BY <1>1 DEF NextTarget
  <2> QED BY <1>1, <2>1, <2>2 DEF Places
<1> QED BY <1>2, <1>3, <1>4, <1>5 DEF Dispatch

LEMMA DispatchLoad ==
    ASSUME DispatchInv, NEW q \in Requests, Dispatch(q)
    PROVE  LoadInv'
<1>1. \A r \in Requests : r # q => at'[r] = at[r] /\ tried'[r] = tried[r] /\ targets'[r] = targets[r]
  BY DEF DispatchInv, QueryInv, Dispatch, Order, Post, Answer, GiveUp, GoTo
<1>2. \A w : OpenTo(w)' \ {q} = OpenTo(w) \ {q}
  BY <1>1 DEF OpenTo, Target
<1>3. DOMAIN inFlight = Endpoints /\ \A w \in Endpoints : inFlight[w] = Cardinality(OpenTo(w))
  BY DEF DispatchInv, LoadInv
<1>4. at[q] = "posting" => Target(q) \in Endpoints
  <2>1. tried[q] > 0 /\ tried[q] <= Len(targets[q]) => tried[q] \in 1..Len(targets[q])
    BY LenOfList DEF DispatchInv, QueryInv
  <2> QED BY <2>1, LenOfList DEF DispatchInv, QueryInv, Target
<1>5. CASE Order(q)
  <2>1. at[q] # "posting" /\ at'[q] # "posting" /\ inFlight' = inFlight
    BY <1>5 DEF Order, GoTo, DispatchInv, QueryInv
  <2>2. \A w : q \notin OpenTo(w) /\ q \notin OpenTo(w)'
    BY <2>1 DEF OpenTo
  <2>3. \A w : OpenTo(w)' = OpenTo(w)
    BY <1>2, <2>2
  <2> QED BY <1>3, <2>1, <2>3 DEF DispatchInv, LoadInv
<1>6. CASE Post(q)
  <2>0. PICK u \in Endpoints : u = targets[q][tried[q] + 1]
    <3>1. tried[q] + 1 \in 1..Len(targets[q])
      BY <1>6, LenOfList DEF Post, DispatchInv, QueryInv
    <3> QED BY <3>1, LenOfList DEF DispatchInv, QueryInv
  <2>1. /\ at[q] # "posting" /\ at'[q] = "posting" /\ Target(q)' = u
        /\ inFlight' = [inFlight EXCEPT ![u] = @ + 1]
    BY <1>6, <2>0 DEF Post, GoTo, NextTried, Target, DispatchInv, QueryInv
  <2>3. \A w : q \notin OpenTo(w) /\ (q \in OpenTo(w)' <=> w = u)
    BY <2>1 DEF OpenTo
  <2>4. OpenTo(u)' = OpenTo(u) \cup {q} /\ \A w : w # u => OpenTo(w)' = OpenTo(w)
    BY <1>2, <2>3
  <2>5. Cardinality(OpenTo(u)') = Cardinality(OpenTo(u)) + 1
    BY <2>3, <2>4, OpenIsFinite, FS_AddElement
  <2>6. \A w \in Endpoints : inFlight'[w] = Cardinality(OpenTo(w)')
    BY <1>3, <2>1, <2>4, <2>5
  <2>7. inFlight' = [w \in Endpoints |-> inFlight'[w]]
    BY <1>3, <2>1
  <2> QED BY <2>6, <2>7 DEF LoadInv
<1>7. CASE Answer(q) \/ GiveUp(q)
  <2>0. PICK u \in Endpoints : at[q] = "posting" => u = Target(q)
    BY <1>4, <1>7 DEF Answer, GiveUp
  <2>1. /\ at[q] = "posting" /\ at'[q] # "posting"
        /\ inFlight' = [inFlight EXCEPT ![u] = @ - 1]
    BY <1>7, <2>0 DEF Answer, GiveUp, GoTo, LoadDrops, PostEnds, NextTarget, DispatchInv, QueryInv
  <2>3. \A w : q \notin OpenTo(w)' /\ (q \in OpenTo(w) <=> w = u)
    BY <2>0, <2>1 DEF OpenTo
  <2>4. OpenTo(u)' = OpenTo(u) \ {q} /\ \A w : w # u => OpenTo(w)' = OpenTo(w)
    <3>1. \A w : OpenTo(w)' = OpenTo(w) \ {q}
      BY <1>2, <2>3
    <3> QED BY <2>3, <3>1
  <2>5. Cardinality(OpenTo(u)') = Cardinality(OpenTo(u)) - 1
    BY <2>3, <2>4, OpenIsFinite, FS_RemoveElement
  <2>6. \A w \in Endpoints : inFlight'[w] = Cardinality(OpenTo(w)')
    BY <1>3, <2>1, <2>4, <2>5
  <2>7. inFlight' = [w \in Endpoints |-> inFlight'[w]]
    BY <1>3, <2>1
  <2> QED BY <2>6, <2>7 DEF LoadInv
<1> QED BY <1>5, <1>6, <1>7 DEF Dispatch

\* A query that has been sent somewhere stays so.
LEMMA SentGrows ==
    ASSUME DispatchInv, NEW q \in Requests, Dispatch(q)
    PROVE  \A r \in Requests : Sent(r) \subseteq Sent(r)'
<1> TAKE r \in Requests
<1>1. tried[r] \in Nat /\ Len(targets[r]) \in Nat
  BY LenOfList DEF DispatchInv, QueryInv
<1>2. CASE Order(q)
  <2>1. tried' = tried /\ (r # q => targets'[r] = targets[r]) /\ (r = q => tried[r] = 0)
    BY <1>2 DEF Order, DispatchInv, QueryInv
  <2> QED BY <2>1 DEF Sent
<1>3. CASE Post(q)
  <2>1. targets' = targets /\ tried'[r] \in {tried[r], tried[r] + 1}
    BY <1>3 DEF Post, NextTried, DispatchInv, QueryInv
  <2> QED BY <1>1, <2>1 DEF Sent
<1>4. CASE Answer(q) \/ GiveUp(q)
  BY <1>4 DEF Answer, GiveUp, Sent
<1> QED BY <1>2, <1>3, <1>4 DEF Dispatch

Copying == {"missed", "writing", "written"}

\* A step of a query at a worker: from a place where it is under way.
LEMMA ServeRuns ==
    ASSUME RunInv, NEW q \in Requests, NEW w \in Endpoints, Serve(q, w)
    PROVE  /\ UNCHANGED dispatchVars
           /\ \E b \in RunPlaces :
                 /\ run[q][w] \in {"localizing", "original"} \cup Copying
                 /\ run' = [run EXCEPT ![q][w] = b]
<1> USE DEF RunPlaces, Copying
<1>1. CASE Ensure(q, w)
  <2>1. UNCHANGED dispatchVars
    BY <1>1 DEF Ensure
  <2>2. CASE UNCHANGED run
    <3>1. run' = [run EXCEPT ![q][w] = "localizing"]
      BY <1>1, <2>2 DEF Ensure, RunInv
    <3> QED BY <1>1, <2>1, <3>1 DEF Ensure
  <2>3. CASE RunGoes(q, w, "localizing", "missed")
    BY <2>1, <2>3 DEF RunGoes
  <2>4. CASE FallBack(q, w)
    BY <1>1, <2>1, <2>4 DEF Ensure, FallBack
  <2> QED BY <1>1, <2>2, <2>3, <2>4 DEF Ensure
<1>2. CASE TruncateFile(q, w)
  BY <1>2 DEF TruncateFile, RunGoes
<1>3. CASE WriteFile(q, w)
  BY <1>3 DEF WriteFile, RunGoes, WriteError, FallBack
<1>4. CASE InsertItem(q, w)
  <2>1. RunGoes(q, w, "written", "localizing") /\ UNCHANGED dispatchVars
    BY <1>4 DEF InsertItem
  <2> QED BY <2>1 DEF RunGoes
<1>5. CASE RunStatement(q, w)
  <2>1. \/ RunGoes(q, w, "localizing", "ran")
        \/ RunGoes(q, w, "original", "ran")
    BY <1>5 DEF RunStatement
  <2>2. UNCHANGED dispatchVars
    BY <1>5 DEF RunStatement
  <2> QED BY <2>1, <2>2 DEF RunGoes
<1> QED BY <1>1, <1>2, <1>3, <1>4, <1>5 DEF Serve

LEMMA DispatchKept ==
    ASSUME QueryInv, LoadInv, UNCHANGED dispatchVars
    PROVE  QueryInv' /\ LoadInv' /\ \A q : Sent(q)' = Sent(q)
BY DEF QueryInv, LoadInv, OpenTo, Target, Sent, dispatchVars

\* What RunInv says of a query at a worker.
RunOK(q, w, p) == /\ p \in RunPlaces
                  /\ p # "none" => w \in Sent(q)
                  /\ w \notin Authorized => p \in {"none", "refused", "lost"}

LEMMA RunOfOne ==
    ASSUME DispatchInv, NEW q \in Requests, NEW w \in Endpoints, UNCHANGED dispatchVars,
           NEW b, RunOK(q, w, b), run' = [run EXCEPT ![q][w] = b]
    PROVE  DispatchInv'
<1>1. QueryInv' /\ LoadInv' /\ \A r : Sent(r)' = Sent(r)
  BY DispatchKept DEF DispatchInv
<1>2. run' \in [Requests -> [Endpoints -> RunPlaces]]
  BY DEF DispatchInv, RunInv, RunOK
<1>3. \A r \in Requests, v \in Endpoints :
          run'[r][v] = IF r = q /\ v = w THEN b ELSE run[r][v]
  BY DEF DispatchInv, RunInv
<1>4. RunInv'
  <2> SUFFICES ASSUME NEW r \in Requests, NEW v \in Endpoints
               PROVE  /\ run'[r][v] # "none" => v \in Sent(r)'
                      /\ v \notin Authorized => run'[r][v] \in {"none", "refused", "lost"}
    BY <1>2 DEF RunInv
  <2>1. CASE r = q /\ v = w
    <3>1. run'[r][v] = b
      BY <1>3, <2>1
    <3> QED BY <1>1, <2>1, <3>1 DEF RunOK
  <2>2. CASE ~(r = q /\ v = w)
    <3>1. run'[r][v] = run[r][v]
      BY <1>3, <2>2
    <3> QED BY <1>1, <3>1 DEF DispatchInv, RunInv
  <2> QED BY <2>1, <2>2
<1> QED BY <1>1, <1>4 DEF DispatchInv

LEMMA DispatchStep ==
    ASSUME DispatchInv, [Next]_vars
    PROVE  DispatchInv'
<1>1. ASSUME NEW q \in Requests, Dispatch(q)
      PROVE  DispatchInv'
  <2>1. QueryInv' /\ LoadInv' /\ \A r \in Requests : Sent(r) \subseteq Sent(r)'
    BY <1>1, DispatchQuery, DispatchLoad, SentGrows
  <2>2. run' = run
    BY <1>1 DEF Dispatch, Order, Post, Answer, GiveUp, serverVars
  <2>3. RunInv'
    <3> HIDE DEF Sent
    <3> QED BY <2>1, <2>2 DEF DispatchInv, RunInv
  <2> QED BY <2>1, <2>3 DEF DispatchInv
<1>2. ASSUME NEW q \in Requests, NEW w \in Endpoints, Receive(q, w)
      PROVE  DispatchInv'
  <2>1. /\ at[q] = "posting" /\ Target(q) = w /\ UNCHANGED dispatchVars
        /\ run' = [run EXCEPT ![q][w] = AfterReceive(w)]
    BY <1>2 DEF Receive, RunGoes
  <2>2. w \in Sent(q)
    <3>1. tried[q] \in 1..tried[q]
      BY <2>1, LenOfList DEF DispatchInv, QueryInv
    <3> QED BY <2>1, <3>1 DEF Sent, Target
  <2>3. RunOK(q, w, AfterReceive(w))
    BY <2>2 DEF RunOK, AfterReceive, RunPlaces
  <2> QED BY <2>1, <2>3, RunOfOne
<1>3. ASSUME NEW q \in Requests, NEW w \in Endpoints, Serve(q, w)
      PROVE  DispatchInv'
  <2>1. PICK b \in RunPlaces :
            /\ run[q][w] \in {"localizing", "original"} \cup Copying
            /\ run' = [run EXCEPT ![q][w] = b]
    BY <1>3, ServeRuns DEF DispatchInv
  <2>2. RunOK(q, w, b)
    BY <2>1 DEF RunOK, DispatchInv, RunInv, Copying
  <2>3. UNCHANGED dispatchVars
    BY <1>3, ServeRuns DEF DispatchInv
  <2> QED BY <2>1, <2>2, <2>3, RunOfOne
<1>4. ASSUME NEW w \in Endpoints, Crash(w)
      PROVE  DispatchInv'
  <2>1. /\ UNCHANGED dispatchVars
        /\ run' = [q \in Requests |-> [run[q] EXCEPT ![w] = IF @ = "none" THEN @ ELSE "lost"]]
    BY <1>4 DEF Crash
  <2>2. QueryInv' /\ LoadInv' /\ \A q : Sent(q)' = Sent(q)
    BY <2>1, DispatchKept DEF DispatchInv
  <2>3. run' \in [Requests -> [Endpoints -> RunPlaces]]
    BY <2>1 DEF DispatchInv, RunInv, RunPlaces
  <2>4. \A q \in Requests, v \in Endpoints :
            run'[q][v] = IF v = w /\ run[q][v] # "none" THEN "lost" ELSE run[q][v]
    BY <2>1 DEF DispatchInv, RunInv
  <2>5. RunInv'
    BY <2>2, <2>3, <2>4 DEF DispatchInv, RunInv
  <2> QED BY <2>2, <2>5 DEF DispatchInv
<1>5. CASE UNCHANGED <<dispatchVars, run>>
  <2>1. QueryInv' /\ LoadInv' /\ \A q : Sent(q)' = Sent(q)
    BY <1>5, DispatchKept DEF DispatchInv
  <2>2. RunInv'
    BY <1>5, <2>1 DEF DispatchInv, RunInv
  <2> QED BY <2>1, <2>2 DEF DispatchInv
<1>6. ASSUME NEW w \in Endpoints, Restart(w)
      PROVE  DispatchInv'
  BY <1>5, <1>6 DEF Restart, serverVars
<1>7. CASE UNCHANGED vars
  BY <1>5, <1>7 DEF vars, serverVars
<1> QED BY <1>1, <1>2, <1>3, <1>4, <1>6, <1>7 DEF Next

\* What the invariant promises, in the words of the property.
LEMMA DispatchIsSound ==
    ASSUME DispatchInv
    PROVE  DispatchSound
<1>1. \A w \in Endpoints :
          inFlight[w] = Cardinality({q \in Requests : at[q] = "posting" /\ Target(q) = w})
  BY DEF DispatchInv, LoadInv, OpenTo
<1>2. ASSUME NEW q \in Requests
      PROVE  /\ at[q] = "failed" /\ targets[q] # <<>> => Sent(q) = Endpoints
             /\ Cardinality(Sent(q)) = tried[q]
  <2> DEFINE t == targets[q]
             n == tried[q]
  <2>1. /\ t = <<>> \/ IsOrder(t)
        /\ n \in 0..Len(t)
        /\ at[q] = "failed" => n = Len(t)
    BY DEF DispatchInv, QueryInv
  <2>2. Sent(q) = {t[i] : i \in 1..n}
    BY DEF Sent
  <2>3. tried[q] \in 0..Len(targets[q])
    BY DEF DispatchInv, QueryInv
  <2>4. Len(t) \in Nat /\ DOMAIN t = 1..Len(t)
    BY <2>1, LenOfList
  <2>5. n \in Nat /\ 1..n \subseteq DOMAIN t
    BY <2>3, <2>4
  <2> HIDE DEF t, n
  <2>6. n \in Nat /\ Cardinality(1..n) = n /\ IsFiniteSet(1..n)
    <3>1. n \in Nat
      BY <2>5
    <3>2. IsFiniteSet(1..n) /\ Cardinality(1..n) = IF 1 > n THEN 0 ELSE n - 1 + 1
      BY <3>1, FS_Interval
    <3> QED BY <3>1, <3>2
  <2>7. CASE t = <<>>
    <3>1. n = 0
      BY <2>1, <2>7
    <3>2. Sent(q) = {}
      BY <2>2, <3>1
    <3> QED BY <2>7, <3>1, <3>2, FS_EmptySet DEF t, n
  <2>8. CASE IsOrder(t)
    <3> DEFINE f == [i \in 1..n |-> t[i]]
    <3>1. f \in Surjection(1..n, Sent(q))
      BY <2>2 DEF Surjection
    <3>2. f \in Injection(1..n, Sent(q))
      <4>1. 1..n \subseteq DOMAIN t
        BY <2>5
      <4>2. \A i, k \in 1..n : t[i] = t[k] => i = k
        BY <2>8, <4>1 DEF IsOrder, IsInjective
      <4> QED BY <2>2, <4>2 DEF Injection, IsInjective
    <3> HIDE DEF f
    <3>3. Cardinality(Sent(q)) = n
      BY <2>6, <3>1, <3>2, FS_Surjection
    <3>4. at[q] = "failed" => Sent(q) = Endpoints
      BY <2>1, <2>2, <2>4, <2>8 DEF IsOrder, ToSet
    <3> QED BY <3>3, <3>4 DEF n
  <2> QED BY <2>1, <2>7, <2>8
<1>3. \A q \in Requests, w \in Endpoints :
          /\ run[q][w] # "none" => w \in Sent(q)
          /\ w \notin Authorized => run[q][w] \in {"none", "refused", "lost"}
  BY DEF DispatchInv, RunInv
<1> HIDE DEF Sent
<1>4. \A q \in Requests : Sent(q) = {targets[q][i] : i \in 1..tried[q]}
  BY DEF Sent
<1> QED BY <1>1, <1>2, <1>3, <1>4, Zenon DEF DispatchSound

-------------------------------------------------------------------------------
(* Types                                                                    *)

\* An item is in its list once; the type invariant says so by counting.
CacheTypes ==
    /\ DOMAIN lru = Endpoints
    /\ \A w \in Endpoints : lru[w] \in Seq(Objects) /\ IsInjective(lru[w])
    /\ total \in [Endpoints -> Int]
    /\ disk \in [Endpoints -> [Objects -> {"absent", "torn", "whole"}]]
    /\ missing \in [Endpoints -> SUBSET [by : Requests, object : Objects]]
    /\ doubled \in [Endpoints -> SUBSET Objects]

ServerTypes ==
    /\ todo \in [Requests -> [Endpoints -> SUBSET Objects]]
    /\ local \in [Requests -> [Endpoints -> SUBSET Objects]]
    /\ pulled \in [Requests -> [Endpoints -> SUBSET Objects]]
    /\ failures \in 0..MaxFailures /\ up \subseteq Endpoints

LEMMA CacheTypesKept ==
    ASSUME CacheTypes, UNCHANGED cacheVars
    PROVE  CacheTypes'
BY DEF CacheTypes, cacheVars

LEMMA ListReplaced ==
    ASSUME CacheTypes, NEW w \in Endpoints, NEW s \in Seq(Objects), IsInjective(s),
           lru' = [lru EXCEPT ![w] = s]
    PROVE  /\ DOMAIN lru' = Endpoints
           /\ \A v \in Endpoints : lru'[v] \in Seq(Objects) /\ IsInjective(lru'[v])
           /\ lru'[w] = s
<1>1. DOMAIN lru' = Endpoints /\ \A v \in Endpoints : lru'[v] = IF v = w THEN s ELSE lru[v]
  BY DEF CacheTypes
<1> QED BY <1>1 DEF CacheTypes

\* What an insertion does, with the list as a set: some items go, to make room.
MakesRoom(w, o, gone) ==
    /\ Items(w)' = (Items(w) \cup {o}) \ gone
    /\ total' = [total EXCEPT ![w] = (total[w] + Size[o]) - SumFunctionOnSet(Size, gone)]
    /\ total'[w] \in Int
    /\ MaxBytes > 0 => total'[w] <= MaxBytes \/ lru'[w] = <<>>
    /\ disk' = [disk EXCEPT ![w] = [p \in Objects |->
                   IF p \in gone THEN "absent" ELSE disk[w][p]]]
    /\ lru'[w] \in Seq(Objects) /\ IsInjective(lru'[w])
    /\ lru' = [lru EXCEPT ![w] = lru'[w]]

LEMMA Inserted ==
    ASSUME CacheTypes, NEW w \in Endpoints, NEW q \in Requests, NEW o \in Objects,
           Insert(w, q, o)
    PROVE  \E gone \in SUBSET (Items(w) \cup {o}) : MakesRoom(w, o, gone)
<1> DEFINE s == Touched(lru[w], o)
           t == total[w] + Size[o]
           n == Evicted(s, t)
           gone == Range(SubSeq(s, 1, n))
           rest == SubSeq(s, n + 1, Len(s))
<1>1. s \in Seq(Objects) /\ IsInjective(s) /\ Range(s) = Items(w) \cup {o}
  BY TouchedList DEF CacheTypes, Items
<1>2. t \in Int /\ t = total[w] + Size[o]
  BY DataCacheAssumption DEF CacheTypes
<1>3. /\ lru' = [lru EXCEPT ![w] = rest]
      /\ total' = [total EXCEPT ![w] = TotalAfter(s, t, n)]
      /\ disk' = [disk EXCEPT ![w] = [p \in Objects |->
                     IF p \in gone THEN "absent" ELSE disk[w][p]]]
  BY DEF Insert
<1> HIDE DEF s, t
<1>4. /\ n \in 0..Len(s)
      /\ TotalAfter(s, t, n) \in Int
      /\ MaxBytes > 0 => TotalAfter(s, t, n) <= MaxBytes \/ n = Len(s)
  BY <1>1, <1>2, EvictedEnough
<1>5. TotalAfter(s, t, n) = t - SumFunctionOnSet(Size, gone)
  BY DEF TotalAfter
<1> HIDE DEF n
<1>6. /\ rest \in Seq(Objects) /\ IsInjective(rest)
      /\ gone \subseteq Range(s)
      /\ Range(rest) = Range(s) \ gone
      /\ n = Len(s) => rest = <<>>
  BY <1>1, <1>4, ListSplit
<1> HIDE DEF gone, rest
<1>7. lru'[w] = rest /\ lru' = [lru EXCEPT ![w] = lru'[w]]
  BY <1>3 DEF CacheTypes
<1>8. Items(w)' = Range(s) \ gone
  BY <1>6, <1>7 DEF Items
<1>9. total'[w] = TotalAfter(s, t, n)
  BY <1>3 DEF CacheTypes
<1>10. total' = [total EXCEPT ![w] = (total[w] + Size[o]) - SumFunctionOnSet(Size, gone)]
  BY <1>2, <1>3, <1>5
<1>11. MaxBytes > 0 => total'[w] <= MaxBytes \/ lru'[w] = <<>>
  BY <1>4, <1>6, <1>7, <1>9
<1>12. MakesRoom(w, o, gone)
  BY <1>1, <1>3, <1>4, <1>6, <1>7, <1>8, <1>9, <1>10, <1>11 DEF MakesRoom
<1> QED BY <1>1, <1>6, <1>12

LEMMA CacheSteps ==
    ASSUME CacheTypes, NEW w \in Endpoints, NEW q \in Requests, NEW o \in Objects,
           \/ Hit(w, o) \/ Miss(w, q, o) \/ Insert(w, q, o)
           \/ SetFile(w, o, "torn") \/ SetFile(w, o, "whole")
    PROVE  CacheTypes'
<1>1. CASE Hit(w, o)
  <2>1. Touched(lru[w], o) \in Seq(Objects) /\ IsInjective(Touched(lru[w], o))
    BY TouchedList DEF CacheTypes
  <2>2. lru' = [lru EXCEPT ![w] = Touched(lru[w], o)] /\ UNCHANGED <<total, disk, missing, doubled>>
    BY <1>1 DEF Hit
  <2> QED BY <2>1, <2>2, ListReplaced DEF CacheTypes
<1>2. CASE Miss(w, q, o)
  <2>1. UNCHANGED <<lru, total, disk>>
    BY <1>2 DEF Miss
  <2>2. missing' \in [Endpoints -> SUBSET [by : Requests, object : Objects]]
    BY <1>2 DEF Miss, CacheTypes
  <2>3. doubled' \in [Endpoints -> SUBSET Objects]
    BY <1>2 DEF Miss, CacheTypes
  <2> QED BY <2>1, <2>2, <2>3 DEF CacheTypes
<1>3. CASE Insert(w, q, o)
  <2>1. PICK gone \in SUBSET (Items(w) \cup {o}) : MakesRoom(w, o, gone)
    BY <1>3, Inserted
  <2>2. total' \in [Endpoints -> Int]
    BY <2>1 DEF CacheTypes, MakesRoom
  <2>3. disk' \in [Endpoints -> [Objects -> {"absent", "torn", "whole"}]]
    BY <2>1 DEF CacheTypes, MakesRoom
  <2>4. missing' \in [Endpoints -> SUBSET [by : Requests, object : Objects]] /\ doubled' = doubled
    BY <1>3 DEF Insert, CacheTypes
  <2>5. DOMAIN lru' = Endpoints /\ \A v \in Endpoints : lru'[v] \in Seq(Objects) /\ IsInjective(lru'[v])
    BY <2>1, ListReplaced DEF MakesRoom
  <2> QED BY <2>2, <2>3, <2>4, <2>5 DEF CacheTypes
<1>4. CASE SetFile(w, o, "torn") \/ SetFile(w, o, "whole")
  <2>1. PICK c \in {"torn", "whole"} : SetFile(w, o, c)
    BY <1>4
  <2>2. disk' = [disk EXCEPT ![w][o] = c] /\ UNCHANGED <<lru, total, missing, doubled>>
    BY <2>1 DEF SetFile
  <2>3. disk' \in [Endpoints -> [Objects -> {"absent", "torn", "whole"}]]
    BY <2>2 DEF CacheTypes
  <2> QED BY <2>2, <2>3 DEF CacheTypes
<1> QED BY <1>1, <1>2, <1>3, <1>4

LEMMA LosesTypes ==
    ASSUME CacheTypes, NEW w \in Endpoints, LoseItems(w)
    PROVE  CacheTypes'
<1>1. <<>> \in Seq(Objects) /\ IsInjective(<<>>)
  BY DEF IsInjective
<1>2. lru' = [lru EXCEPT ![w] = <<>>] /\ UNCHANGED <<disk, doubled>>
  BY DEF LoseItems
<1>3. total' \in [Endpoints -> Int] /\ missing' \in [Endpoints -> SUBSET [by : Requests, object : Objects]]
  BY DEF LoseItems, CacheTypes
<1> QED BY <1>1, <1>2, <1>3, ListReplaced DEF CacheTypes

TypeInv == CacheTypes /\ ServerTypes

\* What a query's step at a worker does to the cache, one object at a time.
LEMMA ServeUsesCache ==
    ASSUME TypeInv, NEW q \in Requests, NEW w \in Endpoints, Serve(q, w)
    PROVE  \/ UNCHANGED cacheVars
           \/ GiveUpMiss(w, q)
           \/ \E o \in Objects : \/ Hit(w, o) \/ Miss(w, q, o) \/ Insert(w, q, o)
                                 \/ SetFile(w, o, "torn") \/ SetFile(w, o, "whole")
<1>1. CASE Ensure(q, w)
  <2>1. todo[q][w] \subseteq Objects
    BY DEF TypeInv, ServerTypes
  <2> QED BY <1>1, <2>1 DEF Ensure
<1>2. CASE TruncateFile(q, w)
  BY <1>2 DEF TruncateFile
<1>3. CASE WriteFile(q, w)
  BY <1>3 DEF WriteFile, WriteError
<1>4. CASE InsertItem(q, w)
  BY <1>4 DEF InsertItem
<1>5. CASE RunStatement(q, w)
  BY <1>5 DEF RunStatement
<1> QED BY <1>1, <1>2, <1>3, <1>4, <1>5 DEF Serve

LEMMA CacheTypesStep ==
    ASSUME TypeInv, [Next]_vars
    PROVE  CacheTypes'
<1>1. CASE UNCHANGED cacheVars
  BY <1>1, CacheTypesKept DEF TypeInv
<1>2. ASSUME NEW q \in Requests, Dispatch(q)
      PROVE  CacheTypes'
  BY <1>1, <1>2 DEF Dispatch, Order, Post, Answer, GiveUp
<1>3. ASSUME NEW q \in Requests, NEW w \in Endpoints, Receive(q, w)
      PROVE  CacheTypes'
  BY <1>1, <1>3 DEF Receive
<1>4. ASSUME NEW q \in Requests, NEW w \in Endpoints, Serve(q, w)
      PROVE  CacheTypes'
  <2>1. CASE GiveUpMiss(w, q)
    <3>1. missing' \in [Endpoints -> SUBSET [by : Requests, object : Objects]]
      BY <2>1 DEF GiveUpMiss, TypeInv, CacheTypes
    <3>2. UNCHANGED <<lru, total, disk, doubled>>
      BY <2>1 DEF GiveUpMiss
    <3> QED BY <3>1, <3>2 DEF TypeInv, CacheTypes
  <2>2. ASSUME NEW o \in Objects,
               \/ Hit(w, o) \/ Miss(w, q, o) \/ Insert(w, q, o)
               \/ SetFile(w, o, "torn") \/ SetFile(w, o, "whole")
        PROVE  CacheTypes'
    BY <2>2, CacheSteps DEF TypeInv
  <2> QED BY <1>1, <1>4, <2>1, <2>2, ServeUsesCache
<1>5. ASSUME NEW w \in Endpoints, Crash(w)
      PROVE  CacheTypes'
  BY <1>5, LosesTypes DEF Crash, TypeInv
<1>6. ASSUME NEW w \in Endpoints, Restart(w)
      PROVE  CacheTypes'
  BY <1>1, <1>6 DEF Restart
<1>7. CASE UNCHANGED vars
  BY <1>1, <1>7 DEF vars
<1> QED BY <1>2, <1>3, <1>4, <1>5, <1>6, <1>7 DEF Next

LEMMA ServerTypesStep ==
    ASSUME TypeInv, [Next]_vars
    PROVE  ServerTypes'
<1> DEFINE T == [Requests -> [Endpoints -> SUBSET Objects]]
<1>0. todo \in T /\ local \in T /\ pulled \in T /\ failures \in 0..MaxFailures /\ up \subseteq Endpoints
  BY DEF TypeInv, ServerTypes
<1>1. Fails => failures' \in 0..MaxFailures /\ up' \subseteq Endpoints
  BY <1>0, WorkersAssumption DEF Fails
<1>2. Works => failures' \in 0..MaxFailures /\ up' \subseteq Endpoints
  BY <1>0 DEF Works, faultVars
<1>3. UNCHANGED <<todo, local, pulled>> => todo' \in T /\ local' \in T /\ pulled' \in T
  BY <1>0
<1>4. ASSUME NEW q \in Requests, NEW w \in Endpoints, NEW o \in Objects, Localized(q, w, o)
      PROVE  todo' \in T /\ local' \in T
  BY <1>0, <1>4 DEF Localized
<1>5. ASSUME NEW q \in Requests, NEW w \in Endpoints, FallBack(q, w)
      PROVE  todo' \in T /\ local' \in T
  BY <1>0, <1>5 DEF FallBack
<1>6. ASSUME NEW q \in Requests, Dispatch(q)
      PROVE  ServerTypes'
  <2>1. UNCHANGED <<todo, local, pulled>> /\ (Works \/ Fails)
    BY <1>6 DEF Dispatch, Order, Post, Answer, GiveUp, serverVars
  <2> QED BY <2>1, <1>1, <1>2, <1>3 DEF ServerTypes
<1>7. ASSUME NEW q \in Requests, NEW w \in Endpoints, Receive(q, w)
      PROVE  ServerTypes'
  <2>1. todo' \in T
    BY <1>0, <1>7, WorkersAssumption DEF Receive
  <2>2. UNCHANGED <<local, pulled>> /\ Works
    BY <1>7 DEF Receive
  <2> QED BY <1>0, <1>2, <2>1, <2>2 DEF ServerTypes
<1>8. ASSUME NEW q \in Requests, NEW w \in Endpoints, Serve(q, w)
      PROVE  ServerTypes'
  <2>1. CASE Ensure(q, w)
    <3>1. pulled' = pulled /\ (Works \/ Fails)
      BY <2>1 DEF Ensure
    <3>2. todo' \in T /\ local' \in T
      <4>1. todo[q][w] \subseteq Objects
        BY <1>0
      <4> QED BY <1>3, <1>4, <1>5, <1>0, <2>1, <4>1 DEF Ensure
    <3> QED BY <1>0, <1>1, <1>2, <3>1, <3>2 DEF ServerTypes
  <2>2. CASE TruncateFile(q, w)
    BY <1>2, <1>3, <2>2 DEF TruncateFile, ServerTypes
  <2>3. CASE WriteFile(q, w)
    <3>1. pulled' = pulled /\ (Works \/ Fails)
      BY <2>3 DEF WriteFile
    <3>2. todo' \in T /\ local' \in T
      BY <1>0, <1>5, <2>3 DEF WriteFile, WriteError
    <3> QED BY <1>0, <1>1, <1>2, <3>1, <3>2 DEF ServerTypes
  <2>4. CASE InsertItem(q, w)
    <3>1. todo' \in T /\ local' \in T
      BY <1>4, <2>4 DEF InsertItem
    <3>2. \E gone : pulled' = [r \in Requests |->
                 [pulled[r] EXCEPT ![w] = @ \cup (gone \cap local'[r][w])]]
      BY <2>4 DEF InsertItem
    <3>3. pulled' \in T
      BY <1>0, <3>1, <3>2
    <3>4. Works
      BY <2>4 DEF InsertItem
    <3> QED BY <1>2, <3>1, <3>3, <3>4 DEF ServerTypes
  <2>5. CASE RunStatement(q, w)
    <3>1. todo' \in T /\ local' \in T /\ pulled' \in T
      BY <1>0, <2>5 DEF RunStatement
    <3> QED BY <1>2, <2>5, <3>1 DEF RunStatement, ServerTypes
  <2> QED BY <1>8, <2>1, <2>2, <2>3, <2>4, <2>5 DEF Serve
<1>9. ASSUME NEW w \in Endpoints, Crash(w)
      PROVE  ServerTypes'
  BY <1>0, <1>3, <1>9, WorkersAssumption DEF Crash, ServerTypes
<1>10. ASSUME NEW w \in Endpoints, Restart(w)
       PROVE  ServerTypes'
  BY <1>0, <1>3, <1>10 DEF Restart, serverVars, ServerTypes
<1>11. CASE UNCHANGED vars
  BY <1>2, <1>3, <1>11 DEF vars, serverVars, faultVars, Works, ServerTypes
<1> QED BY <1>6, <1>7, <1>8, <1>9, <1>10, <1>11 DEF Next

LEMMA TypesStart ==
    ASSUME Init
    PROVE  TypeInv
<1>1. CacheTypes
  BY EmptySeq DEF Init, CacheInit, CacheTypes, IsInjective
<1>2. ServerTypes
  BY WorkersAssumption DEF Init, ServerTypes
<1> QED BY <1>1, <1>2 DEF TypeInv

\* The items of a list that has each of them once are as many as the list is long.
LEMMA CountOfList ==
    ASSUME NEW s \in Seq(Objects), IsInjective(s)
    PROVE  Cardinality(Range(s)) = Len(s)
<1>1. DOMAIN s = 1..Len(s) /\ Len(s) \in Nat
  BY LenProperties
<1> DEFINE n == Len(s)
<1>2. IsFiniteSet(1..n) /\ Cardinality(1..n) = n
  <2> HIDE DEF n
  <2>1. n \in Nat
    BY <1>1 DEF n
  <2>2. IsFiniteSet(1..n) /\ Cardinality(1..n) = IF 1 > n THEN 0 ELSE n - 1 + 1
    BY <2>1, FS_Interval
  <2> QED BY <2>1, <2>2
<1>3. s \in Surjection(1..n, Range(s)) /\ s \in Injection(1..n, Range(s))
  <2>1. s \in [1..n -> Range(s)]
    <3>1. s \in [1..n -> Objects]
      BY LenProperties
    <3> QED BY <1>1, <3>1 DEF Range
  <2> QED BY <1>1, <2>1 DEF Surjection, Injection, IsInjective, Range
<1> HIDE DEF n
<1>4. Cardinality(Range(s)) = Cardinality(1..n)
  BY <1>2, <1>3, FS_Surjection
<1> QED BY <1>2, <1>4 DEF n

LEMMA TypesHold ==
    ASSUME TypeInv, DispatchInv
    PROVE  WorkersTypeOK
<1>1. CacheTypeOK
  <2>1. \A w \in Endpoints : lru[w] \in Seq(Objects) /\ Cardinality(Items(w)) = Len(lru[w])
    BY CountOfList DEF TypeInv, CacheTypes, Items
  <2> QED BY <2>1 DEF TypeInv, CacheTypes, CacheTypeOK
<1>2. at \in [Requests -> Places]
  BY DEF DispatchInv, QueryInv
<1>3. \A q \in Requests : ToSet(targets[q]) \subseteq Endpoints /\ tried[q] \in 0..Len(targets[q])
  BY DEF DispatchInv, QueryInv, IsOrder, ToSet
<1>4. inFlight \in [Endpoints -> Nat]
  BY OpenIsFinite DEF DispatchInv, LoadInv
<1>5. run \in [Requests -> [Endpoints -> RunPlaces]]
  BY DEF DispatchInv, RunInv
<1> QED BY <1>1, <1>2, <1>3, <1>4, <1>5 DEF WorkersTypeOK, TypeInv, ServerTypes

-------------------------------------------------------------------------------
(* What a worker's count, items and files have to do with each other        *)

Active == {"localizing"} \cup Copying

\* Every query counts its own copy, and the list has one item of each object:
\* the count is exact until two have copied one.
CountInv(w) ==
    /\ Footprint(w) <= total[w]
    /\ doubled[w] = {} => Footprint(w) = total[w]
    /\ MaxBytes > 0 => total[w] <= MaxBytes \/ lru[w] = <<>>

FileInv(w) == \A o \in Items(w) \ doubled[w] : disk[w][o] = "whole"

\* A query copies one object at a time, and whoever copies one that has an item,
\* or that another copies, is known to copy it twice.
MissInv(w) ==
    \A m \in missing[w] :
        /\ run[m.by][w] \in Copying
        /\ m.object \in Items(w) => m.object \in doubled[w]
        /\ run[m.by][w] = "written" /\ m.object \notin doubled[w] => disk[w][m.object] = "whole"
        /\ \A k \in missing[w] : k # m => k.by # m.by /\ (k.object = m.object => m.object \in doubled[w])

\* What a query reads from the disk is an item, unless it has been pulled away.
LocalInv(w) ==
    \A q \in Requests :
        /\ run[q][w] = "none" => local[q][w] = {}
        /\ run[q][w] \in Active => local[q][w] \subseteq Items(w) \cup pulled[q][w] \cup doubled[w]

WorkerInv(w) == CountInv(w) /\ FileInv(w) /\ MissInv(w) /\ LocalInv(w)

\* The typed part a step's lemma needs, at one worker.
LEMMA TypesAt ==
    ASSUME TypeInv, NEW w \in Endpoints
    PROVE  /\ total[w] \in Int
           /\ disk[w] \in [Objects -> {"absent", "torn", "whole"}]
           /\ missing[w] \subseteq [by : Requests, object : Objects]
           /\ doubled[w] \subseteq Objects
           /\ Items(w) \subseteq Objects
           /\ Footprint(w) \in Nat
<1>1. Items(w) \in SUBSET Objects
  BY RangeOfSeq DEF TypeInv, CacheTypes, Items
<1>2. Footprint(w) \in Nat
  BY <1>1, SumOfItems DEF Footprint
<1> QED BY <1>1, <1>2 DEF TypeInv, CacheTypes

LEMMA WorkerKept ==
    ASSUME NEW v, WorkerInv(v),
           lru'[v] = lru[v], total'[v] = total[v], disk'[v] = disk[v],
           missing'[v] = missing[v], doubled'[v] = doubled[v],
           missing[v] \subseteq [by : Requests, object : Objects],
           \A r \in Requests : /\ run'[r][v] = run[r][v] /\ local'[r][v] = local[r][v]
                               /\ pulled'[r][v] = pulled[r][v]
    PROVE  WorkerInv(v)'
<1>1. Items(v)' = Items(v) /\ Footprint(v)' = Footprint(v)
  BY DEF Items, Footprint
<1>2. CountInv(v)' /\ FileInv(v)'
  BY <1>1 DEF WorkerInv, CountInv, FileInv
<1>3. MissInv(v)'
  BY <1>1 DEF WorkerInv, MissInv
<1>4. LocalInv(v)'
  BY <1>1 DEF WorkerInv, LocalInv
<1> QED BY <1>2, <1>3, <1>4 DEF WorkerInv

\* The count and the files when neither the items nor any whole file change.
LEMMA AccountsKept ==
    ASSUME NEW w, WorkerInv(w), Items(w)' = Items(w),
           (lru[w] = <<>>) => (lru'[w] = <<>>),
           total'[w] = total[w], doubled[w] \subseteq doubled'[w],
           \A o \in Items(w) \ doubled'[w] : disk'[w][o] = disk[w][o]
    PROVE  CountInv(w)' /\ FileInv(w)'
<1>1. Footprint(w)' = Footprint(w)
  BY DEF Footprint
<1>2. CountInv(w)'
  BY <1>1 DEF WorkerInv, CountInv
<1>3. FileInv(w)'
  BY DEF WorkerInv, FileInv
<1> QED BY <1>2, <1>3

\* The query at w goes from a to b; the other queries stay where they are.
Moves(q, w, a, b) ==
    /\ run[q][w] = a /\ run'[q][w] = b
    /\ \A r \in Requests \ {q} : run'[r][w] = run[r][w]

LEMMA GoesIsMove ==
    ASSUME DispatchInv, NEW q \in Requests, NEW w \in Endpoints, NEW a, NEW b,
           RunGoes(q, w, a, b)
    PROVE  Moves(q, w, a, b)
BY DEF RunGoes, Moves, DispatchInv, RunInv

OthersLocal(q, w) ==
    \A r \in Requests \ {q} : local'[r][w] = local[r][w] /\ pulled'[r][w] = pulled[r][w]

LEMMA HitKeeps ==
    ASSUME TypeInv, DispatchInv, NEW q \in Requests, NEW w \in Endpoints, NEW o \in Objects,
           WorkerInv(w), run[q][w] = "localizing", run' = run,
           Hit(w, o), Localized(q, w, o), pulled' = pulled
    PROVE  WorkerInv(w)'
<1>1. Items(w)' = Items(w) /\ (lru[w] = <<>> => lru'[w] = <<>>)
  <2>1. o \in Items(w)
    BY DEF Hit
  <2>2. lru'[w] = Touched(lru[w], o)
    BY DEF Hit, TypeInv, CacheTypes
  <2>3. Range(Touched(lru[w], o)) = Range(lru[w]) \cup {o}
    BY TouchedList DEF TypeInv, CacheTypes
  <2>4. lru[w] # <<>>
    BY <2>1 DEF Items, Range
  <2> QED BY <2>1, <2>2, <2>3, <2>4 DEF Items
<1>2. total' = total /\ disk' = disk /\ missing' = missing /\ doubled' = doubled
  BY DEF Hit
<1>3. /\ local'[q][w] = local[q][w] \cup {o}
      /\ \A r \in Requests \ {q} : local'[r][w] = local[r][w]
  BY DEF Localized, TypeInv, ServerTypes
<1>4. CountInv(w)' /\ FileInv(w)'
  BY <1>1, <1>2, AccountsKept
<1>5. MissInv(w)'
  BY <1>1, <1>2 DEF WorkerInv, MissInv
<1>6. LocalInv(w)'
  <2>1. o \in Items(w)
    BY DEF Hit
  <2> QED BY <1>1, <1>2, <1>3, <2>1 DEF WorkerInv, LocalInv
<1> QED BY <1>4, <1>5, <1>6 DEF WorkerInv

LEMMA MissKeeps ==
    ASSUME TypeInv, DispatchInv, NEW q \in Requests, NEW w \in Endpoints, NEW o \in Objects,
           WorkerInv(w), Moves(q, w, "localizing", "missed"),
           Miss(w, q, o), UNCHANGED <<local, pulled>>
    PROVE  WorkerInv(w)'
<1> DEFINE m == [by |-> q, object |-> o]
<1>1. lru' = lru /\ total' = total /\ disk' = disk /\ Items(w)' = Items(w) /\ o \notin Items(w)
  BY DEF Miss, Items
<1>2. missing'[w] = missing[w] \cup {m}
  BY DEF Miss, TypeInv, CacheTypes
<1>3. /\ doubled[w] \subseteq doubled'[w] /\ doubled'[w] \subseteq doubled[w] \cup {o}
      /\ (\E k \in missing[w] : k.object = o) => o \in doubled'[w]
  BY DEF Miss, TypeInv, CacheTypes
<1>4. m.by = q /\ m.object = o
  OBVIOUS
<1>5. \A k \in missing[w] : k.by \in Requests /\ k.by # q
  BY TypesAt DEF WorkerInv, MissInv, Moves, Copying
<1> HIDE DEF m
<1>6. CountInv(w)' /\ FileInv(w)'
  BY <1>1, <1>3, AccountsKept
<1>7. MissInv(w)'
  <2> SUFFICES ASSUME NEW k \in missing'[w]
               PROVE  /\ run'[k.by][w] \in Copying
                      /\ k.object \in Items(w) => k.object \in doubled'[w]
                      /\ run'[k.by][w] = "written" /\ k.object \notin doubled'[w]
                         => disk'[w][k.object] = "whole"
                      /\ \A l \in missing'[w] : l # k =>
                             l.by # k.by /\ (l.object = k.object => k.object \in doubled'[w])
    BY <1>1 DEF MissInv
  <2>1. CASE k = m
    BY <1>1, <1>2, <1>3, <1>4, <1>5, <2>1 DEF Moves, Copying
  <2>2. CASE k # m
    <3>1. k \in missing[w] /\ run'[k.by][w] = run[k.by][w]
      BY <1>2, <1>5, <2>2 DEF Moves
    <3>2. \A l \in missing'[w] : l = m \/ l \in missing[w]
      BY <1>2
    <3> QED BY <1>1, <1>3, <1>4, <1>5, <3>1, <3>2 DEF WorkerInv, MissInv
  <2> QED BY <2>1, <2>2
<1>8. LocalInv(w)'
  BY <1>1, <1>3 DEF WorkerInv, LocalInv, Moves, Active, Copying
<1> QED BY <1>6, <1>7, <1>8 DEF WorkerInv

\* A query that leaves without a copy under way: nothing of the cache changes.
LEMMA LeaveKeeps ==
    ASSUME TypeInv, DispatchInv, NEW q \in Requests, NEW w \in Endpoints, NEW a, NEW b,
           WorkerInv(w), Moves(q, w, a, b), a \notin Copying, b \notin Active, b # "none",
           UNCHANGED cacheVars, OthersLocal(q, w)
    PROVE  WorkerInv(w)'
<1>1. /\ lru' = lru /\ total' = total /\ disk' = disk /\ missing' = missing /\ doubled' = doubled
      /\ Items(w)' = Items(w)
  BY DEF cacheVars, Items
<1>2. \A k \in missing[w] : k.by \in Requests /\ k.by # q
  BY TypesAt DEF WorkerInv, MissInv, Moves
<1>3. CountInv(w)' /\ FileInv(w)'
  BY <1>1, AccountsKept
<1>4. MissInv(w)'
  BY <1>1, <1>2 DEF WorkerInv, MissInv, Moves
<1>5. LocalInv(w)'
  BY <1>1 DEF WorkerInv, LocalInv, Moves, OthersLocal
<1> QED BY <1>3, <1>4, <1>5 DEF WorkerInv

\* A query that comes: it has localized nothing yet.
LEMMA ComeKeeps ==
    ASSUME TypeInv, DispatchInv, NEW q \in Requests, NEW w \in Endpoints, NEW b,
           WorkerInv(w), Moves(q, w, "none", b), b \notin Copying,
           UNCHANGED <<cacheVars, local, pulled>>
    PROVE  WorkerInv(w)'
<1>1. /\ lru' = lru /\ total' = total /\ disk' = disk /\ missing' = missing /\ doubled' = doubled
      /\ Items(w)' = Items(w)
  BY DEF cacheVars, Items
<1>2. \A k \in missing[w] : k.by \in Requests /\ k.by # q
  BY TypesAt DEF WorkerInv, MissInv, Moves, Copying
<1>3. CountInv(w)' /\ FileInv(w)'
  BY <1>1, AccountsKept
<1>4. MissInv(w)'
  BY <1>1, <1>2 DEF WorkerInv, MissInv, Moves
<1>5. LocalInv(w)'
  BY <1>1 DEF WorkerInv, LocalInv, Moves
<1> QED BY <1>3, <1>4, <1>5 DEF WorkerInv

\* The file of an object under way is truncated or written.
LEMMA FileKeeps ==
    ASSUME TypeInv, DispatchInv, NEW q \in Requests, NEW w \in Endpoints, NEW o \in Objects,
           NEW a \in Copying, NEW b \in Copying, NEW c,
           WorkerInv(w), Moves(q, w, a, b), Missing(q, w, o), SetFile(w, o, c),
           b = "written" => c = "whole", a # "written",
           UNCHANGED <<local, pulled>>
    PROVE  WorkerInv(w)'
<1> DEFINE m == [by |-> q, object |-> o]
<1>1. /\ lru' = lru /\ total' = total /\ missing' = missing /\ doubled' = doubled
      /\ Items(w)' = Items(w)
  BY DEF SetFile, Items
<1>2. \A p \in Objects : disk'[w][p] = IF p = o THEN c ELSE disk[w][p]
  <2>1. disk' = [disk EXCEPT ![w][o] = c]
    BY DEF SetFile
  <2> QED BY <2>1, TypesAt DEF TypeInv, CacheTypes
<1>3. m \in missing[w] /\ m.by = q /\ m.object = o
  BY DEF Missing
<1> HIDE DEF m
<1>4. o \in Items(w) => o \in doubled[w]
  BY <1>3 DEF WorkerInv, MissInv
<1>5. CountInv(w)' /\ FileInv(w)'
  BY <1>1, <1>2, <1>4, TypesAt, AccountsKept
<1>6. MissInv(w)'
  <2> SUFFICES ASSUME NEW k \in missing[w]
               PROVE  /\ run'[k.by][w] \in Copying
                      /\ k.object \in Items(w) => k.object \in doubled[w]
                      /\ run'[k.by][w] = "written" /\ k.object \notin doubled[w]
                         => disk'[w][k.object] = "whole"
                      /\ \A l \in missing[w] : l # k =>
                             l.by # k.by /\ (l.object = k.object => k.object \in doubled[w])
    BY <1>1 DEF MissInv
  <2>1. k.by \in Requests /\ k.object \in Objects
    BY TypesAt
  <2>2. CASE k = m
    BY <1>2, <1>3, <2>1, <2>2 DEF WorkerInv, MissInv, Moves
  <2>3. CASE k # m
    <3>1. k.by # q /\ (k.object = o => o \in doubled[w])
      BY <1>3, <2>3 DEF WorkerInv, MissInv
    <3>2. run'[k.by][w] = run[k.by][w]
      BY <2>1, <3>1 DEF Moves
    <3>3. k.object \notin doubled[w] => disk'[w][k.object] = disk[w][k.object]
      BY <1>2, <2>1, <3>1
    <3> QED BY <3>2, <3>3 DEF WorkerInv, MissInv
  <2> QED BY <2>2, <2>3
<1>7. LocalInv(w)'
  BY <1>1 DEF WorkerInv, LocalInv, Moves, Active, Copying
<1> QED BY <1>5, <1>6, <1>7 DEF WorkerInv

LEMMA FailedCopyKeeps ==
    ASSUME TypeInv, DispatchInv, NEW q \in Requests, NEW w \in Endpoints,
           WorkerInv(w), Moves(q, w, "writing", "original"), GiveUpMiss(w, q),
           OthersLocal(q, w)
    PROVE  WorkerInv(w)'
<1>1. /\ lru' = lru /\ total' = total /\ disk' = disk /\ doubled' = doubled
      /\ Items(w)' = Items(w)
  BY DEF GiveUpMiss, Items
<1>2. missing'[w] = {m \in missing[w] : m.by # q}
  BY DEF GiveUpMiss, TypeInv, CacheTypes
<1>3. CountInv(w)' /\ FileInv(w)'
  BY <1>1, AccountsKept
<1>4. MissInv(w)'
  <2>1. \A k \in missing'[w] : k \in missing[w] /\ run'[k.by][w] = run[k.by][w]
    BY <1>2, TypesAt DEF Moves
  <2> QED BY <1>1, <2>1 DEF WorkerInv, MissInv
<1>5. LocalInv(w)'
  BY <1>1 DEF WorkerInv, LocalInv, Moves, OthersLocal, Active, Copying
<1> QED BY <1>3, <1>4, <1>5 DEF WorkerInv

\* The footprint of the items after an insertion that makes room.
LEMMA FootprintAfter ==
    ASSUME TypeInv, NEW w \in Endpoints, NEW o \in Objects,
           NEW gone \in SUBSET (Items(w) \cup {o}), Items(w)' = (Items(w) \cup {o}) \ gone
    PROVE  /\ SumFunctionOnSet(Size, gone) \in Nat
           /\ Footprint(w)' = (IF o \in Items(w) THEN Footprint(w) ELSE Footprint(w) + Size[o])
                                - SumFunctionOnSet(Size, gone)
<1> DEFINE Sum(T) == SumFunctionOnSet(Size, T)
           I == Items(w)
           all == I \cup {o}
<1>1. IsFiniteSet(Objects) /\ Size \in [Objects -> Int] /\ Size[o] \in Nat
  BY DataCacheAssumption
<1>2. I \in SUBSET Objects /\ all \in SUBSET Objects
  BY TypesAt
<1>3. \A T \in SUBSET Objects : Sum(T) \in Nat
  BY SumOfItems
<1> HIDE DEF I
<1>4. Sum(all) = IF o \in I THEN Sum(I) ELSE Sum(I) + Size[o]
  <2>1. CASE o \in I
    <3>1. all = I
      BY <2>1
    <3> QED BY <2>1, <3>1
  <2>2. CASE o \notin I
    <3>1. all \ {o} = I /\ o \in all
      BY <2>2
    <3> HIDE DEF all
    <3>2. Sum(all) = Size[o] + Sum(all \ {o})
      BY <1>1, <1>2, <3>1, SumOfMember
    <3> QED BY <1>1, <1>2, <1>3, <2>2, <3>1, <3>2
  <2> QED BY <2>1, <2>2
<1>5. gone \in SUBSET all
  BY DEF I
<1>6. Items(w)' = all \ gone
  BY DEF I
<1> HIDE DEF all
<1>7. Sum(all) = Sum(gone) + Sum(all \ gone)
  BY <1>1, <1>2, <1>5, SumOfParts
<1>8. Sum(gone) \in Nat /\ Sum(all \ gone) \in Nat /\ Sum(all) \in Nat /\ Sum(I) \in Nat
  BY <1>2, <1>3, <1>5
<1>9. Footprint(w)' = Sum(all \ gone) /\ Footprint(w) = Sum(I)
  BY <1>6 DEF Footprint, I
<1> HIDE DEF Sum
<1>10. Footprint(w)' = (IF o \in I THEN Footprint(w) ELSE Footprint(w) + Size[o]) - Sum(gone)
  BY <1>1, <1>4, <1>7, <1>8, <1>9
<1> QED BY <1>8, <1>10 DEF Sum, I

LEMMA InsertKeeps ==
    ASSUME TypeInv, DispatchInv, NEW q \in Requests, NEW w \in Endpoints, NEW o \in Objects,
           WorkerInv(w), Moves(q, w, "written", "localizing"),
           Missing(q, w, o), Insert(w, q, o), Localized(q, w, o),
           LET gone == (Items(w) \cup {o}) \ Range(lru'[w]) IN
           pulled' = [r \in Requests |->
                         [pulled[r] EXCEPT ![w] = @ \cup (gone \cap local'[r][w])]]
    PROVE  WorkerInv(w)'
<1> DEFINE m == [by |-> q, object |-> o]
           I == Items(w)
<1>1. PICK gone \in SUBSET (I \cup {o}) : MakesRoom(w, o, gone)
  BY Inserted DEF TypeInv
<1>2. Items(w)' = (I \cup {o}) \ gone
  BY <1>1 DEF MakesRoom
<1>3. m \in missing[w] /\ m.by = q /\ m.object = o
  BY DEF Missing
<1>4. missing'[w] = missing[w] \ {m} /\ doubled' = doubled
  BY DEF Insert, TypeInv, CacheTypes
<1>5. \A p \in Objects : disk'[w][p] = IF p \in gone THEN "absent" ELSE disk[w][p]
  BY <1>1 DEF MakesRoom, TypeInv, CacheTypes
<1>6. \A r \in Requests :
          pulled'[r][w] = pulled[r][w] \cup (gone \cap local'[r][w])
  <2>1. (I \cup {o}) \ Range(lru'[w]) = gone
    BY <1>2 DEF Items
  <2>2. pulled' = [r \in Requests |-> [pulled[r] EXCEPT ![w] = @ \cup (gone \cap local'[r][w])]]
    BY <2>1
  <2> QED BY <2>2 DEF TypeInv, ServerTypes
<1>7. /\ local'[q][w] = local[q][w] \cup {o}
      /\ \A r \in Requests \ {q} : local'[r][w] = local[r][w]
  BY DEF Localized, TypeInv, ServerTypes
<1> HIDE DEF m
<1>8. I \subseteq Objects
  BY TypesAt
<1>9. o \in I => o \in doubled[w]
  BY <1>3 DEF WorkerInv, MissInv
<1>10. CountInv(w)'
  <2>1. /\ SumFunctionOnSet(Size, gone) \in Nat
        /\ Footprint(w)' = (IF o \in I THEN Footprint(w) ELSE Footprint(w) + Size[o])
                             - SumFunctionOnSet(Size, gone)
    BY <1>2, FootprintAfter
  <2>2. total'[w] = (total[w] + Size[o]) - SumFunctionOnSet(Size, gone)
    BY <1>1 DEF MakesRoom, TypeInv, CacheTypes
  <2>3. Size[o] \in Nat /\ total[w] \in Int /\ Footprint(w) \in Nat
    BY DataCacheAssumption, TypesAt
  <2>4. MaxBytes > 0 => total'[w] <= MaxBytes \/ lru'[w] = <<>>
    BY <1>1 DEF MakesRoom
  <2>5. Footprint(w) <= total[w] /\ (doubled[w] = {} => Footprint(w) = total[w])
    BY DEF WorkerInv, CountInv
  <2>6. Footprint(w)' <= total'[w]
    BY <2>1, <2>2, <2>3, <2>5
  <2>7. doubled'[w] = {} => Footprint(w)' = total'[w]
    BY <1>4, <1>9, <2>1, <2>2, <2>3, <2>5
  <2> QED BY <2>4, <2>6, <2>7 DEF CountInv
<1>11. FileInv(w)'
  <2> SUFFICES ASSUME NEW p \in Items(w)', p \notin doubled[w]
               PROVE  disk'[w][p] = "whole"
    BY <1>4 DEF FileInv
  <2>1. p \notin gone /\ p \in Objects /\ disk'[w][p] = disk[w][p]
    BY <1>2, <1>5, <1>8
  <2>2. CASE p \in I
    BY <2>1, <2>2 DEF WorkerInv, FileInv
  <2>3. CASE p = o
    BY <1>3, <2>1, <2>3 DEF WorkerInv, MissInv, Moves
  <2> QED BY <1>2, <2>2, <2>3
<1>12. MissInv(w)'
  <2> SUFFICES ASSUME NEW k \in missing[w], k # m
               PROVE  /\ run'[k.by][w] \in Copying
                      /\ k.object \in Items(w)' => k.object \in doubled[w]
                      /\ run'[k.by][w] = "written" /\ k.object \notin doubled[w]
                         => disk'[w][k.object] = "whole"
                      /\ \A l \in missing[w] : l # k =>
                             l.by # k.by /\ (l.object = k.object => k.object \in doubled[w])
    BY <1>4 DEF MissInv
  <2>1. k.by \in Requests /\ k.object \in Objects
    BY TypesAt
  <2>2. k.by # q /\ (k.object = o => k.object \in doubled[w])
    BY <1>3 DEF WorkerInv, MissInv
  <2>3. run'[k.by][w] = run[k.by][w]
    BY <2>1, <2>2 DEF Moves
  <2>4. k.object \in I \cup {o} => k.object \in doubled[w]
    BY <2>2 DEF WorkerInv, MissInv
  <2>5. k.object \notin doubled[w] => disk'[w][k.object] = disk[w][k.object]
    BY <1>5, <2>1, <2>4
  <2> QED BY <1>2, <2>3, <2>4, <2>5 DEF WorkerInv, MissInv
<1>13. LocalInv(w)'
  <2> SUFFICES ASSUME NEW r \in Requests
               PROVE  /\ run'[r][w] = "none" => local'[r][w] = {}
                      /\ run'[r][w] \in Active =>
                             local'[r][w] \subseteq Items(w)' \cup pulled'[r][w] \cup doubled[w]
    BY <1>4 DEF LocalInv
  <2>1. /\ run[r][w] = "none" => local[r][w] = {}
        /\ run[r][w] \in Active => local[r][w] \subseteq I \cup pulled[r][w] \cup doubled[w]
    BY DEF WorkerInv, LocalInv
  <2>2. CASE r = q
    <3>1. local[r][w] \subseteq I \cup pulled[r][w] \cup doubled[w]
      BY <2>1, <2>2 DEF Moves, Active, Copying
    <3>2. run'[r][w] = "localizing"
      BY <2>2 DEF Moves
    <3> HIDE DEF I
    <3> QED BY <1>2, <1>6, <1>7, <2>2, <3>1, <3>2
  <2>3. CASE r # q
    <3>1. run'[r][w] = run[r][w] /\ local'[r][w] = local[r][w]
      BY <1>7, <2>3 DEF Moves
    <3> HIDE DEF I
    <3> QED BY <1>2, <1>6, <2>1, <3>1
  <2> QED BY <2>2, <2>3
<1> QED BY <1>10, <1>11, <1>12, <1>13 DEF WorkerInv

LEMMA CrashKeeps ==
    ASSUME TypeInv, DispatchInv, NEW w \in Endpoints, WorkerInv(w), Crash(w)
    PROVE  WorkerInv(w)'
<1>1. /\ lru'[w] = <<>> /\ total'[w] = 0 /\ missing'[w] = {} /\ disk' = disk /\ doubled' = doubled
      /\ local' = local
  BY DEF Crash, LoseItems, TypeInv, CacheTypes
<1>2. \A r \in Requests : run'[r][w] \in {"none", "lost"} /\ (run'[r][w] = "none" => run[r][w] = "none")
  <2>1. run' = [r \in Requests |-> [run[r] EXCEPT ![w] = IF @ = "none" THEN @ ELSE "lost"]]
    BY DEF Crash
  <2> QED BY <2>1 DEF DispatchInv, RunInv
<1>3. Items(w)' = {}
  BY <1>1 DEF Items, Range
<1>4. Footprint(w)' = 0
  BY <1>3, SumOfNone DEF Footprint
<1>5. CountInv(w)' /\ FileInv(w)' /\ MissInv(w)'
  BY <1>1, <1>3, <1>4 DEF CountInv, FileInv, MissInv
<1>6. LocalInv(w)'
  BY <1>1, <1>2 DEF WorkerInv, LocalInv, Active, Copying
<1> QED BY <1>5, <1>6 DEF WorkerInv

AllWorkers == \A w \in Endpoints : WorkerInv(w)

\* Nothing at v changes.
Untouched(v) ==
    /\ lru'[v] = lru[v] /\ total'[v] = total[v] /\ disk'[v] = disk[v]
    /\ missing'[v] = missing[v] /\ doubled'[v] = doubled[v]
    /\ \A r \in Requests : /\ run'[r][v] = run[r][v] /\ local'[r][v] = local[r][v]
                           /\ pulled'[r][v] = pulled[r][v]

LEMMA UntouchedKeeps ==
    ASSUME TypeInv, NEW v \in Endpoints, WorkerInv(v), Untouched(v)
    PROVE  WorkerInv(v)'
BY TypesAt, WorkerKept DEF Untouched

LEMMA ServeElsewhere ==
    ASSUME TypeInv, DispatchInv, NEW q \in Requests, NEW w \in Endpoints, Serve(q, w),
           NEW v \in Endpoints, v # w
    PROVE  Untouched(v)
<1>1. /\ lru'[v] = lru[v] /\ total'[v] = total[v] /\ disk'[v] = disk[v]
      /\ missing'[v] = missing[v] /\ doubled'[v] = doubled[v]
  <2>1. CASE UNCHANGED cacheVars
    BY <2>1 DEF cacheVars
  <2>2. CASE GiveUpMiss(w, q)
    BY <2>2 DEF GiveUpMiss, TypeInv, CacheTypes
  <2>3. ASSUME NEW o \in Objects,
               \/ Hit(w, o) \/ Miss(w, q, o) \/ Insert(w, q, o)
               \/ SetFile(w, o, "torn") \/ SetFile(w, o, "whole")
        PROVE  /\ lru'[v] = lru[v] /\ total'[v] = total[v] /\ disk'[v] = disk[v]
               /\ missing'[v] = missing[v] /\ doubled'[v] = doubled[v]
    BY <2>3 DEF Hit, Miss, Insert, SetFile, TypeInv, CacheTypes
  <2> QED BY <2>1, <2>2, <2>3, ServeUsesCache
<1>2. \A r \in Requests : run'[r][v] = run[r][v]
  <2>1. PICK b \in RunPlaces : run' = [run EXCEPT ![q][w] = b]
    BY ServeRuns DEF DispatchInv
  <2> QED BY <2>1 DEF DispatchInv, RunInv
<1>3. ASSUME NEW o, Localized(q, w, o)
      PROVE  \A r \in Requests : local'[r][v] = local[r][v]
  BY <1>3 DEF Localized, TypeInv, ServerTypes
<1>4. ASSUME FallBack(q, w)
      PROVE  \A r \in Requests : local'[r][v] = local[r][v]
  BY <1>4 DEF FallBack, TypeInv, ServerTypes
<1>5. \A r \in Requests : local'[r][v] = local[r][v] /\ pulled'[r][v] = pulled[r][v]
  <2>1. CASE Ensure(q, w)
    <3>1. pulled' = pulled /\ (local' = local \/ FallBack(q, w) \/ \E o : Localized(q, w, o))
      BY <2>1 DEF Ensure
    <3> QED BY <1>3, <1>4, <3>1
  <2>2. CASE TruncateFile(q, w)
    BY <2>2 DEF TruncateFile
  <2>3. CASE WriteFile(q, w)
    BY <1>4, <2>3 DEF WriteFile, WriteError
  <2>4. CASE InsertItem(q, w)
    <3>1. \E gone : pulled' = [r \in Requests |->
                 [pulled[r] EXCEPT ![w] = @ \cup (gone \cap local'[r][w])]]
      BY <2>4 DEF InsertItem
    <3>2. \A r \in Requests : pulled'[r][v] = pulled[r][v]
      BY <3>1 DEF TypeInv, ServerTypes
    <3> QED BY <1>3, <2>4, <3>2 DEF InsertItem
  <2>5. CASE RunStatement(q, w)
    BY <2>5 DEF RunStatement, TypeInv, ServerTypes
  <2> QED BY <2>1, <2>2, <2>3, <2>4, <2>5 DEF Serve
<1> QED BY <1>1, <1>2, <1>5 DEF Untouched

LEMMA ServeKeeps ==
    ASSUME TypeInv, DispatchInv, NEW q \in Requests, NEW w \in Endpoints, Serve(q, w),
           WorkerInv(w)
    PROVE  WorkerInv(w)'
<1>1. ASSUME FallBack(q, w), pulled' = pulled
      PROVE  run' = [run EXCEPT ![q][w] = "original"] /\ OthersLocal(q, w)
  BY <1>1 DEF FallBack, OthersLocal, TypeInv, ServerTypes
<1>2. CASE Ensure(q, w)
  <2>1. run[q][w] = "localizing" /\ pulled' = pulled /\ todo[q][w] \subseteq Objects
    BY <1>2 DEF Ensure, TypeInv, ServerTypes
  <2>2. ASSUME NEW o \in Objects, Hit(w, o), Localized(q, w, o), UNCHANGED run
        PROVE  WorkerInv(w)'
    BY <2>1, <2>2, HitKeeps
  <2>3. ASSUME NEW o \in Objects, Miss(w, q, o), RunGoes(q, w, "localizing", "missed"), local' = local
        PROVE  WorkerInv(w)'
    BY <2>1, <2>3, GoesIsMove, MissKeeps
  <2>4. ASSUME FallBack(q, w), UNCHANGED cacheVars
        PROVE  WorkerInv(w)'
    <3>1. Moves(q, w, "localizing", "original")
      BY <1>1, <2>1, <2>4 DEF Moves, DispatchInv, RunInv
    <3> QED BY <1>1, <2>1, <2>4, <3>1, LeaveKeeps DEF Active, Copying
  <2> QED BY <1>2, <2>1, <2>2, <2>3, <2>4 DEF Ensure
<1>3. CASE TruncateFile(q, w)
  <2>1. PICK o \in Objects : Missing(q, w, o) /\ SetFile(w, o, "torn")
    BY <1>3 DEF TruncateFile
  <2>2. Moves(q, w, "missed", "writing") /\ UNCHANGED <<local, pulled>>
    BY <1>3, GoesIsMove DEF TruncateFile
  <2> QED BY <2>1, <2>2, FileKeeps DEF Copying
<1>4. CASE WriteFile(q, w)
  <2>1. pulled' = pulled
    BY <1>4 DEF WriteFile
  <2>2. ASSUME NEW o \in Objects, Missing(q, w, o), SetFile(w, o, "whole"),
               RunGoes(q, w, "writing", "written"), local' = local
        PROVE  WorkerInv(w)'
    <3>1. Moves(q, w, "writing", "written")
      BY <2>2, GoesIsMove
    <3> QED BY <2>1, <2>2, <3>1, FileKeeps DEF Copying
  <2>3. ASSUME WriteError(q, w)
        PROVE  WorkerInv(w)'
    <3>1. run[q][w] = "writing" /\ GiveUpMiss(w, q) /\ FallBack(q, w)
      BY <2>3 DEF WriteError
    <3>2. Moves(q, w, "writing", "original") /\ OthersLocal(q, w)
      BY <1>1, <2>1, <3>1 DEF Moves, DispatchInv, RunInv
    <3> QED BY <3>1, <3>2, FailedCopyKeeps
  <2> QED BY <1>4, <2>2, <2>3 DEF WriteFile
<1>5. CASE InsertItem(q, w)
  <2>1. PICK o \in Objects :
           /\ Missing(q, w, o) /\ Insert(w, q, o) /\ Localized(q, w, o)
           /\ LET gone == (Items(w) \cup {o}) \ Range(lru'[w]) IN
              pulled' = [r \in Requests |->
                            [pulled[r] EXCEPT ![w] = @ \cup (gone \cap local'[r][w])]]
    BY <1>5 DEF InsertItem
  <2>2. Moves(q, w, "written", "localizing")
    BY <1>5, GoesIsMove DEF InsertItem
  <2> QED BY <2>1, <2>2, InsertKeeps
<1>6. CASE RunStatement(q, w)
  <2>1. PICK a \in {"localizing", "original"} : RunGoes(q, w, a, "ran")
    BY <1>6 DEF RunStatement
  <2>2. Moves(q, w, a, "ran") /\ UNCHANGED cacheVars
    BY <1>6, <2>1, GoesIsMove DEF RunStatement
  <2>3. OthersLocal(q, w)
    BY <1>6 DEF RunStatement, OthersLocal, TypeInv, ServerTypes
  <2> QED BY <2>2, <2>3, LeaveKeeps DEF Active, Copying
<1> QED BY <1>2, <1>3, <1>4, <1>5, <1>6 DEF Serve

LEMMA WorkersStep ==
    ASSUME TypeInv, DispatchInv, AllWorkers, [Next]_vars
    PROVE  AllWorkers'
<1> SUFFICES ASSUME NEW v \in Endpoints
             PROVE  WorkerInv(v)'
  BY DEF AllWorkers
<1>0. WorkerInv(v)
  BY DEF AllWorkers
<1>1. CASE Untouched(v)
  BY <1>0, <1>1, UntouchedKeeps
<1>2. CASE UNCHANGED <<cacheVars, run, local, pulled>>
  BY <1>1, <1>2 DEF Untouched, cacheVars
<1>3. ASSUME NEW q \in Requests, Dispatch(q)
      PROVE  WorkerInv(v)'
  BY <1>2, <1>3 DEF Dispatch, Order, Post, Answer, GiveUp, serverVars
<1>4. ASSUME NEW q \in Requests, NEW w \in Endpoints, Receive(q, w)
      PROVE  WorkerInv(v)'
  <2>1. /\ RunGoes(q, w, "none", AfterReceive(w)) /\ UNCHANGED <<cacheVars, local, pulled>>
    BY <1>4 DEF Receive
  <2>2. CASE v = w
    <3>1. Moves(q, w, "none", AfterReceive(w)) /\ AfterReceive(w) \notin Copying
      BY <2>1, GoesIsMove DEF AfterReceive, Copying
    <3> QED BY <1>0, <2>1, <2>2, <3>1, ComeKeeps
  <2>3. CASE v # w
    <3>1. \A r \in Requests : run'[r][v] = run[r][v]
      BY <2>1, <2>3 DEF RunGoes, DispatchInv, RunInv
    <3> QED BY <1>1, <2>1, <3>1 DEF Untouched, cacheVars
  <2> QED BY <2>2, <2>3
<1>5. ASSUME NEW q \in Requests, NEW w \in Endpoints, Serve(q, w)
      PROVE  WorkerInv(v)'
  BY <1>0, <1>1, <1>5, ServeElsewhere, ServeKeeps
<1>6. ASSUME NEW w \in Endpoints, Crash(w)
      PROVE  WorkerInv(v)'
  <2>1. CASE v # w
    <3>1. /\ lru'[v] = lru[v] /\ total'[v] = total[v] /\ disk'[v] = disk[v]
          /\ missing'[v] = missing[v] /\ doubled'[v] = doubled[v]
      BY <1>6, <2>1 DEF Crash, LoseItems, TypeInv, CacheTypes
    <3>2. run' = [r \in Requests |-> [run[r] EXCEPT ![w] = IF @ = "none" THEN @ ELSE "lost"]]
      BY <1>6 DEF Crash
    <3>3. \A r \in Requests : run'[r][v] = run[r][v]
      BY <2>1, <3>2 DEF DispatchInv, RunInv
    <3>4. local' = local /\ pulled' = pulled
      BY <1>6 DEF Crash
    <3> QED BY <1>1, <3>1, <3>3, <3>4 DEF Untouched
  <2> QED BY <1>0, <1>6, <2>1, CrashKeeps
<1>7. ASSUME NEW w \in Endpoints, Restart(w)
      PROVE  WorkerInv(v)'
  BY <1>2, <1>7 DEF Restart, serverVars
<1>8. CASE UNCHANGED vars
  BY <1>2, <1>8 DEF vars, serverVars
<1> QED BY <1>3, <1>4, <1>5, <1>6, <1>7, <1>8 DEF Next

LEMMA WorkersStart ==
    ASSUME Init
    PROVE  AllWorkers
<1> SUFFICES ASSUME NEW w \in Endpoints
             PROVE  WorkerInv(w)
  BY DEF AllWorkers
<1>1. lru[w] = <<>> /\ total[w] = 0 /\ missing[w] = {} /\ \A q \in Requests : run[q][w] = "none" /\ local[q][w] = {}
  BY DEF Init, CacheInit
<1>2. Items(w) = {}
  BY <1>1 DEF Items, Range
<1>3. Footprint(w) = 0
  BY <1>2, SumOfNone DEF Footprint
<1> QED BY <1>1, <1>2, <1>3 DEF WorkerInv, CountInv, FileInv, MissInv, LocalInv, Active, Copying

-------------------------------------------------------------------------------
(* The theorems                                                             *)

WorkersInv == TypeInv /\ DispatchInv /\ AllWorkers

LEMMA Holds == Spec => []WorkersInv
<1>1. Init => WorkersInv
  BY TypesStart, DispatchStarts, WorkersStart DEF WorkersInv
<1>2. WorkersInv /\ [Next]_vars => WorkersInv'
  <2> SUFFICES ASSUME WorkersInv, [Next]_vars PROVE WorkersInv'
    OBVIOUS
  <2>1. TypeInv'
    BY CacheTypesStep, ServerTypesStep DEF WorkersInv, TypeInv
  <2>2. DispatchInv'
    BY DispatchStep DEF WorkersInv
  <2>3. AllWorkers'
    BY WorkersStep DEF WorkersInv
  <2> QED BY <2>1, <2>2, <2>3 DEF WorkersInv
<1> QED BY <1>1, <1>2, PTL DEF Spec

\* Every list, count, file, query and counter stays of its type; no object is
\* twice in a list of items (NewDataCache, Ensure, RemoteExecutor, Server).
THEOREM TypeCorrect == Spec => []WorkersTypeOK
<1>1. WorkersInv => WorkersTypeOK
  BY TypesHold DEF WorkersInv
<1> QED BY <1>1, Holds, PTL

\* Fail-over tries every worker once before a query fails, no worker runs what was
\* not sent to it or runs it unauthorized, and the load counters that order the
\* workers count the open posts (RemoteExecutor.Execute, post; checkSecret).
THEOREM FailOverIsSound == Spec => []DispatchSound
<1>1. WorkersInv => DispatchSound
  BY DispatchIsSound DEF WorkersInv
<1> QED BY <1>1, Holds, PTL

\* The byte count of a data cache never misses an item, is exact while no object
\* was copied twice at once, and is under the cap as long as anything is left to
\* evict; the file of every other item is whole (Ensure, evictLocked).
THEOREM AccountsHold == Spec => []CacheAccounts
<1>1. WorkersInv => CacheAccounts
  BY DEF WorkersInv, AllWorkers, WorkerInv, CountInv, FileInv, CacheAccounts
<1> QED BY <1>1, Holds, PTL

\* A statement that reads local files reads whole ones, unless one was evicted
\* since or copied twice at once (RewriteBindings, Ensure, evictLocked).
THEOREM LocalFilesAreWhole == Spec => []LocalFilesWhole
<1>1. ASSUME WorkersInv, NEW q \in Requests, NEW w \in Endpoints,
             run[q][w] = "localizing",
             NEW o \in local[q][w] \ (pulled[q][w] \cup doubled[w])
      PROVE  disk[w][o] = "whole"
  BY <1>1 DEF WorkersInv, AllWorkers, WorkerInv, FileInv, LocalInv, Active
<1>2. WorkersInv => LocalFilesWhole
  BY <1>1 DEF LocalFilesWhole
<1> QED BY <1>2, Holds, PTL

===============================================================================
