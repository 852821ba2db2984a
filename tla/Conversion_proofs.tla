---------------------------- MODULE Conversion_proofs ----------------------------
(***************************************************************************)
(* Proofs about what conversions compute, for any converters, preferences  *)
(* and cache.  The searches are folds: of each it is shown that the fold   *)
(* has a value, and then that its steps keep what is claimed of the value. *)
(***************************************************************************)
EXTENDS Conversion, SequenceTheorems, WellFoundedInduction, TLAPS

-----------------------------------------------------------------------------
(* Folds.                                                                  *)

\* A set of natural numbers that is not empty has a least element.
LEMMA LeastNumber ==
  ASSUME NEW T \in SUBSET Nat, T # {}
  PROVE  \E n \in T : \A m \in T : n <= m
<1>1. PICK n \in T : \A m \in T : ~(<<m, n>> \in OpToRel(<, Nat))
  BY NatLessThanWellFounded, WFMin, Zenon
<1>2. ASSUME NEW m \in T
      PROVE  n <= m
  <2>1. n \in Nat /\ m \in Nat /\ <<m, n>> \in Nat \X Nat
    OBVIOUS
  <2>2. ~(m < n)
    BY <1>1, <2>1, Zenon DEF OpToRel
  <2> QED
    BY <2>1, <2>2
<1> QED
  BY <1>2

\* What holds of 0, and of each number after one that it holds of, holds up to n.
LEMMA HoldsUpTo ==
  ASSUME NEW n \in Nat, NEW S, 0 \in S, \A k \in 1 .. n : k - 1 \in S => k \in S
  PROVE  \A k \in 0 .. n : k \in S
<1> DEFINE T == {k \in 0 .. n : k \notin S}
<1>1. SUFFICES ASSUME T # {} PROVE FALSE
  BY <1>1
<1>2. PICK k \in T : \A m \in T : k <= m
  <2>1. T \in SUBSET Nat
    OBVIOUS
  <2> HIDE DEF T
  <2> QED
    BY <1>1, <2>1, LeastNumber
<1>3. k \in 1 .. n /\ k - 1 \in 0 .. n /\ ~(k <= k - 1)
  BY <1>2
<1>4. k - 1 \notin T
  <2> HIDE DEF T
  <2> QED
    BY <1>2, <1>3
<1> QED
  BY <1>2, <1>3, <1>4

\* Of the numbers up to n, some have a largest one.
LEMMA MaxOfNumbers ==
  ASSUME NEW n \in Nat, NEW s \in SUBSET (1 .. n), s # {}
  PROVE  Max(s) \in s /\ \A i \in s : i <= Max(s)
<1> DEFINE T == {k \in Nat : \A i \in s : i <= k}
<1>1. n \in T /\ T \in SUBSET Nat
  OBVIOUS
<1>2. PICK k \in T : \A m \in T : k <= m
  BY <1>1, LeastNumber
<1>3. k \in s
  <2>1. SUFFICES ASSUME k \notin s PROVE FALSE
    OBVIOUS
  <2>2. PICK i \in s : TRUE
    OBVIOUS
  <2>3. i \in Nat /\ i > 0 /\ i <= k /\ k \in Nat
    BY <2>2
  <2>4. k - 1 \in Nat /\ \A j \in s : j \in Nat /\ j <= k /\ j # k
    BY <2>1, <2>3
  <2>5. k - 1 \in T
    BY <2>3, <2>4
  <2> QED
    BY <1>2, <2>3, <2>5
<1>4. \E x \in s : \A y \in s : x >= y
  BY <1>2, <1>3
<1>5. Max(s) \in s /\ \A y \in s : Max(s) >= y
  BY <1>4, Zenon DEF Max
<1> QED
  BY <1>5

LEMMA Segments ==
  ASSUME NEW n \in Nat, NEW i \in 1 .. n
  PROVE  /\ 1 .. i \in SUBSET (1 .. n) /\ 1 .. i # {} /\ Max(1 .. i) = i
         /\ (1 .. i) \ {i} = 1 .. i - 1 /\ 1 .. i - 1 \in SUBSET (1 .. n)
<1>1. i \in Nat /\ i \in 1 .. i /\ 1 .. i \in SUBSET (1 .. i)
  OBVIOUS
<1>2. Max(1 .. i) \in 1 .. i /\ i <= Max(1 .. i)
  BY <1>1, MaxOfNumbers
<1> QED
  BY <1>1, <1>2

\* What FoldLeft does with the numbers up to n.
FoldsTo(g, F, base, n) ==
  g = [s \in SUBSET (1 .. n) |-> IF s = {} THEN base ELSE F[<<g[s \ {Max(s)}], Max(s)>>]]

\* A fold over the first n numbers with a step F has a value for each set of them.
LEMMA FoldExists ==
  ASSUME NEW n \in Nat, NEW V, NEW base \in V, NEW F \in [V \X (1 .. n) -> V]
  PROVE  \E g \in [SUBSET (1 .. n) -> V] : FoldsTo(g, F, base, n)
<1> DEFINE Good(k, g) == /\ g \in [SUBSET (1 .. k) -> V]
                         /\ \A s \in SUBSET (1 .. k) :
                              g[s] = IF s = {} THEN base ELSE F[<<g[s \ {Max(s)}], Max(s)>>]
           T == {k \in 0 .. n : ~ \E g : Good(k, g)}
<1>1. T = {}
  <2> SUFFICES ASSUME T # {} PROVE FALSE
    OBVIOUS
  <2>1. PICK k \in T : \A m \in T : k <= m
    <3>1. T \in SUBSET Nat
      OBVIOUS
    <3> HIDE DEF T
    <3> QED
      BY <3>1, LeastNumber
  <2>2. k # 0
    <3> SUFFICES ASSUME k = 0 PROVE FALSE
      OBVIOUS
    <3>1. 1 .. 0 = {} /\ SUBSET (1 .. 0) = {{}}
      OBVIOUS
    <3>2. Good(0, [s \in {{}} |-> base])
      BY <3>1
    <3> QED
      BY <2>1, <3>2
  <2>3. k - 1 \in 0 .. n /\ k - 1 \notin T /\ k \in 1 .. n
    <3>1. T \subseteq 0 .. n
      OBVIOUS
    <3> HIDE DEF T
    <3> QED
      BY <2>1, <2>2, <3>1
  <2>4. PICK h : Good(k - 1, h)
    BY <2>3
  <2> DEFINE g == [s \in SUBSET (1 .. k) |-> IF k \in s THEN F[<<h[s \ {k}], k>>] ELSE h[s]]
  <2>5. ASSUME NEW s \in SUBSET (1 .. k)
        PROVE  /\ s \ {k} \in SUBSET (1 .. k - 1) /\ h[s \ {k}] \in V
               /\ k \in s => Max(s) = k
               /\ k \notin s => s \in SUBSET (1 .. k - 1)
    <3>1. s \ {k} \in SUBSET (1 .. k - 1)
      BY <2>3
    <3>2. ASSUME k \in s PROVE Max(s) = k
      <4>1. k \in Nat /\ Max(s) \in s /\ \A i \in s : i <= Max(s)
        BY <2>3, <3>2, MaxOfNumbers
      <4>2. k <= Max(s) /\ Max(s) \in 1 .. k
        BY <3>2, <4>1
      <4> QED
        BY <4>1, <4>2
    <3> QED
      BY <2>4, <3>1, <3>2
  <2>6. g \in [SUBSET (1 .. k) -> V]
    <3> SUFFICES ASSUME NEW s \in SUBSET (1 .. k)
                 PROVE  (IF k \in s THEN F[<<h[s \ {k}], k>>] ELSE h[s]) \in V
      OBVIOUS
    <3>1. <<h[s \ {k}], k>> \in V \X (1 .. n)
      BY <2>3, <2>5
    <3> QED
      BY <2>4, <2>5, <3>1
  <2>7. ASSUME NEW s \in SUBSET (1 .. k)
        PROVE  g[s] = IF s = {} THEN base ELSE F[<<g[s \ {Max(s)}], Max(s)>>]
    <3>1. CASE k \in s
      <4>1. Max(s) = k /\ s \ {k} \in SUBSET (1 .. k) /\ k \notin s \ {k} /\ s # {}
        BY <2>5, <3>1
      <4> QED
        BY <3>1, <4>1
    <3>2. CASE k \notin s
      <4>1. s \in SUBSET (1 .. k - 1) /\ g[s] = h[s]
        BY <2>5, <3>2
      <4>2. /\ s \ {Max(s)} \in SUBSET (1 .. k - 1) /\ k \notin s \ {Max(s)}
            /\ s \ {Max(s)} \in SUBSET (1 .. k)
        BY <3>2, <4>1
      <4>3. g[s \ {Max(s)}] = h[s \ {Max(s)}]
        BY <4>2
      <4> QED
        BY <2>4, <4>1, <4>3
    <3> QED
      BY <3>1, <3>2
  <2> HIDE DEF g
  <2>8. Good(k, g)
    BY <2>6, <2>7
  <2> QED
    BY <2>1, <2>8
<1>2. PICK g : Good(n, g)
  <2>1. n \in 0 .. n
    OBVIOUS
  <2> HIDE DEF Good
  <2> QED
    BY <1>1, <2>1
<1>3. FoldsTo(g, F, base, n)
  BY <1>2 DEF FoldsTo
<1> QED
  BY <1>2, <1>3

\* What such a fold starts in and keeps with each step it is always in,
LEMMA FoldStays ==
  ASSUME NEW n \in Nat, NEW V, NEW g,
         g[{}] \in V,
         \A s \in SUBSET (1 .. n) : s # {} /\ g[s \ {Max(s)}] \in V => g[s] \in V
  PROVE  \A k \in 0 .. n : g[1 .. k] \in V
<1> DEFINE T == {k \in 0 .. n : g[1 .. k] \notin V}
<1>1. SUFFICES ASSUME T # {} PROVE FALSE
  BY <1>1
<1>2. PICK k \in T : \A m \in T : k <= m
  <2>1. T \in SUBSET Nat
    OBVIOUS
  <2> HIDE DEF T
  <2> QED
    BY <1>1, <2>1, LeastNumber
<1>3. k # 0
  <2>1. 1 .. 0 = {}
    OBVIOUS
  <2> QED
    BY <1>2, <2>1
<1>4. k - 1 \in 0 .. n /\ k - 1 \notin T /\ k \in 1 .. n
  <2>1. T \subseteq 0 .. n
    OBVIOUS
  <2> HIDE DEF T
  <2> QED
    BY <1>2, <1>3, <2>1
<1>5. /\ 1 .. k \in SUBSET (1 .. n) /\ 1 .. k # {}
      /\ Max(1 .. k) = k /\ (1 .. k) \ {k} = 1 .. k - 1
  BY <1>4, Segments
<1> QED
  BY <1>2, <1>4, <1>5

\* and ends in.
LEMMA FoldKeeps ==
  ASSUME NEW n \in Nat, NEW V, NEW g,
         g[{}] \in V,
         \A s \in SUBSET (1 .. n) : s # {} /\ g[s \ {Max(s)}] \in V => g[s] \in V
  PROVE  g[1 .. n] \in V
<1>1. n \in 0 .. n
  OBVIOUS
<1> QED
  BY <1>1, FoldStays

\* What it comes to with one of its steps, and keeps with each, it ends in.
LEMMA FoldReaches ==
  ASSUME NEW n \in Nat, NEW V, NEW g, NEW i \in 1 .. n, g[1 .. i] \in V,
         \A s \in SUBSET (1 .. n) : s # {} /\ g[s \ {Max(s)}] \in V => g[s] \in V
  PROVE  g[1 .. n] \in V
<1> DEFINE T == {k \in i .. n : g[1 .. k] \notin V}
<1>1. SUFFICES ASSUME T # {} PROVE FALSE
  <2>1. n \in i .. n
    OBVIOUS
  <2> QED
    BY <1>1, <2>1
<1>2. PICK k \in T : \A m \in T : k <= m
  <2>1. T \in SUBSET Nat
    OBVIOUS
  <2> HIDE DEF T
  <2> QED
    BY <1>1, <2>1, LeastNumber
<1>3. k # i
  BY <1>2
<1>4. k - 1 \in i .. n /\ k - 1 \notin T /\ k \in 1 .. n
  <2>1. T \subseteq i .. n
    OBVIOUS
  <2> HIDE DEF T
  <2> QED
    BY <1>2, <1>3, <2>1
<1>5. /\ 1 .. k \in SUBSET (1 .. n) /\ 1 .. k # {}
      /\ Max(1 .. k) = k /\ (1 .. k) \ {k} = 1 .. k - 1
  BY <1>4, Segments
<1> QED
  BY <1>2, <1>4, <1>5

-----------------------------------------------------------------------------
(* Weights.                                                                *)

IsWeighing(preferences) == \A r \in DOMAIN preferences : preferences[r] \in Nat

\* A product is at least 0, and is 0 only if one of its factors is.
LEMMA TimesFacts ==
  ASSUME NEW v \in Nat, NEW w \in Nat
  PROVE  Times(v, w) \in Nat /\ (Times(v, w) > 0 <=> v > 0 /\ w > 0)
<1>1. One \in Nat \ {0}
  BY WeightsAssumption
<1>2. v * w \in Nat /\ (v * w = 0 <=> v = 0 \/ w = 0)
  BY Z3
<1>3. ASSUME NEW n \in Nat
      PROVE  LET q == (n + One - 1) \div One IN q \in Nat /\ (q > 0 <=> n > 0)
  <2>1. n + One - 1 \in Nat /\ (n + One - 1) \div One \in Nat
    BY <1>1
  <2>2. (n = 0 => (n + One - 1) \div One = 0) /\ (n > 0 => (n + One - 1) \div One > 0)
    BY <1>1
  <2> QED
    BY <2>1, <2>2
<1> QED
  BY <1>2, <1>3 DEF Times

LEMMA PositiveTimes ==
  ASSUME NEW v \in Nat, NEW w \in Nat, v > 0, w > 0
  PROVE  Times(v, w) \in Nat \ {0}
<1>1. Times(v, w) \in Nat /\ Times(v, w) > 0
  BY TimesFacts
<1> QED
  BY <1>1

\* The range that counts for a type: the most specific one that it is in.
LEMMA LeastIndex ==
  ASSUME NEW S \in SUBSET (1 .. 3), S # {}
  PROVE  Least(S) \in S /\ \A i \in S : Least(S) <= i
<1>1. \E x \in S : \A y \in S : x <= y
  BY LeastNumber
<1> QED
  BY <1>1, Zenon DEF Least

\* Of the ranges that cover a type the most specific counts (getTypeWeight).
LEMMA TypeWeightFacts ==
  ASSUME NEW type, NEW preferences
  PROVE  LET weight == getTypeWeight(type, preferences) IN
         \/ /\ {type, <<type[1], "*">>, All} \cap DOMAIN preferences = {} /\ weight = 0
         \/ /\ type \in DOMAIN preferences /\ weight = preferences[type]
         \/ /\ type \notin DOMAIN preferences
            /\ <<type[1], "*">> \in DOMAIN preferences /\ weight = preferences[<<type[1], "*">>]
         \/ /\ type \notin DOMAIN preferences /\ <<type[1], "*">> \notin DOMAIN preferences
            /\ All \in DOMAIN preferences /\ weight = preferences[All]
<1> DEFINE ranges == <<type, <<type[1], "*">>, All>>
           matching == {i \in 1 .. 3 : ranges[i] \in DOMAIN preferences}
<1>1. CASE matching = {}
  <2>1. 1 \notin matching /\ 2 \notin matching /\ 3 \notin matching
    BY <1>1
  <2> QED
    BY <1>1, <2>1 DEF getTypeWeight
<1>2. CASE matching # {}
  <2>1. getTypeWeight(type, preferences) = preferences[ranges[Least(matching)]]
    BY <1>2 DEF getTypeWeight
  <2>2. Least(matching) \in matching /\ \A i \in matching : Least(matching) <= i
    BY <1>2, LeastIndex
  <2>3. ranges[1] = type /\ ranges[2] = <<type[1], "*">> /\ ranges[3] = All
    OBVIOUS
  <2>4. \/ Least(matching) = 1 /\ 1 \in matching
        \/ Least(matching) = 2 /\ 2 \in matching /\ 1 \notin matching
        \/ Least(matching) = 3 /\ 3 \in matching /\ 1 \notin matching /\ 2 \notin matching
    <3>1. matching \subseteq 1 .. 3
      OBVIOUS
    <3> HIDE DEF matching
    <3>2. PICK k \in 1 .. 3 : k = Least(matching)
      BY <2>2, <3>1
    <3>3. k \in matching /\ \A i \in 1 .. 3 : i \in matching => k <= i
      BY <2>2, <3>2
    <3>4. k = 1 \/ k = 2 \/ k = 3
      BY <3>2
    <3>5. (k > 1 => 1 \notin matching) /\ (k > 2 => 2 \notin matching)
      BY <3>3, <3>4
    <3> QED
      BY <3>2, <3>3, <3>4, <3>5
  <2>5. \A i \in 1 .. 3 : i \in matching <=> ranges[i] \in DOMAIN preferences
    OBVIOUS
  <2> HIDE DEF matching, ranges
  <2> QED
    BY <2>1, <2>3, <2>4, <2>5
<1> QED
  BY <1>1, <1>2

LEMMA TypeWeightType ==
  ASSUME NEW type, NEW preferences, IsWeighing(preferences)
  PROVE  getTypeWeight(type, preferences) \in Nat
<1> DEFINE weight == getTypeWeight(type, preferences)
<1>1. weight = 0 \/ \E r \in DOMAIN preferences : weight = preferences[r]
  BY TypeWeightFacts, Zenon
<1> HIDE DEF weight
<1>2. weight \in Nat
  BY <1>1 DEF IsWeighing
<1> QED
  BY <1>2 DEF weight

LEMMA CleanIsWeighing ==
  ASSUME NEW preferences, IsWeighing(preferences)
  PROVE  IsWeighing(cleanPreferences(preferences))
BY WeightsAssumption DEF cleanPreferences, IsWeighing

\* Types with their weights.
Weighed(T) == [value : T, weight : Nat \ {0}]

\* The best of some types is one of them, and suits the preferences; there is
\* none only if none of them does.
LEMMA BestPreferenceFacts ==
  ASSUME NEW T, NEW types \in Seq(Weighed(T)), NEW preferences, IsWeighing(preferences)
  PROVE  LET best == getBestPreference(types, preferences) IN
         \/ /\ best = NoMatch
            /\ \A i \in DOMAIN types : ~(getTypeWeight(types[i].value, preferences) > 0)
         \/ /\ best \in Weighed(T) /\ best # NoMatch
            /\ getTypeWeight(best.value, preferences) > 0
<1> DEFINE n == Len(types)
           weight(t) == Times(t.weight, getTypeWeight(t.value, preferences))
           V == {NoMatch} \cup {b \in Weighed(T) : b.weight > 0 /\ getTypeWeight(b.value, preferences) > 0}
           P == {b \in V : b.weight > 0}
           step(best, t) == IF best.weight >= t.weight \/ weight(t) <= best.weight THEN best
                            ELSE [value |-> t.value, weight |-> weight(t)]
           F == [x \in V \X (1 .. n) |-> step(x[1], types[x[2]])]
           IsFold(g) == g = [s \in SUBSET (DOMAIN types) |-> IF s = {} THEN NoMatch
                               ELSE LET x == Max(s) IN step(g[s \ {x}], types[x])]
           fold == CHOOSE g : IsFold(g)
<1>1. n \in Nat /\ DOMAIN types = 1 .. n /\ \A i \in 1 .. n : types[i] \in Weighed(T)
  OBVIOUS
<1>2. NoMatch \in V
  OBVIOUS
<1>3. ASSUME NEW b \in V, NEW t \in Weighed(T)
      PROVE  step(b, t) \in V
  <2>1. t.value \in T /\ t.weight \in Nat /\ getTypeWeight(t.value, preferences) \in Nat
    BY TypeWeightType DEF Weighed
  <2>2. weight(t) \in Nat /\ (weight(t) > 0 => getTypeWeight(t.value, preferences) > 0)
    BY <2>1, TimesFacts
  <2>3. b.weight \in Nat
    BY DEF Weighed, NoMatch
  <2>4. ASSUME weight(t) > b.weight
        PROVE  [value |-> t.value, weight |-> weight(t)] \in V
    <3> DEFINE r == [value |-> t.value, weight |-> weight(t)]
    <3>1. weight(t) > 0
      BY <2>2, <2>3, <2>4
    <3>2. r \in Weighed(T) /\ r.weight > 0 /\ r.value = t.value
      BY <2>1, <2>2, <3>1 DEF Weighed
    <3> HIDE DEF r
    <3>3. r \in V
      BY <2>2, <3>1, <3>2
    <3> QED
      BY <3>3 DEF r
  <2> HIDE DEF V, weight
  <2> QED
    BY <2>2, <2>3, <2>4
<1> HIDE DEF V, step
<1>4. F \in [V \X (1 .. n) -> V]
  BY <1>1, <1>3
<1>5. PICK g \in [SUBSET (1 .. n) -> V] : FoldsTo(g, F, NoMatch, n)
  BY <1>1, <1>2, <1>4, FoldExists
<1>6. IsFold(g)
  <2>1. ASSUME NEW s \in SUBSET (1 .. n), s # {}
        PROVE  F[<<g[s \ {Max(s)}], Max(s)>>] = step(g[s \ {Max(s)}], types[Max(s)])
    <3>1. Max(s) \in 1 .. n /\ s \ {Max(s)} \in SUBSET (1 .. n)
      BY <1>1, <2>1, MaxOfNumbers
    <3> QED
      BY <3>1
  <2> HIDE DEF F
  <2> QED
    BY <1>1, <1>5, <2>1 DEF FoldsTo
<1>7. IsFold(fold)
  BY <1>6, Zenon
<1>8. (\A k \in 0 .. n : fold[1 .. k] \in V) /\ fold[1 .. n] \in V
  <2>1. fold[{}] \in V
    BY <1>2, <1>7
  <2>2. ASSUME NEW s \in SUBSET (1 .. n), s # {}, fold[s \ {Max(s)}] \in V
        PROVE  fold[s] \in V
    <3>1. Max(s) \in 1 .. n
      BY <1>1, <2>2, MaxOfNumbers
    <3>2. fold[s] = step(fold[s \ {Max(s)}], types[Max(s)])
      BY <1>1, <1>7, <2>2
    <3> QED
      BY <1>1, <1>3, <2>2, <3>1, <3>2
  <2> HIDE DEF fold
  <2> QED
    BY <1>1, <2>1, <2>2, FoldKeeps, FoldStays
<1>9. getBestPreference(types, preferences) = fold[DOMAIN types]
  BY Zenon DEF getBestPreference, FoldLeft, MapThenFoldSet, step
<1>10. getBestPreference(types, preferences) \in V
  BY <1>1, <1>8, <1>9
<1>11. ASSUME NEW b \in V, NEW t \in Weighed(T)
       PROVE  /\ b \in P => step(b, t) \in P
              /\ getTypeWeight(t.value, preferences) > 0 => step(b, t) \in P
  <2>1. t.weight \in Nat \ {0} /\ getTypeWeight(t.value, preferences) \in Nat
    BY TypeWeightType DEF Weighed
  <2>2. weight(t) \in Nat /\ (getTypeWeight(t.value, preferences) > 0 => weight(t) > 0)
    <3> DEFINE w == getTypeWeight(t.value, preferences)
    <3> HIDE DEF w
    <3>1. t.weight \in Nat /\ t.weight > 0 /\ w \in Nat
      BY <2>1 DEF w
    <3>2. Times(t.weight, w) \in Nat /\ (Times(t.weight, w) > 0 <=> t.weight > 0 /\ w > 0)
      BY <3>1, TimesFacts
    <3> QED
      BY <3>1, <3>2 DEF w
  <2>3. b.weight \in Nat /\ step(b, t) \in V
    BY <1>3 DEF V, Weighed, NoMatch
  <2>4. \/ (b.weight >= t.weight \/ weight(t) <= b.weight) /\ step(b, t) = b
        \/ ~(b.weight >= t.weight) /\ ~(weight(t) <= b.weight) /\ step(b, t).weight = weight(t)
    BY DEF step
  <2> HIDE DEF step, weight
  <2>5. CASE step(b, t) = b
    <3>1. CASE b.weight > 0
      BY <2>3, <2>5, <3>1
    <3>2. CASE b.weight = 0
      <4>1. ~(getTypeWeight(t.value, preferences) > 0) \/ step(b, t).weight = weight(t)
        BY <2>1, <2>2, <2>4, <3>2
      <4> QED
        BY <2>2, <2>3, <3>2, <4>1
    <3> QED
      BY <2>3, <3>1, <3>2
  <2>6. CASE step(b, t).weight = weight(t) /\ ~(weight(t) <= b.weight)
    <3>1. weight(t) > 0
      BY <2>2, <2>3, <2>6
    <3> QED
      BY <2>3, <2>6, <3>1
  <2> QED
    BY <2>4, <2>5, <2>6
<1>12. ASSUME NEW i \in 1 .. n, getTypeWeight(types[i].value, preferences) > 0
       PROVE  fold[1 .. n] \in P
  <2>1. ASSUME NEW s \in SUBSET (1 .. n), s # {}, fold[s \ {Max(s)}] \in P
        PROVE  fold[s] \in P
    <3>1. Max(s) \in 1 .. n
      BY <1>1, <2>1, MaxOfNumbers
    <3>2. fold[s] = step(fold[s \ {Max(s)}], types[Max(s)]) /\ fold[s \ {Max(s)}] \in V
      BY <1>1, <1>7, <2>1
    <3> HIDE DEF fold, P
    <3> QED
      BY <1>1, <1>11, <2>1, <3>1, <3>2
  <2>2. fold[1 .. i] \in P
    <3>1. /\ 1 .. i \in SUBSET (1 .. n) /\ 1 .. i # {} /\ Max(1 .. i) = i
          /\ (1 .. i) \ {i} = 1 .. i - 1 /\ i - 1 \in 0 .. n
      BY <1>1, Segments
    <3>2. fold[1 .. i] = step(fold[1 .. i - 1], types[i])
      BY <1>1, <1>7, <3>1
    <3> HIDE DEF fold, P
    <3> QED
      BY <1>1, <1>8, <1>11, <1>12, <3>1, <3>2
  <2> HIDE DEF fold, P
  <2> QED
    BY <1>1, <2>1, <2>2, FoldReaches
<1>13. ASSUME NEW i \in DOMAIN types, getTypeWeight(types[i].value, preferences) > 0
       PROVE  getBestPreference(types, preferences) # NoMatch
  <2>1. fold[1 .. n] \in P
    BY <1>1, <1>12, <1>13
  <2> HIDE DEF fold
  <2> QED
    BY <1>1, <1>9, <2>1 DEF NoMatch
<1> QED
  BY <1>10, <1>13 DEF V, NoMatch

-----------------------------------------------------------------------------
(* Sequences.                                                              *)

\* What is picked is a sequence of what it is picked from, and all of it.
LEMMA PickedFacts ==
  ASSUME NEW T, NEW seq \in Seq(T), NEW S
  PROVE  /\ picked(seq, S) \in Seq(S)
         /\ \A x \in ToSet(seq) \cap S : x \in ToSet(picked(seq, S))
<1> DEFINE n == Len(seq)
           V == Seq(S)
           step(some, x) == IF x \in S THEN Append(some, x) ELSE some
           F == [x \in V \X (1 .. n) |-> step(x[1], seq[x[2]])]
           IsFold(g) == g = [s \in SUBSET (DOMAIN seq) |-> IF s = {} THEN <<>>
                               ELSE LET x == Max(s) IN step(g[s \ {x}], seq[x])]
           fold == CHOOSE g : IsFold(g)
<1>1. n \in Nat /\ DOMAIN seq = 1 .. n
  OBVIOUS
<1>2. <<>> \in V
  OBVIOUS
<1>3. ASSUME NEW some \in V, NEW x
      PROVE  step(some, x) \in V
  OBVIOUS
<1> HIDE DEF V, step
<1>4. F \in [V \X (1 .. n) -> V]
  BY <1>3
<1>5. PICK g \in [SUBSET (1 .. n) -> V] : FoldsTo(g, F, <<>>, n)
  BY <1>1, <1>2, <1>4, FoldExists
<1>6. IsFold(g)
  <2>1. ASSUME NEW s \in SUBSET (1 .. n), s # {}
        PROVE  F[<<g[s \ {Max(s)}], Max(s)>>] = step(g[s \ {Max(s)}], seq[Max(s)])
    <3>1. Max(s) \in 1 .. n /\ s \ {Max(s)} \in SUBSET (1 .. n)
      BY <1>1, <2>1, MaxOfNumbers
    <3> QED
      BY <3>1
  <2> HIDE DEF F
  <2> QED
    BY <1>1, <1>5, <2>1 DEF FoldsTo
<1>7. IsFold(fold)
  BY <1>6, Zenon
<1>8. (\A k \in 0 .. n : fold[1 .. k] \in V) /\ fold[1 .. n] \in V
  <2>1. fold[{}] \in V
    BY <1>2, <1>7
  <2>2. ASSUME NEW s \in SUBSET (1 .. n), s # {}, fold[s \ {Max(s)}] \in V
        PROVE  fold[s] \in V
    <3>1. fold[s] = step(fold[s \ {Max(s)}], seq[Max(s)])
      BY <1>1, <1>7, <2>2
    <3> QED
      BY <1>3, <2>2, <3>1
  <2> HIDE DEF fold
  <2> QED
    BY <1>1, <2>1, <2>2, FoldKeeps, FoldStays
<1>9. picked(seq, S) = fold[DOMAIN seq]
  BY Zenon DEF picked, FoldLeft, MapThenFoldSet, step
<1>10. ASSUME NEW some \in V, NEW x, NEW y
       PROVE  /\ y \in ToSet(some) => y \in ToSet(step(some, x))
              /\ x \in S => x \in ToSet(step(some, x))
  <2> HIDE DEF V
  <2>1. x \notin S => step(some, x) = some
    BY DEF step
  <2>2. ASSUME x \in S
        PROVE  /\ DOMAIN some \subseteq DOMAIN step(some, x)
               /\ \A k \in DOMAIN some : step(some, x)[k] = some[k]
               /\ Len(some) + 1 \in DOMAIN step(some, x) /\ step(some, x)[Len(some) + 1] = x
    BY <2>2 DEF step, V
  <2> QED
    BY <2>1, <2>2 DEF ToSet
<1>11. ASSUME NEW i \in 1 .. n, seq[i] \in S
       PROVE  seq[i] \in ToSet(fold[1 .. n])
  <2> DEFINE P == {some \in V : seq[i] \in ToSet(some)}
  <2>1. ASSUME NEW s \in SUBSET (1 .. n), s # {}, fold[s \ {Max(s)}] \in P
        PROVE  fold[s] \in P
    <3>1. fold[s] = step(fold[s \ {Max(s)}], seq[Max(s)]) /\ fold[s \ {Max(s)}] \in V
      BY <1>1, <1>7, <2>1
    <3> HIDE DEF fold
    <3> QED
      BY <1>3, <1>10, <2>1, <3>1
  <2>2. fold[1 .. i] \in P
    <3>1. /\ 1 .. i \in SUBSET (1 .. n) /\ 1 .. i # {} /\ Max(1 .. i) = i
          /\ (1 .. i) \ {i} = 1 .. i - 1 /\ i - 1 \in 0 .. n
      BY <1>1, Segments
    <3>2. fold[1 .. i] = step(fold[1 .. i - 1], seq[i])
      BY <1>1, <1>7, <3>1
    <3> HIDE DEF fold
    <3> QED
      BY <1>1, <1>3, <1>8, <1>10, <1>11, <3>1, <3>2
  <2>3. fold[1 .. n] \in P
    <3> HIDE DEF fold, P
    <3> QED
      BY <1>1, <2>1, <2>2, FoldReaches
  <2> QED
    BY <2>3
<1>12. \A x \in ToSet(seq) \cap S : \E i \in 1 .. n : x = seq[i] /\ seq[i] \in S
  BY <1>1 DEF ToSet
<1> HIDE DEF fold
<1> QED
  BY <1>1, <1>8, <1>9, <1>11, <1>12 DEF V

\* What is in one of two sequences is in both together.
LEMMA ConcatSet ==
  ASSUME NEW T, NEW s \in Seq(T), NEW u \in Seq(T), NEW x \in ToSet(s) \cup ToSet(u)
  PROVE  x \in ToSet(s \o u)
<1>1. /\ Len(s) \in Nat /\ Len(u) \in Nat /\ DOMAIN s = 1 .. Len(s) /\ DOMAIN u = 1 .. Len(u)
      /\ DOMAIN (s \o u) = 1 .. Len(s) + Len(u)
      /\ \A i \in 1 .. Len(s) : (s \o u)[i] = s[i]
      /\ \A i \in 1 .. Len(u) : (s \o u)[Len(s) + i] = u[i]
  OBVIOUS
<1>2. CASE x \in ToSet(s)
  <2>1. PICK i \in 1 .. Len(s) : x = s[i]
    BY <1>1, <1>2 DEF ToSet
  <2>2. i \in DOMAIN (s \o u) /\ (s \o u)[i] = x
    BY <1>1, <2>1
  <2> QED
    BY <2>2 DEF ToSet
<1>3. CASE x \in ToSet(u)
  <2>1. PICK i \in 1 .. Len(u) : x = u[i]
    BY <1>1, <1>3 DEF ToSet
  <2>2. Len(s) + i \in DOMAIN (s \o u) /\ (s \o u)[Len(s) + i] = x
    BY <1>1, <2>1
  <2> QED
    BY <2>2 DEF ToSet
<1> QED
  BY <1>2, <1>3

\* Sequences of a set, one after the other, are one, with all that is in them.
LEMMA FlattenFacts ==
  ASSUME NEW T, NEW seqs \in Seq(Seq(T))
  PROVE  /\ FlattenSeq(seqs) \in Seq(T)
         /\ \A i \in DOMAIN seqs : \A x \in ToSet(seqs[i]) : x \in ToSet(FlattenSeq(seqs))
<1> DEFINE n == Len(seqs)
           V == Seq(T)
           F == [x \in V \X (1 .. n) |-> x[1] \o seqs[x[2]]]
           IsFlat(g) == g = [i \in 1 .. n |-> IF i = 1 THEN seqs[i] ELSE g[i - 1] \o seqs[i]]
           flat == CHOOSE g : IsFlat(g)
<1>1. n \in Nat /\ \A i \in 1 .. n : seqs[i] \in V
  OBVIOUS
<1>2. CASE n = 0
  <2>1. seqs = <<>>
    BY <1>2
  <2> QED
    <3>1. FlattenSeq(seqs) = <<>> /\ DOMAIN seqs = {}
      BY <1>2, <2>1 DEF FlattenSeq
    <3> QED
      BY <3>1
<1>3. CASE n # 0
  <2> HIDE DEF n, V
  <2>1. <<>> \in V /\ F \in [V \X (1 .. n) -> V]
    BY <1>1 DEF V
  <2> HIDE DEF F
  <2>2. PICK g \in [SUBSET (1 .. n) -> V] : FoldsTo(g, F, <<>>, n)
    BY <1>1, <2>1, FoldExists
  <2> DEFINE h == [i \in 1 .. n |-> g[1 .. i]]
  <2>3. ASSUME NEW i \in 1 .. n
        PROVE  h[i] = (IF i = 1 THEN seqs[i] ELSE h[i - 1] \o seqs[i])
    <3>1. /\ 1 .. i \in SUBSET (1 .. n) /\ 1 .. i # {} /\ Max(1 .. i) = i
          /\ (1 .. i) \ {i} = 1 .. i - 1 /\ 1 .. i - 1 \in SUBSET (1 .. n)
      BY <1>1, Segments
    <3>2. h[i] = F[<<g[1 .. i - 1], i>>]
      BY <2>2, <3>1 DEF FoldsTo
    <3>3. h[i] = g[1 .. i - 1] \o seqs[i]
      BY <3>1, <3>2 DEF F
    <3>4. CASE i = 1
      <4>1. 1 .. i - 1 = {} /\ {} \in SUBSET (1 .. n)
        BY <3>4
      <4>2. g[{}] = <<>>
        BY <2>2, <4>1 DEF FoldsTo
      <4>3. seqs[i] \in Seq(T) /\ g[1 .. i - 1] = <<>>
        BY <1>1, <4>1, <4>2 DEF V
      <4>4. g[1 .. i - 1] \o seqs[i] = seqs[i]
        BY <4>3
      <4> QED
        BY <3>3, <3>4, <4>4
    <3>5. CASE i # 1
      <4>1. i - 1 \in 1 .. n
        BY <1>1, <3>5
      <4> QED
        BY <3>3, <3>5, <4>1
    <3> QED
      BY <3>4, <3>5
  <2>4. DOMAIN h = 1 .. n /\ h = [i \in 1 .. n |-> h[i]]
    OBVIOUS
  <2> HIDE DEF h
  <2>5. IsFlat(h)
    BY <2>3, <2>4
  <2>6. IsFlat(flat)
    BY <2>5, Zenon
  <2> HIDE DEF flat
  <2> DEFINE bad == {k \in 1 .. n : flat[k] \notin V}
  <2>7. bad = {}
    <3>1. SUFFICES ASSUME bad # {} PROVE FALSE
      OBVIOUS
    <3>2. bad \in SUBSET Nat /\ \A k \in 1 .. n : k \notin bad => flat[k] \in V
      BY <1>1
    <3>3. PICK k \in bad : \A m \in bad : k <= m
      <4> HIDE DEF bad
      <4> QED
        BY <3>1, <3>2, LeastNumber
    <3>4. k \in 1 .. n /\ k \in Nat /\ flat[k] \notin V
      BY <1>1
    <3> HIDE DEF bad
    <3>5. flat[k] = IF k = 1 THEN seqs[k] ELSE flat[k - 1] \o seqs[k]
      BY <2>6, <3>4
    <3>6. k # 1 /\ k - 1 \in 1 .. n
      BY <1>1, <3>4, <3>5
    <3>7. flat[k - 1] \in V
      BY <3>2, <3>3, <3>4, <3>6
    <3> QED
      BY <1>1, <3>4, <3>5, <3>6, <3>7 DEF V
  <2>8. FlattenSeq(seqs) = flat[n]
    BY <1>3, Zenon DEF FlattenSeq, n, flat
  <2>9. n \in 1 .. n
    BY <1>1, <1>3
  <2>10. \A k \in 1 .. n : flat[k] \in V
    BY <2>7
  <2> HIDE DEF bad
  <2>11. ASSUME NEW i \in 1 .. n, NEW x \in ToSet(seqs[i])
         PROVE  x \in ToSet(flat[n])
    <3> DEFINE missing == {k \in i .. n : x \notin ToSet(flat[k])}
    <3>1. SUFFICES ASSUME missing # {} PROVE FALSE
      <4>1. n \in i .. n
        BY <1>1
      <4> QED
        BY <3>1, <4>1
    <3>2. PICK k \in missing : \A m \in missing : k <= m
      <4>1. missing \in SUBSET Nat
        BY <1>1
      <4> HIDE DEF missing
      <4> QED
        BY <3>1, <4>1, LeastNumber
    <3>3. k \in i .. n /\ k \in 1 .. n /\ x \notin ToSet(flat[k])
      BY <1>1
    <3>4. flat[k] = IF k = 1 THEN seqs[k] ELSE flat[k - 1] \o seqs[k]
      BY <2>6, <3>3
    <3>5. k # 1 => k - 1 \in 1 .. n /\ flat[k - 1] \in Seq(T)
      BY <1>1, <2>10, <3>3 DEF V
    <3>6. seqs[k] \in Seq(T)
      BY <1>1, <3>3 DEF V
    <3>7. CASE k = i
      <4>1. k # 1
        BY <3>3, <3>4, <3>7
      <4>2. x \in ToSet(flat[k - 1] \o seqs[k])
        BY <3>5, <3>6, <3>7, <4>1, ConcatSet
      <4> QED
        BY <3>3, <3>4, <4>1, <4>2
    <3>8. CASE k # i
      <4>1. k # 1 /\ k - 1 \in i .. n /\ k - 1 \notin missing
        <5>1. missing \subseteq i .. n /\ i \in Nat /\ i > 0
          BY <1>1
        <5> HIDE DEF missing
        <5> QED
          BY <1>1, <3>2, <3>3, <3>8, <5>1
      <4>2. x \in ToSet(flat[k - 1])
        BY <4>1
      <4>3. x \in ToSet(flat[k - 1] \o seqs[k])
        BY <3>5, <3>6, <4>1, <4>2, ConcatSet
      <4> QED
        BY <3>3, <3>4, <4>1, <4>3
    <3> QED
      BY <3>7, <3>8
  <2>12. DOMAIN seqs = 1 .. n
    BY DEF n
  <2> QED
    BY <2>8, <2>9, <2>10, <2>11, <2>12 DEF V
<1> QED
  BY <1>2, <1>3

-----------------------------------------------------------------------------
(* The search for a chain of converters, when T holds the types that they  *)
(* make.                                                                   *)

OutputsAreIn(T) ==
  \A i \in DOMAIN converters : \A t \in ToSet(converters[i].output) : t.value \in T

\* A converter takes all the types that it lists.
ListsTypes(converter) == \A range \in DOMAIN converter.input : converter.input[range] \in Nat \ {0}

\* What the settings say of converters.
LEMMA ConverterFacts ==
  ASSUME scenario \in Scenarios, NEW T, OutputsAreIn(T)
  PROVE  /\ Len(converters) \in Nat /\ DOMAIN converters = 1 .. Len(converters)
         /\ [i \in DOMAIN converters |-> i] \in Seq(DOMAIN converters)
         /\ \A i \in DOMAIN converters : /\ converters[i].output \in Seq(Weighed(T))
                                         /\ ListsTypes(converters[i]) /\ IsWeighing(converters[i].input)
<1>1. /\ IsSequence(converters)
      /\ \A converter \in ToSet(converters) :
           /\ ListsTypes(converter) /\ IsSequence(converter.output)
           /\ \A t \in ToSet(converter.output) : t \in [value : {t.value}, weight : Nat \ {0}]
  BY SetupsAssumption, Zenon DEF setup, converters, ListsTypes
<1>2. converters \in Seq(ToSet(converters))
  BY <1>1 DEF IsSequence
<1>3. Len(converters) \in Nat /\ DOMAIN converters = 1 .. Len(converters)
  BY <1>2
<1>4. [i \in 1 .. Len(converters) |-> i] \in Seq(1 .. Len(converters))
  BY <1>3
<1>5. ASSUME NEW i \in DOMAIN converters
      PROVE  /\ converters[i].output \in Seq(Weighed(T))
             /\ ListsTypes(converters[i]) /\ IsWeighing(converters[i].input)
  <2> DEFINE output == converters[i].output
  <2>1. converters[i] \in ToSet(converters)
    BY DEF ToSet
  <2>2. output \in Seq(ToSet(output))
    BY <1>1, <2>1 DEF IsSequence
  <2>3. ASSUME NEW t \in ToSet(output) PROVE t \in Weighed(T)
    <3>1. t.value \in T
      BY DEF OutputsAreIn
    <3>2. t \in [value : {t.value}, weight : Nat \ {0}]
      BY <1>1, <2>1
    <3> QED
      BY <3>1, <3>2 DEF Weighed
  <2>4. output \in Seq(Weighed(T))
    <3> HIDE DEF output
    <3> QED
      BY <2>2, <2>3, SeqMonotonic
  <2> QED
    BY <1>1, <2>1, <2>4 DEF ListsTypes, IsWeighing
<1> QED
  BY <1>3, <1>4, <1>5

\* A path through different converters, with the types at its end.
ChainPaths(T) ==
  {p \in [converters : Seq(DOMAIN converters), outTypes : Seq(Weighed(T))] :
     p.converters # <<>> /\ IsInjective(p.converters)}

\* One that begins with a converter that takes a type.
Begun(T, inType) == {p \in ChainPaths(T) : getTypeWeight(inType, inTypes(p)) > 0}

\* What a search can find: nothing, or a path to a type that suits.
Matches(T, preferences) ==
  {Unmatched} \cup {m \in [path : ChainPaths(T), outType : T, weight : Nat \ {0}] :
                     getTypeWeight(m.outType, preferences) > 0}

\* A path that ends in a type that is wanted, with a weight, is a match.
LEMMA MatchFacts ==
  ASSUME scenario \in Scenarios, NEW T, OutputsAreIn(T), NEW inType, NEW path \in Begun(T, inType),
         NEW out \in Weighed(T), NEW preferences, getTypeWeight(out.value, preferences) > 0
  PROVE  Match(path, inType, out) \in Matches(T, preferences)
<1>1. path.converters \in Seq(DOMAIN converters) /\ path.converters # <<>>
  BY DEF Begun, ChainPaths
<1>2. path.converters[1] \in DOMAIN converters
  BY <1>1
<1>3. getTypeWeight(inType, inTypes(path)) \in Nat
  BY <1>2, ConverterFacts, TypeWeightType DEF inTypes
<1>4. out.value \in T /\ out.weight \in Nat /\ out.weight > 0
  BY DEF Weighed
<1> DEFINE taken == getTypeWeight(inType, inTypes(path))
<1>5. Times(taken, out.weight) \in Nat \ {0} /\ path \in ChainPaths(T)
  <2>1. taken \in Nat /\ taken > 0 /\ path \in ChainPaths(T)
    BY <1>3 DEF Begun
  <2> HIDE DEF taken
  <2> QED
    BY <1>4, <2>1, TimesFacts
<1> DEFINE m == Match(path, inType, out)
<1>6. m \in [path : ChainPaths(T), outType : T, weight : Nat \ {0}] /\ m.outType = out.value
  BY <1>4, <1>5 DEF Match
<1> HIDE DEF m
<1>7. m \in Matches(T, preferences)
  BY <1>6 DEF Matches
<1> QED
  BY <1>7 DEF m

\* A path that is matched against preferences is a match or none.
LEMMA MatchedPathFacts ==
  ASSUME scenario \in Scenarios, NEW T, OutputsAreIn(T), NEW inType, NEW path \in ChainPaths(T),
         NEW preferences, IsWeighing(preferences)
  PROVE  getMatchedPath(inType, preferences, path) \in Matches(T, preferences)
<1> DEFINE out == getBestPreference(path.outTypes, preferences)
<1>1. path.outTypes \in Seq(Weighed(T))
  BY DEF ChainPaths
<1>2. out = NoMatch \/ (out \in Weighed(T) /\ getTypeWeight(out.value, preferences) > 0)
  BY <1>1, BestPreferenceFacts
<1>3. Unmatched \in Matches(T, preferences)
  BY DEF Matches
<1> HIDE DEF out
<1>4. ASSUME out # NoMatch, path \in Begun(T, inType)
      PROVE  Match(path, inType, out) \in Matches(T, preferences)
  BY <1>2, <1>4, MatchFacts
<1>5. \/ getMatchedPath(inType, preferences, path) = Unmatched
      \/ /\ out # NoMatch /\ getTypeWeight(inType, inTypes(path)) # 0
         /\ getMatchedPath(inType, preferences, path) = Match(path, inType, out)
  BY DEF getMatchedPath, out
<1>6. getTypeWeight(inType, inTypes(path)) \in Nat
  <2>1. path.converters[1] \in DOMAIN converters
    <3>1. path.converters \in Seq(DOMAIN converters) /\ path.converters # <<>>
      BY DEF ChainPaths
    <3> QED
      BY <3>1
  <2> QED
    BY <2>1, ConverterFacts, TypeWeightType DEF inTypes
<1>7. getTypeWeight(inType, inTypes(path)) # 0 => path \in Begun(T, inType)
  BY <1>6 DEF Begun
<1> QED
  BY <1>3, <1>4, <1>5, <1>7

\* The types at the end of a path are those that a converter makes.
EndsWith(path, i) ==
  /\ DOMAIN path.outTypes = DOMAIN converters[i].output
  /\ \A o \in DOMAIN path.outTypes : path.outTypes[o].value = converters[i].output[o].value

LEMMA AllOfThem == \A i \in DOMAIN converters : i \in ToSet([j \in DOMAIN converters |-> j])
BY DEF ToSet

\* A path of one converter, for each that takes the type.
LEMMA SingleFacts ==
  ASSUME scenario \in Scenarios, NEW T, OutputsAreIn(T), NEW inType
  PROVE  /\ initialPaths(inType) \in Seq(Begun(T, inType))
         /\ \A i \in DOMAIN converters : getTypeWeight(inType, converters[i].input) > 0 =>
              [converters |-> <<i>>, outTypes |-> converters[i].output] \in ToSet(initialPaths(inType))
<1> DEFINE taking == {i \in DOMAIN converters : getTypeWeight(inType, converters[i].input) > 0}
           usable == picked([i \in DOMAIN converters |-> i], taking)
           path(i) == [converters |-> <<i>>, outTypes |-> converters[i].output]
<1>1. /\ usable \in Seq(taking) /\ taking \subseteq DOMAIN converters
      /\ \A i \in taking : i \in ToSet(usable)
  BY ConverterFacts, PickedFacts, AllOfThem
<1>2. ASSUME NEW i \in taking PROVE path(i) \in Begun(T, inType)
  <2>1. converters[i].output \in Seq(Weighed(T))
    BY ConverterFacts
  <2>2. /\ <<i>> \in Seq(DOMAIN converters) /\ <<i>> # <<>> /\ IsInjective(<<i>>)
    BY DEF IsInjective
  <2>3. inTypes(path(i)) = converters[i].input
    BY DEF inTypes
  <2> QED
    BY <2>1, <2>2, <2>3 DEF Begun, ChainPaths
<1>3. initialPaths(inType) = [k \in DOMAIN usable |-> path(usable[k])]
  BY Zenon DEF initialPaths
<1>4. \A i \in DOMAIN converters : getTypeWeight(inType, converters[i].input) > 0 => i \in taking
  OBVIOUS
<1> HIDE DEF usable, taking, path
<1>5. /\ Len(usable) \in Nat /\ DOMAIN usable = 1 .. Len(usable)
      /\ \A k \in 1 .. Len(usable) : path(usable[k]) \in Begun(T, inType)
  BY <1>1, <1>2
<1>6. \A i \in taking : path(i) \in ToSet(initialPaths(inType))
  BY <1>1, <1>3 DEF ToSet
<1>7. initialPaths(inType) \in Seq(Begun(T, inType))
  BY <1>3, <1>5
<1> QED
  BY <1>4, <1>6, <1>7 DEF path

\* The longer paths that a path is made into use no converter twice; there is
\* one with each other converter that takes a type at the end of the path.
LEMMA StepFacts ==
  ASSUME scenario \in Scenarios, NEW T, OutputsAreIn(T), NEW inType, NEW path \in Begun(T, inType)
  PROVE  /\ takeStep(path) \in Seq(Begun(T, inType))
         /\ \A i \in DOMAIN converters \ ToSet(path.converters) :
              getBestPreference(path.outTypes, converters[i].input) # NoMatch =>
                \E q \in ToSet(takeStep(path)) :
                  /\ ToSet(q.converters) \subseteq ToSet(path.converters) \cup {i}
                  /\ EndsWith(q, i)
<1> DEFINE accepted(i) == getBestPreference(path.outTypes, converters[i].input)
           more == {i \in DOMAIN converters \ ToSet(path.converters) : accepted(i) # NoMatch}
           next == picked([i \in DOMAIN converters |-> i], more)
           reweighed(t, i) == [t EXCEPT !.weight = Times(accepted(i).weight, t.weight)]
           longer(i) == [converters |-> Append(path.converters, i),
                         outTypes |-> [o \in DOMAIN converters[i].output |-> reweighed(converters[i].output[o], i)]]
<1>1. next \in Seq(more) /\ \A i \in more : i \in ToSet(next)
  BY ConverterFacts, PickedFacts, AllOfThem
<1>2. /\ path.converters \in Seq(DOMAIN converters) /\ IsInjective(path.converters)
      /\ path.converters # <<>> /\ path.outTypes \in Seq(Weighed(T))
      /\ getTypeWeight(inType, inTypes(path)) > 0
  BY DEF Begun, ChainPaths
<1>3. ASSUME NEW i \in more
      PROVE  /\ longer(i) \in Begun(T, inType) /\ EndsWith(longer(i), i)
             /\ ToSet(longer(i).converters) \subseteq ToSet(path.converters) \cup {i}
  <2>1. i \in DOMAIN converters /\ i \notin ToSet(path.converters)
    OBVIOUS
  <2>2. /\ converters[i].output \in Seq(Weighed(T)) /\ IsWeighing(converters[i].input)
    BY <2>1, ConverterFacts
  <2>3. accepted(i).weight \in Nat \ {0}
    <3>1. accepted(i) \in Weighed(T)
      BY <1>2, <2>2, BestPreferenceFacts
    <3> QED
      BY <3>1 DEF Weighed
  <2> HIDE DEF accepted
  <2>4. ASSUME NEW t \in Weighed(T) PROVE reweighed(t, i) \in Weighed(T)
    <3>1. t.weight \in Nat /\ t.weight > 0 /\ accepted(i).weight \in Nat /\ accepted(i).weight > 0
      BY <2>3 DEF Weighed
    <3>2. Times(accepted(i).weight, t.weight) \in Nat \ {0}
      BY <3>1, PositiveTimes
    <3> QED
      BY <3>2 DEF Weighed
  <2>5. longer(i).outTypes \in Seq(Weighed(T))
    <3> DEFINE output == converters[i].output
    <3>1. Len(output) \in Nat /\ DOMAIN output = 1 .. Len(output) /\ \A o \in 1 .. Len(output) : output[o] \in Weighed(T)
      BY <2>2
    <3> HIDE DEF reweighed, output
    <3>2. [o \in DOMAIN output |-> reweighed(output[o], i)] \in Seq(Weighed(T))
      BY <2>4, <3>1
    <3> QED
      BY <3>2 DEF output
  <2>6. /\ Append(path.converters, i) \in Seq(DOMAIN converters) /\ Append(path.converters, i) # <<>>
        /\ IsInjective(Append(path.converters, i))
        /\ Append(path.converters, i)[1] = path.converters[1]
        /\ ToSet(Append(path.converters, i)) \subseteq ToSet(path.converters) \cup {i}
    <3> DEFINE s == path.converters
    <3>1. /\ Append(s, i) \in Seq(DOMAIN converters) /\ Append(s, i) # <<>> /\ Len(s) \in Nat
          /\ DOMAIN Append(s, i) = 1 .. Len(s) + 1 /\ DOMAIN s = 1 .. Len(s)
          /\ Append(s, i)[Len(s) + 1] = i /\ \A k \in 1 .. Len(s) : Append(s, i)[k] = s[k]
      BY <1>2, <2>1
    <3>2. \A k \in 1 .. Len(s) : s[k] # i
      BY <2>1, <3>1 DEF ToSet
    <3>3. \A k \in 1 .. Len(s) + 1 : k \in 1 .. Len(s) \/ k = Len(s) + 1
      BY <3>1
    <3>4. \A k, m \in 1 .. Len(s) : s[k] = s[m] => k = m
      BY <1>2, <3>1 DEF IsInjective
    <3>6. s # <<>> => 1 \in 1 .. Len(s)
      BY <1>2
    <3> HIDE DEF s
    <3>7. ToSet(Append(s, i)) \subseteq ToSet(s) \cup {i}
      BY <3>1, <3>3 DEF ToSet
    <3>5. \A k, m \in 1 .. Len(s) + 1 : Append(s, i)[k] = Append(s, i)[m] => k = m
      BY <3>1, <3>2, <3>3, <3>4
    <3> QED
      BY <1>2, <3>1, <3>5, <3>6, <3>7 DEF s, IsInjective
  <2>7. inTypes(longer(i)) = inTypes(path)
    BY <2>6 DEF inTypes
  <2>8. EndsWith(longer(i), i)
    BY DEF EndsWith
  <2> QED
    BY <1>2, <2>5, <2>6, <2>7, <2>8 DEF Begun, ChainPaths
<1>4. takeStep(path) = [k \in DOMAIN next |-> longer(next[k])]
  BY Zenon DEF takeStep
<1>5. \A i \in DOMAIN converters \ ToSet(path.converters) :
        getBestPreference(path.outTypes, converters[i].input) # NoMatch => i \in more
  OBVIOUS
<1> HIDE DEF next, more, longer
<1>6. /\ Len(next) \in Nat /\ DOMAIN next = 1 .. Len(next)
      /\ \A k \in 1 .. Len(next) : longer(next[k]) \in Begun(T, inType)
  BY <1>1, <1>3
<1>7. \A i \in more : longer(i) \in ToSet(takeStep(path))
  BY <1>1, <1>4 DEF ToSet
<1>8. takeStep(path) \in Seq(Begun(T, inType))
  BY <1>4, <1>6
<1> QED
  BY <1>3, <1>5, <1>7, <1>8

\* No type at the end of a path suits.
LeadsNowhere(path, preferences) ==
  \A o \in DOMAIN path.outTypes : ~(getTypeWeight(path.outTypes[o].value, preferences) > 0)

\* The best of several paths is a match, or there is none.
LEMMA FindBestFacts ==
  ASSUME scenario \in Scenarios, NEW T, OutputsAreIn(T), NEW inType,
         NEW paths \in Seq(Begun(T, inType)), NEW preferences, IsWeighing(preferences)
  PROVE  LET best == findBest(inType, preferences, paths) IN
         /\ best \in Matches(T, preferences)
         /\ best = Unmatched => \A i \in DOMAIN paths : LeadsNowhere(paths[i], preferences)
<1> DEFINE n == Len(paths)
           V == Matches(T, preferences)
           step(best, path) == LET out == getBestPreference(path.outTypes, preferences) IN
                               IF out = NoMatch \/ best.weight >= out.weight THEN best
                               ELSE Match(path, inType, out)
           F == [x \in V \X (1 .. n) |-> step(x[1], paths[x[2]])]
           IsFold(g) == g = [s \in SUBSET (DOMAIN paths) |-> IF s = {} THEN Unmatched
                               ELSE LET x == Max(s) IN step(g[s \ {x}], paths[x])]
           fold == CHOOSE g : IsFold(g)
<1>1. n \in Nat /\ DOMAIN paths = 1 .. n /\ \A i \in 1 .. n : paths[i] \in Begun(T, inType)
  OBVIOUS
<1>2. Unmatched \in V
  BY DEF Matches
<1>3. ASSUME NEW best \in V, NEW path \in Begun(T, inType)
      PROVE  /\ step(best, path) \in V
             /\ best # Unmatched => step(best, path) # Unmatched
             /\ ~LeadsNowhere(path, preferences) => step(best, path) # Unmatched
  <2> DEFINE out == getBestPreference(path.outTypes, preferences)
  <2>1. path.outTypes \in Seq(Weighed(T)) /\ path.converters # <<>>
    BY DEF Begun, ChainPaths
  <2>2. \/ out = NoMatch /\ LeadsNowhere(path, preferences)
        \/ /\ out \in Weighed(T) /\ out # NoMatch
           /\ getTypeWeight(out.value, preferences) > 0
    BY <2>1, BestPreferenceFacts DEF LeadsNowhere
  <2>3. out \in Weighed(T) => out.weight \in Nat /\ out.weight > 0
    BY DEF Weighed
  <2>4. Match(path, inType, out) # Unmatched
    BY <2>1 DEF Match, Unmatched, NoPath
  <2>5. best = Unmatched => best.weight = 0
    BY DEF Unmatched
  <2>6. \/ (out = NoMatch \/ best.weight >= out.weight) /\ step(best, path) = best
        \/ /\ out # NoMatch /\ ~(best.weight >= out.weight)
           /\ step(best, path) = Match(path, inType, out)
    BY Zenon DEF out
  <2> HIDE DEF out, V, step
  <2>7. out # NoMatch => Match(path, inType, out) \in V
    BY <2>2, MatchFacts DEF V
  <2>8. out # NoMatch /\ best.weight >= out.weight => best # Unmatched
    BY <2>2, <2>3, <2>5
  <2>9. ~LeadsNowhere(path, preferences) => out # NoMatch
    BY <2>2
  <2> QED
    BY <2>4, <2>6, <2>7, <2>8, <2>9, Zenon
<1> HIDE DEF V, step
<1>4. F \in [V \X (1 .. n) -> V]
  BY <1>1, <1>3
<1>5. PICK g \in [SUBSET (1 .. n) -> V] : FoldsTo(g, F, Unmatched, n)
  BY <1>1, <1>2, <1>4, FoldExists
<1>6. IsFold(g)
  <2>1. ASSUME NEW s \in SUBSET (1 .. n), s # {}
        PROVE  F[<<g[s \ {Max(s)}], Max(s)>>] = step(g[s \ {Max(s)}], paths[Max(s)])
    <3>1. Max(s) \in 1 .. n /\ s \ {Max(s)} \in SUBSET (1 .. n)
      BY <1>1, <2>1, MaxOfNumbers
    <3> QED
      BY <3>1
  <2> HIDE DEF F
  <2> QED
    BY <1>1, <1>5, <2>1 DEF FoldsTo
<1>7. IsFold(fold)
  BY <1>6, Zenon
<1>8. (\A k \in 0 .. n : fold[1 .. k] \in V) /\ fold[1 .. n] \in V
  <2>1. fold[{}] \in V
    BY <1>2, <1>7
  <2>2. ASSUME NEW s \in SUBSET (1 .. n), s # {}, fold[s \ {Max(s)}] \in V
        PROVE  fold[s] \in V
    <3>1. Max(s) \in 1 .. n
      BY <1>1, <2>2, MaxOfNumbers
    <3>2. fold[s] = step(fold[s \ {Max(s)}], paths[Max(s)])
      BY <1>1, <1>7, <2>2
    <3> QED
      BY <1>1, <1>3, <2>2, <3>1, <3>2
  <2> HIDE DEF fold
  <2> QED
    BY <1>1, <2>1, <2>2, FoldKeeps, FoldStays
<1>9. findBest(inType, preferences, paths) = fold[DOMAIN paths]
  BY Zenon DEF findBest, FoldLeft, MapThenFoldSet, step
<1>10. ASSUME NEW i \in 1 .. n, ~LeadsNowhere(paths[i], preferences)
       PROVE  fold[1 .. n] # Unmatched
  <2> DEFINE P == V \ {Unmatched}
  <2>1. ASSUME NEW s \in SUBSET (1 .. n), s # {}, fold[s \ {Max(s)}] \in P
        PROVE  fold[s] \in P
    <3>1. Max(s) \in 1 .. n
      BY <1>1, <2>1, MaxOfNumbers
    <3>2. fold[s] = step(fold[s \ {Max(s)}], paths[Max(s)])
      BY <1>1, <1>7, <2>1
    <3> HIDE DEF fold
    <3> QED
      BY <1>1, <1>3, <2>1, <3>1, <3>2
  <2>2. fold[1 .. i] \in P
    <3>1. /\ 1 .. i \in SUBSET (1 .. n) /\ 1 .. i # {} /\ Max(1 .. i) = i
          /\ (1 .. i) \ {i} = 1 .. i - 1 /\ i - 1 \in 0 .. n
      BY <1>1, Segments
    <3>2. fold[1 .. i] = step(fold[1 .. i - 1], paths[i])
      BY <1>1, <1>7, <3>1
    <3> HIDE DEF fold
    <3> QED
      BY <1>1, <1>3, <1>8, <1>10, <3>1, <3>2
  <2>3. fold[1 .. n] \in P
    <3> HIDE DEF fold, P
    <3> QED
      BY <1>1, <2>1, <2>2, FoldReaches
  <2> HIDE DEF fold
  <2> QED
    BY <2>3
<1> HIDE DEF fold
<1> QED
  BY <1>1, <1>8, <1>9, <1>10 DEF V

\* Paths that cannot get better are removed, and none is added.
LEMMA RemoveFacts ==
  ASSUME NEW S, NEW paths \in Seq(S), NEW maxWeight, NEW inType, NEW best
  PROVE  /\ removeBadPaths(paths, maxWeight, inType, best) \in Seq(S)
         /\ best = Unmatched => removeBadPaths(paths, maxWeight, inType, best) = paths
<1> DEFINE optimistic(path) ==
             Times(Times(getTypeWeight(inType, inTypes(path)),
                         Greatest({t.weight : t \in ToSet(path.outTypes)})), maxWeight)
           better == {path \in ToSet(paths) : optimistic(path) > best.weight}
<1>1. better \subseteq S
  BY DEF ToSet
<1>2. picked(paths, better) \in Seq(S)
  <2>1. picked(paths, better) \in Seq(better)
    BY PickedFacts
  <2> HIDE DEF better
  <2> QED
    BY <1>1, <2>1, SeqMonotonic
<1>3. removeBadPaths(paths, maxWeight, inType, best) \in {paths, <<>>, picked(paths, better)}
  BY Zenon DEF removeBadPaths
<1>5. best = Unmatched => removeBadPaths(paths, maxWeight, inType, best) = paths
  BY Zenon DEF removeBadPaths
<1> HIDE DEF better
<1>4. <<>> \in Seq(S)
  OBVIOUS
<1> QED
  BY <1>2, <1>3, <1>4, <1>5

\* What is known after a round of the search, with the paths that are left, and
\* what the next round makes of that.
KnownAfter(inType, preferences, paths, best) ==
  [paths |-> removeBadPaths(paths, Greatest({preferences[r] : r \in DOMAIN preferences}), inType, best),
   best |-> best]

Longer(known) == FlattenSeq([i \in DOMAIN known.paths |-> takeStep(known.paths[i])])

Further(inType, preferences, known) ==
  LET newBest == findBest(inType, preferences, Longer(known)) IN
  KnownAfter(inType, preferences, Longer(known),
             IF newBest.weight > known.best.weight THEN newBest ELSE known.best)

Searches(T, inType, preferences) ==
  [paths : Seq(Begun(T, inType)), best : Matches(T, preferences)]

\* A path is longer by each converter that can follow it.
LEMMA LongerFacts ==
  ASSUME scenario \in Scenarios, NEW T, OutputsAreIn(T), NEW inType, NEW preferences,
         NEW known \in Searches(T, inType, preferences)
  PROVE  /\ Longer(known) \in Seq(Begun(T, inType))
         /\ \A k \in DOMAIN known.paths :
              \A q \in ToSet(takeStep(known.paths[k])) : q \in ToSet(Longer(known))
<1> DEFINE paths == known.paths
           taken == [i \in DOMAIN paths |-> takeStep(paths[i])]
<1>1. paths \in Seq(Begun(T, inType))
  BY DEF Searches
<1>2. /\ Len(paths) \in Nat /\ DOMAIN paths = 1 .. Len(paths)
      /\ \A i \in 1 .. Len(paths) : takeStep(paths[i]) \in Seq(Begun(T, inType))
  <2> HIDE DEF paths
  <2> QED
    BY <1>1, StepFacts
<1>3. taken \in Seq(Seq(Begun(T, inType)))
  <2> HIDE DEF paths
  <2> QED
    BY <1>2
<1>4. DOMAIN taken = DOMAIN paths /\ \A i \in DOMAIN paths : taken[i] = takeStep(paths[i])
  OBVIOUS
<1> HIDE DEF taken
<1>5. /\ FlattenSeq(taken) \in Seq(Begun(T, inType))
      /\ \A i \in DOMAIN taken : \A x \in ToSet(taken[i]) : x \in ToSet(FlattenSeq(taken))
  BY <1>3, FlattenFacts
<1> QED
  BY <1>4, <1>5 DEF Longer, taken

\* A search keeps to its type and preferences; a match is only left for a better
\* one, and no path is removed before there is one.
LEMMA FurtherFacts ==
  ASSUME scenario \in Scenarios, NEW T, OutputsAreIn(T), NEW inType,
         NEW preferences, IsWeighing(preferences),
         NEW known \in Searches(T, inType, preferences)
  PROVE  LET next == Further(inType, preferences, known) IN
         /\ next \in Searches(T, inType, preferences)
         /\ known.best # Unmatched => next.best # Unmatched
         /\ next.best = Unmatched =>
              /\ next.paths = Longer(known)
              /\ \A i \in DOMAIN next.paths : LeadsNowhere(next.paths[i], preferences)
<1> DEFINE longer == Longer(known)
           newBest == findBest(inType, preferences, longer)
           best == IF newBest.weight > known.best.weight THEN newBest ELSE known.best
           next == Further(inType, preferences, known)
<1>1. known.paths \in Seq(Begun(T, inType)) /\ known.best \in Matches(T, preferences)
  BY DEF Searches
<1>2. longer \in Seq(Begun(T, inType))
  BY LongerFacts
<1> HIDE DEF longer
<1>3. /\ newBest \in Matches(T, preferences)
      /\ newBest = Unmatched => \A i \in DOMAIN longer : LeadsNowhere(longer[i], preferences)
  BY <1>2, FindBestFacts
<1> HIDE DEF newBest
<1>4. \A m \in Matches(T, preferences) : m.weight \in Nat /\ (m # Unmatched <=> m.weight > 0)
  <2> TAKE m \in Matches(T, preferences)
  <2>1. CASE m = Unmatched
    BY <2>1 DEF Unmatched
  <2>2. CASE m # Unmatched
    <3>1. m.weight \in Nat \ {0}
      BY <2>2 DEF Matches
    <3> QED
      BY <2>2, <3>1
  <2> QED
    BY <2>1, <2>2
<1>5. /\ best \in Matches(T, preferences)
      /\ known.best # Unmatched => best # Unmatched
      /\ newBest # Unmatched => best # Unmatched
  <2>1. CASE newBest.weight > known.best.weight
    BY <1>1, <1>3, <1>4, <2>1
  <2>2. CASE ~(newBest.weight > known.best.weight)
    BY <1>1, <1>3, <1>4, <2>2
  <2> QED
    BY <2>1, <2>2
<1>6. next = KnownAfter(inType, preferences, longer, best)
  BY DEF Further, longer, newBest
<1> HIDE DEF best, next
<1>7. next.best = best /\ next \in Searches(T, inType, preferences)
  BY <1>2, <1>5, <1>6, RemoveFacts DEF KnownAfter, Searches
<1>8. best = Unmatched => next.paths = longer
  BY <1>2, <1>6, RemoveFacts DEF KnownAfter
<1> QED
  BY <1>3, <1>5, <1>7, <1>8 DEF next, longer

LEMMA BeginningFacts ==
  ASSUME scenario \in Scenarios, NEW T, OutputsAreIn(T), NEW inType,
         NEW preferences, IsWeighing(preferences)
  PROVE  LET first == initialPaths(inType)
             known == KnownAfter(inType, preferences, first, findBest(inType, preferences, first)) IN
         /\ known \in Searches(T, inType, preferences)
         /\ known.best = Unmatched =>
              /\ known.paths = first
              /\ \A i \in DOMAIN first : LeadsNowhere(first[i], preferences)
<1> DEFINE first == initialPaths(inType)
           best == findBest(inType, preferences, first)
<1>1. first \in Seq(Begun(T, inType))
  BY SingleFacts
<1> HIDE DEF first
<1>2. /\ best \in Matches(T, preferences)
      /\ best = Unmatched => \A i \in DOMAIN first : LeadsNowhere(first[i], preferences)
  BY <1>1, FindBestFacts
<1> HIDE DEF best
<1>3. KnownAfter(inType, preferences, first, best) \in Searches(T, inType, preferences)
  BY <1>1, <1>2, RemoveFacts DEF KnownAfter, Searches
<1>4. best = Unmatched => KnownAfter(inType, preferences, first, best).paths = first
  BY <1>1, RemoveFacts DEF KnownAfter
<1> QED
  BY <1>2, <1>3, <1>4 DEF best, first, KnownAfter

\* A search goes on for as many rounds as there are converters.
LEMMA SearchRounds ==
  ASSUME scenario \in Scenarios, NEW T, OutputsAreIn(T), NEW inType,
         NEW preferences, IsWeighing(preferences)
  PROVE  \E known \in [0 .. Len(converters) -> Searches(T, inType, preferences)] :
           /\ known[0] = KnownAfter(inType, preferences, initialPaths(inType),
                               findBest(inType, preferences, initialPaths(inType)))
           /\ \A k \in 1 .. Len(converters) : known[k] = Further(inType, preferences, known[k - 1])
           /\ generatePath(inType, preferences) = known[Len(converters)].best
<1> DEFINE n == Len(converters)
           rounds == [i \in DOMAIN converters |-> i]
           V == Searches(T, inType, preferences)
           step(known, round) == Further(inType, preferences, known)
           base == KnownAfter(inType, preferences, initialPaths(inType),
                         findBest(inType, preferences, initialPaths(inType)))
           F == [x \in V \X (1 .. n) |-> step(x[1], rounds[x[2]])]
           IsFold(g) == g = [s \in SUBSET (DOMAIN rounds) |-> IF s = {} THEN base
                               ELSE LET x == Max(s) IN step(g[s \ {x}], rounds[x])]
           fold == CHOOSE g : IsFold(g)
<1>1. n \in Nat /\ DOMAIN rounds = 1 .. n
  BY ConverterFacts
<1>2. base \in V
  BY BeginningFacts
<1>3. ASSUME NEW known \in V, NEW round
      PROVE  step(known, round) \in V
  BY FurtherFacts
<1>4. generatePath(inType, preferences) = fold[DOMAIN rounds].best
  BY Zenon DEF generatePath, FoldLeft, MapThenFoldSet, step, base, rounds, KnownAfter, Further, Longer
<1> HIDE DEF base, rounds
<1> HIDE DEF V, step
<1>5. F \in [V \X (1 .. n) -> V]
  BY <1>1, <1>3
<1>6. PICK g \in [SUBSET (1 .. n) -> V] : FoldsTo(g, F, base, n)
  BY <1>1, <1>2, <1>5, FoldExists
<1>7. IsFold(g)
  <2>1. ASSUME NEW s \in SUBSET (1 .. n), s # {}
        PROVE  F[<<g[s \ {Max(s)}], Max(s)>>] = step(g[s \ {Max(s)}], rounds[Max(s)])
    <3>1. Max(s) \in 1 .. n /\ s \ {Max(s)} \in SUBSET (1 .. n)
      BY <1>1, <2>1, MaxOfNumbers
    <3> QED
      BY <3>1
  <2> HIDE DEF F
  <2> QED
    BY <1>1, <1>6, <2>1 DEF FoldsTo
<1>8. IsFold(fold)
  BY <1>7, Zenon
<1>9. \A k \in 0 .. n : fold[1 .. k] \in V
  <2>1. fold[{}] \in V
    BY <1>2, <1>8
  <2>2. ASSUME NEW s \in SUBSET (1 .. n), s # {}, fold[s \ {Max(s)}] \in V
        PROVE  fold[s] \in V
    <3>1. Max(s) \in 1 .. n
      BY <1>1, <2>2, MaxOfNumbers
    <3>2. fold[s] = step(fold[s \ {Max(s)}], rounds[Max(s)])
      BY <1>1, <1>8, <2>2
    <3> QED
      BY <1>1, <1>3, <2>2, <3>1, <3>2
  <2> HIDE DEF fold
  <2> QED
    BY <1>1, <2>1, <2>2, FoldStays
<1>10. fold[1 .. 0] = base
  <2>1. 1 .. 0 = {}
    OBVIOUS
  <2> QED
    BY <1>8, <2>1
<1>11. ASSUME NEW k \in 1 .. n
       PROVE  fold[1 .. k] = Further(inType, preferences, fold[1 .. k - 1])
  <2>1. /\ 1 .. k \in SUBSET (1 .. n) /\ 1 .. k # {} /\ Max(1 .. k) = k
        /\ (1 .. k) \ {k} = 1 .. k - 1
    BY <1>1, Segments
  <2>2. fold[1 .. k] = step(fold[1 .. k - 1], rounds[k])
    BY <1>1, <1>8, <2>1
  <2> HIDE DEF fold
  <2> QED
    BY <2>2 DEF step
<1> DEFINE found == [k \in 0 .. n |-> fold[1 .. k]]
<1> HIDE DEF fold
<1>12. 0 \in 0 .. n /\ n \in 0 .. n /\ \A k \in 1 .. n : k \in 0 .. n /\ k - 1 \in 0 .. n
  BY <1>1
<1>13. found \in [0 .. n -> V]
  BY <1>9
<1>14. /\ found[0] = base /\ found[n].best = fold[1 .. n].best
       /\ \A k \in 1 .. n : found[k] = Further(inType, preferences, found[k - 1])
  BY <1>10, <1>11, <1>12
<1> HIDE DEF found
<1> QED
  BY <1>1, <1>4, <1>13, <1>14 DEF V, base

\* What a search finds is nothing, or a path through different converters to a
\* type that suits the preferences.
LEMMA GenerateFacts ==
  ASSUME scenario \in Scenarios, NEW T, OutputsAreIn(T), NEW inType,
         NEW preferences, IsWeighing(preferences)
  PROVE  generatePath(inType, preferences) \in Matches(T, preferences)
<1>1. PICK known \in [0 .. Len(converters) -> Searches(T, inType, preferences)] :
             generatePath(inType, preferences) = known[Len(converters)].best
  BY SearchRounds
<1>2. Len(converters) \in 0 .. Len(converters)
  BY ConverterFacts
<1> QED
  BY <1>1, <1>2 DEF Searches

\* Converters that take one of some types, and the types that are there with
\* what these make.
Takes(i, types) == \E t \in types : getTypeWeight(t, converters[i].input) > 0

MadeBy(i) == {t.value : t \in ToSet(converters[i].output)}

More(types) == types \cup (UNION {MadeBy(i) : i \in {j \in DOMAIN converters : Takes(j, types)}})

\* A search finds a path if any chain of converters leads to a type that suits:
\* each converter ends a path in the round in which it first takes a type.
LEMMA SearchIsComplete ==
  ASSUME scenario \in Scenarios, NEW T, OutputsAreIn(T), NEW inType,
         NEW preferences, IsWeighing(preferences),
         generatePath(inType, preferences) = Unmatched,
         ~(getTypeWeight(inType, preferences) > 0),
         NEW reach, reach[0] = {inType},
         \A k \in 1 .. Len(converters) : reach[k] = More(reach[k - 1])
  PROVE  \A t \in reach[Len(converters)] : ~(getTypeWeight(t, preferences) > 0)
<1> DEFINE n == Len(converters)
           first == initialPaths(inType)
           Suiting(t) == getTypeWeight(t, preferences) > 0
<1>1. /\ n \in Nat /\ DOMAIN converters = 1 .. n /\ 0 \in 0 .. n /\ n \in 0 .. n
      /\ \A k \in 1 .. n : k \in 0 .. n /\ k - 1 \in 0 .. n
      /\ \A k \in 1 .. n : k - 1 # 0 => k - 1 \in 1 .. n
  BY ConverterFacts
<1>2. PICK known \in [0 .. n -> Searches(T, inType, preferences)] :
        /\ known[0] = KnownAfter(inType, preferences, first, findBest(inType, preferences, first))
        /\ \A k \in 1 .. n : known[k] = Further(inType, preferences, known[k - 1])
        /\ generatePath(inType, preferences) = known[n].best
  BY SearchRounds
<1> HIDE DEF n, first
<1>3. \A k \in 0 .. n : known[k].best = Unmatched
  <2> DEFINE S == {k \in 0 .. n : known[n - k].best = Unmatched}
  <2>1. 0 \in S
    BY <1>1, <1>2
  <2>2. ASSUME NEW k \in 1 .. n, k - 1 \in S
        PROVE  k \in S
    <3>1. n - k \in 0 .. n /\ n - k + 1 \in 1 .. n /\ n - (k - 1) = n - k + 1 /\ (n - k + 1) - 1 = n - k
      BY <1>1
    <3>2. known[n - k + 1] = Further(inType, preferences, known[n - k])
      BY <1>2, <3>1
    <3>3. known[n - k] \in Searches(T, inType, preferences) /\ known[n - k + 1].best = Unmatched
      BY <2>2, <3>1
    <3>4. known[n - k].best = Unmatched
      BY <3>2, <3>3, FurtherFacts
    <3> QED
      BY <1>1, <3>4
  <2>3. \A k \in 0 .. n : k \in S
    <3> HIDE DEF S
    <3> QED
      BY <1>1, <2>1, <2>2, HoldsUpTo
  <2>4. \A k \in 0 .. n : n - k \in 0 .. n /\ n - (n - k) = k
    BY <1>1
  <2>5. \A k \in 0 .. n : n - k \in S
    <3> HIDE DEF S
    <3> QED
      BY <2>3, <2>4
  <2> QED
    BY <2>4, <2>5
<1>4. /\ known[0].paths = first
      /\ \A i \in DOMAIN first : LeadsNowhere(first[i], preferences)
  <2>1. known[0].best = Unmatched
    BY <1>1, <1>3
  <2> QED
    BY <1>2, <2>1, BeginningFacts DEF first
<1>5. ASSUME NEW k \in 1 .. n
      PROVE  /\ known[k].paths = Longer(known[k - 1])
             /\ \A i \in DOMAIN known[k].paths : LeadsNowhere(known[k].paths[i], preferences)
  <2>1. /\ known[k] = Further(inType, preferences, known[k - 1]) /\ known[k].best = Unmatched
        /\ known[k - 1] \in Searches(T, inType, preferences)
    BY <1>1, <1>2, <1>3
  <2> QED
    BY <2>1, FurtherFacts
<1>6. ASSUME NEW k \in 0 .. n, NEW path \in ToSet(known[k].paths)
      PROVE  LeadsNowhere(path, preferences)
  <2>1. k = 0 \/ k \in 1 .. n
    BY <1>1
  <2> QED
    BY <1>4, <1>5, <2>1 DEF ToSet
<1>7. \A k \in 1 .. n : \A i : Takes(i, reach[k - 1]) => Takes(i, reach[k])
  <2>1. \A k \in 1 .. n : reach[k - 1] \subseteq reach[k]
    BY DEF More, n
  <2> QED
    BY <2>1 DEF Takes
<1> DEFINE Ends(k, i) == \E path \in ToSet(known[k].paths) :
                           EndsWith(path, i) /\ \A j \in ToSet(path.converters) : Takes(j, reach[k])
           New(k, i) == Takes(i, reach[k]) /\ (k = 0 \/ ~Takes(i, reach[k - 1]))
<1>8. \A k \in 0 .. n : \A i \in DOMAIN converters : New(k, i) => Ends(k, i)
  <2> DEFINE S == {k \in 0 .. n : \A i \in DOMAIN converters : New(k, i) => Ends(k, i)}
  <2>1. 0 \in S
    <3> SUFFICES ASSUME NEW i \in DOMAIN converters, Takes(i, reach[0])
                 PROVE  Ends(0, i)
      BY <1>1
    <3> DEFINE path == [converters |-> <<i>>, outTypes |-> converters[i].output]
    <3>1. getTypeWeight(inType, converters[i].input) > 0
      BY DEF Takes
    <3>2. path \in ToSet(known[0].paths)
      BY <1>4, <3>1, SingleFacts DEF first
    <3>3. EndsWith(path, i)
      BY DEF EndsWith
    <3>4. \A j \in ToSet(path.converters) : j = i
      BY DEF ToSet
    <3> QED
      BY <3>2, <3>3, <3>4
  <2>2. ASSUME NEW k \in 1 .. n, k - 1 \in S
        PROVE  k \in S
    <3> SUFFICES ASSUME NEW i \in DOMAIN converters, New(k, i)
                 PROVE  Ends(k, i)
      BY <1>1
    <3>1. Takes(i, reach[k]) /\ ~Takes(i, reach[k - 1]) /\ reach[k] = More(reach[k - 1])
      BY <1>1 DEF n
    <3>2. PICK t \in reach[k] : getTypeWeight(t, converters[i].input) > 0
      BY <3>1 DEF Takes
    <3>3. t \notin reach[k - 1]
      BY <3>1, <3>2 DEF Takes
    <3>4. PICK j \in DOMAIN converters : Takes(j, reach[k - 1]) /\ t \in MadeBy(j)
      BY <3>1, <3>3 DEF More
    <3>5. k - 1 = 0 \/ ~Takes(j, reach[k - 1 - 1])
      <4>1. SUFFICES ASSUME k - 1 # 0, Takes(j, reach[k - 1 - 1])
                     PROVE  FALSE
        OBVIOUS
      <4>2. reach[k - 1] = More(reach[k - 1 - 1])
        BY <1>1, <4>1 DEF n
      <4>3. t \in More(reach[k - 1 - 1])
        BY <3>4, <4>1 DEF More
      <4> QED
        BY <3>3, <4>2, <4>3
    <3>6. PICK path \in ToSet(known[k - 1].paths) :
                 EndsWith(path, j) /\ \A h \in ToSet(path.converters) : Takes(h, reach[k - 1])
      <4>1. New(k - 1, j) /\ Ends(k - 1, j)
        BY <2>2, <3>4, <3>5
      <4> QED
        BY <4>1
    <3>7. /\ i \notin ToSet(path.converters)
          /\ \A h \in ToSet(path.converters) : Takes(h, reach[k])
      BY <1>7, <3>1, <3>6
    <3>8. known[k - 1] \in Searches(T, inType, preferences) /\ path \in Begun(T, inType)
      <4>1. known[k - 1] \in Searches(T, inType, preferences)
        BY <1>1, <1>2
      <4> DEFINE paths == known[k - 1].paths
      <4>2. paths \in Seq(Begun(T, inType)) /\ path \in ToSet(paths)
        BY <3>6, <4>1 DEF Searches
      <4> HIDE DEF paths
      <4>3. path \in Begun(T, inType)
        BY <4>2 DEF ToSet
      <4> QED
        BY <4>1, <4>3
    <3>9. getBestPreference(path.outTypes, converters[i].input) # NoMatch
      <4>1. PICK o \in DOMAIN converters[j].output : converters[j].output[o].value = t
        BY <3>4 DEF MadeBy, ToSet
      <4>2. o \in DOMAIN path.outTypes /\ path.outTypes[o].value = t
        BY <3>6, <4>1 DEF EndsWith
      <4>3. path.outTypes \in Seq(Weighed(T)) /\ IsWeighing(converters[i].input)
        BY <3>8, ConverterFacts DEF Begun, ChainPaths
      <4> QED
        BY <3>2, <4>2, <4>3, BestPreferenceFacts
    <3>10. PICK q \in ToSet(takeStep(path)) :
             /\ ToSet(q.converters) \subseteq ToSet(path.converters) \cup {i}
             /\ EndsWith(q, i)
      BY <3>7, <3>8, <3>9, StepFacts
    <3>11. q \in ToSet(known[k].paths)
      <4>1. PICK m \in DOMAIN known[k - 1].paths : path = known[k - 1].paths[m]
        BY <3>6 DEF ToSet
      <4>2. q \in ToSet(Longer(known[k - 1]))
        BY <3>8, <3>10, <4>1, LongerFacts
      <4> QED
        BY <1>5, <4>2
    <3> QED
      BY <3>1, <3>7, <3>10, <3>11
  <2>3. \A k \in 0 .. n : k \in S
    <3> HIDE DEF S
    <3> QED
      BY <1>1, <2>1, <2>2, HoldsUpTo
  <2> QED
    BY <2>3
<1> HIDE DEF Suiting
<1>9. \A k \in 0 .. n : \A i \in DOMAIN converters : Takes(i, reach[k]) => \A t \in MadeBy(i) : ~Suiting(t)
  <2> DEFINE S == {k \in 0 .. n : \A i \in DOMAIN converters :
                     Takes(i, reach[k]) => \A t \in MadeBy(i) : ~Suiting(t)}
  <2>1. ASSUME NEW k \in 0 .. n, NEW i \in DOMAIN converters, Ends(k, i), NEW t \in MadeBy(i)
        PROVE  ~Suiting(t)
    <3>1. PICK path \in ToSet(known[k].paths) : EndsWith(path, i)
      BY <2>1
    <3>2. PICK o \in DOMAIN converters[i].output : converters[i].output[o].value = t
      BY DEF MadeBy, ToSet
    <3>3. LeadsNowhere(path, preferences)
      BY <1>6
    <3> QED
      BY <3>1, <3>2, <3>3 DEF EndsWith, LeadsNowhere, Suiting
  <2>2. 0 \in S
    BY <1>1, <1>8, <2>1
  <2>3. ASSUME NEW k \in 1 .. n, k - 1 \in S
        PROVE  k \in S
    <3> SUFFICES ASSUME NEW i \in DOMAIN converters, Takes(i, reach[k]), NEW t \in MadeBy(i)
                 PROVE  ~Suiting(t)
      BY <1>1
    <3>1. CASE Takes(i, reach[k - 1])
      BY <2>3, <3>1
    <3>2. CASE ~Takes(i, reach[k - 1])
      <4>1. k \in 0 .. n /\ Ends(k, i)
        BY <1>1, <1>8, <3>2
      <4> HIDE DEF Ends
      <4> QED
        BY <2>1, <4>1
    <3> QED
      BY <3>1, <3>2
  <2>4. \A k \in 0 .. n : k \in S
    <3> HIDE DEF S
    <3> QED
      BY <1>1, <2>2, <2>3, HoldsUpTo
  <2> QED
    BY <2>4
<1>10. \A k \in 0 .. n : \A t \in reach[k] : ~Suiting(t)
  <2> DEFINE S == {k \in 0 .. n : \A t \in reach[k] : ~Suiting(t)}
  <2>1. 0 \in S
    BY <1>1 DEF Suiting
  <2>2. ASSUME NEW k \in 1 .. n, k - 1 \in S
        PROVE  k \in S
    <3> SUFFICES ASSUME NEW t \in More(reach[k - 1]) PROVE ~Suiting(t)
      BY <1>1 DEF n
    <3>1. t \in reach[k - 1] \/ \E i \in DOMAIN converters : Takes(i, reach[k - 1]) /\ t \in MadeBy(i)
      BY DEF More
    <3> QED
      BY <1>1, <1>9, <2>2, <3>1
  <2>3. \A k \in 0 .. n : k \in S
    <3> HIDE DEF S
    <3> QED
      BY <1>1, <2>1, <2>2, HoldsUpTo
  <2> QED
    BY <2>3
<1> QED
  BY <1>1, <1>10 DEF Suiting, n

-----------------------------------------------------------------------------
(* Replacements, and what is found in the cache.                           *)

ReplacementsAreIn(T) ==
  \A i \in DOMAIN setup.replacements : \A t \in ToSet(setup.replacements[i].to) : t \in T

\* What the settings say of replacements,
LEMMA ReplacementFacts ==
  ASSUME scenario \in Scenarios, NEW T, ReplacementsAreIn(T)
  PROVE  /\ Len(setup.replacements) \in Nat
         /\ DOMAIN setup.replacements = 1 .. Len(setup.replacements)
         /\ \A i \in DOMAIN setup.replacements : setup.replacements[i].to \in Seq(T)
<1> DEFINE replacements == setup.replacements
<1>1. /\ IsSequence(replacements)
      /\ \A replacement \in ToSet(replacements) : IsSequence(replacement.to)
  BY SetupsAssumption, Zenon DEF setup
<1>2. replacements \in Seq(ToSet(replacements))
  BY <1>1 DEF IsSequence
<1>3. ASSUME NEW i \in DOMAIN replacements
      PROVE  replacements[i].to \in Seq(T)
  <2> DEFINE to == replacements[i].to
  <2>1. to \in Seq(ToSet(to)) /\ ToSet(to) \subseteq T
    BY <1>1 DEF IsSequence, ToSet, ReplacementsAreIn
  <2> HIDE DEF to
  <2>2. to \in Seq(T)
    BY <2>1, SeqMonotonic
  <2> QED
    BY <2>2 DEF to
<1> HIDE DEF replacements
<1>4. Len(replacements) \in Nat /\ DOMAIN replacements = 1 .. Len(replacements)
  BY <1>2
<1> QED
  BY <1>3, <1>4 DEF replacements

\* and what they make of a type, whatever the order they are applied in.
LEMMA TypeMapFacts ==
  ASSUME scenario \in Scenarios, NEW T, ReplacementsAreIn(T), NEW pattern
  PROVE  contentTypeMap(pattern) \in Seq(T)
<1> DEFINE replacements == setup.replacements
           Of(t) == FlattenSeq([i \in DOMAIN replacements |->
                                  IF replacements[i].from = t THEN replacements[i].to ELSE <<>>])
           all == FlattenSeq([i \in DOMAIN replacements |-> replacements[i].to])
           steps == Of(pattern) \o all
           n == Len(steps)
           V == [out : Seq(T), todo : Seq(T)]
           base == [out |-> <<>>, todo |-> Of(pattern)]
           step(s, x) ==
             IF s.todo = <<>> THEN s
             ELSE IF Head(s.todo) \in ToSet(s.out) THEN [s EXCEPT !.todo = Tail(s.todo)]
             ELSE [out |-> Append(s.out, Head(s.todo)), todo |-> Of(Head(s.todo)) \o Tail(s.todo)]
           F == [x \in V \X (1 .. n) |-> step(x[1], steps[x[2]])]
           IsFold(g) == g = [s \in SUBSET (DOMAIN steps) |-> IF s = {} THEN base
                               ELSE LET x == Max(s) IN step(g[s \ {x}], steps[x])]
           fold == CHOOSE g : IsFold(g)
<1>0. /\ \A t : Of(t) \in Seq(T)
      /\ all \in Seq(T)
  <2>1. /\ Len(replacements) \in Nat /\ DOMAIN replacements = 1 .. Len(replacements)
        /\ \A i \in DOMAIN replacements : replacements[i].to \in Seq(T)
    BY ReplacementFacts
  <2> HIDE DEF replacements
  <2>2. <<>> \in Seq(T)
    OBVIOUS
  <2>3. ASSUME NEW t
        PROVE  Of(t) \in Seq(T)
    <3> DEFINE from == [i \in DOMAIN replacements |->
                          IF replacements[i].from = t THEN replacements[i].to ELSE <<>>]
    <3>1. from \in Seq(Seq(T))
      BY <2>1, <2>2
    <3> HIDE DEF from
    <3>2. FlattenSeq(from) \in Seq(T)
      BY <3>1, FlattenFacts
    <3> QED
      BY <3>2 DEF from
  <2>4. all \in Seq(T)
    <3> DEFINE to == [i \in DOMAIN replacements |-> replacements[i].to]
    <3>1. to \in Seq(Seq(T))
      BY <2>1
    <3> HIDE DEF to
    <3>2. FlattenSeq(to) \in Seq(T)
      BY <3>1, FlattenFacts
    <3> QED
      BY <3>2 DEF to
  <2> QED
    BY <2>3, <2>4
<1> HIDE DEF Of, all
<1>1. n \in Nat /\ DOMAIN steps = 1 .. n
  BY <1>0
<1> HIDE DEF steps
<1>2. base \in V
  BY <1>0
<1>3. ASSUME NEW s \in V, NEW x
      PROVE  step(s, x) \in V
  <2>1. s.out \in Seq(T) /\ s.todo \in Seq(T)
    OBVIOUS
  <2>2. CASE s.todo = <<>>
    BY <2>2
  <2>3. CASE s.todo # <<>>
    <3>1. Head(s.todo) \in T /\ Tail(s.todo) \in Seq(T)
      BY <2>1, <2>3, HeadTailProperties
    <3>2. /\ Append(s.out, Head(s.todo)) \in Seq(T)
          /\ Of(Head(s.todo)) \o Tail(s.todo) \in Seq(T)
      BY <1>0, <2>1, <3>1
    <3> QED
      BY <2>1, <3>1, <3>2
  <2> QED
    BY <2>2, <2>3
<1> HIDE DEF base
<1> HIDE DEF V, step
<1>4. F \in [V \X (1 .. n) -> V]
  BY <1>1, <1>3
<1>5. PICK g \in [SUBSET (1 .. n) -> V] : FoldsTo(g, F, base, n)
  BY <1>1, <1>2, <1>4, FoldExists
<1>6. IsFold(g)
  <2>1. ASSUME NEW s \in SUBSET (1 .. n), s # {}
        PROVE  F[<<g[s \ {Max(s)}], Max(s)>>] = step(g[s \ {Max(s)}], steps[Max(s)])
    <3>1. Max(s) \in 1 .. n /\ s \ {Max(s)} \in SUBSET (1 .. n)
      BY <1>1, <2>1, MaxOfNumbers
    <3> QED
      BY <3>1
  <2> HIDE DEF F
  <2> QED
    BY <1>1, <1>5, <2>1 DEF FoldsTo
<1>7. IsFold(fold)
  BY <1>6, Zenon
<1>8. fold[1 .. n] \in V
  <2>1. fold[{}] \in V
    BY <1>2, <1>7
  <2>2. ASSUME NEW s \in SUBSET (1 .. n), s # {}, fold[s \ {Max(s)}] \in V
        PROVE  fold[s] \in V
    <3>1. Max(s) \in 1 .. n
      BY <1>1, <2>2, MaxOfNumbers
    <3>2. fold[s] = step(fold[s \ {Max(s)}], steps[Max(s)])
      BY <1>1, <1>7, <2>2
    <3> QED
      BY <1>1, <1>3, <2>2, <3>1, <3>2
  <2> HIDE DEF fold
  <2> QED
    BY <1>1, <2>1, <2>2, FoldKeeps
<1>9. contentTypeMap(pattern) = fold[DOMAIN steps].out
  BY Zenon DEF contentTypeMap, FoldLeft, MapThenFoldSet, step, base, steps, Of, all
<1>10. fold[DOMAIN steps] \in V
  BY <1>1, <1>8
<1> HIDE DEF fold
<1> QED
  BY <1>9, <1>10 DEF V

\* A replacement is of a type that is wanted.
LEMMA ReplacementTypeFacts ==
  ASSUME scenario \in Scenarios, NEW T, ReplacementsAreIn(T), NEW j, IsWeighing(j.preferences)
  PROVE  LET replacement == getReplacementType(j) IN
         \/ replacement = NoMatch
         \/ /\ replacement.value \in T
            /\ getTypeWeight(replacement.value, cleanPreferences(j.preferences)) > 0
<1> DEFINE replacements == setup.replacements
           mapped == [i \in DOMAIN replacements |->
                        IF matchesMediaType(j.from, replacements[i].from)
                        THEN contentTypeMap(replacements[i].from) ELSE <<>>]
           supported == FlattenSeq(mapped)
           weighed == [i \in DOMAIN supported |-> [value |-> supported[i], weight |-> One]]
<1>1. mapped \in Seq(Seq(T))
  <2>1. Len(replacements) \in Nat /\ DOMAIN replacements = 1 .. Len(replacements)
    BY ReplacementFacts
  <2>2. /\ <<>> \in Seq(T)
        /\ \A i \in DOMAIN replacements : contentTypeMap(replacements[i].from) \in Seq(T)
    BY TypeMapFacts
  <2> HIDE DEF replacements
  <2> QED
    BY <2>1, <2>2
<1> HIDE DEF mapped
<1>2. supported \in Seq(T)
  BY <1>1, FlattenFacts
<1> HIDE DEF supported
<1>3. weighed \in Seq(Weighed(T))
  <2>1. Len(supported) \in Nat /\ DOMAIN supported = 1 .. Len(supported)
        /\ \A i \in 1 .. Len(supported) : [value |-> supported[i], weight |-> One] \in Weighed(T)
    BY <1>2, WeightsAssumption DEF Weighed
  <2> QED
    BY <2>1
<1>4. getReplacementType(j) = getBestPreference(weighed, cleanPreferences(j.preferences))
  BY Zenon DEF getReplacementType, getConversionTarget, supported, mapped
<1>5. IsWeighing(cleanPreferences(j.preferences))
  BY CleanIsWeighing
<1> HIDE DEF weighed
<1> QED
  BY <1>3, <1>4, <1>5, BestPreferenceFacts DEF Weighed

LEMMA GreatestIndex ==
  ASSUME NEW n \in Nat, NEW S \in SUBSET (1 .. n), S # {}
  PROVE  Greatest(S) \in S
<1>1. Max(S) \in S /\ \A y \in S : y <= Max(S)
  BY MaxOfNumbers
<1>2. \A y \in S : Max(S) >= y
  BY <1>1
<1> QED
  BY <1>1, <1>2, Zenon DEF Greatest

\* What is found in the cache is in it,
LEMMA FindFacts ==
  ASSUME NEW S, cache \in Seq(S), NEW inType, NEW preferences, find(inType, preferences) # 0
  PROVE  LET i == find(inType, preferences) IN
         i \in 1 .. Len(cache) /\ getMatchedPath(inType, preferences, cache[i]) # Unmatched
<1> DEFINE matching == {i \in DOMAIN cache :
                          getMatchedPath(inType, preferences, cache[i]) # Unmatched}
<1>1. matching # {} /\ find(inType, preferences) = Greatest(matching)
  BY Zenon DEF find
<1>2. Len(cache) \in Nat /\ matching \in SUBSET (1 .. Len(cache))
  OBVIOUS
<1>3. \A i \in matching : getMatchedPath(inType, preferences, cache[i]) # Unmatched
  OBVIOUS
<1> HIDE DEF matching
<1>4. find(inType, preferences) \in matching
  BY <1>1, <1>2, GreatestIndex
<1> QED
  BY <1>2, <1>3, <1>4

\* The path that was used moves to the end.
LEMMA UsedFacts ==
  ASSUME NEW S, NEW s \in Seq(S), NEW i \in 1 .. Len(s)
  PROVE  LET used == Append(RemoveAt(s, i), s[i]) IN used \in Seq(S) /\ Len(used) = Len(s)
<1>1. Len(s) \in Nat /\ i \in Nat /\ s[i] \in S
  OBVIOUS
<1> DEFINE front == SubSeq(s, 1, i - 1)
           back == SubSeq(s, i + 1, Len(s))
           rest == RemoveAt(s, i)
<1>2. front \in Seq(S) /\ Len(front) = i - 1
  BY <1>1, SubSeqProperties
<1>3. back \in Seq(S) /\ Len(back) = Len(s) - i
  BY <1>1, SubSeqProperties
<1>4. rest = front \o back
  BY DEF RemoveAt
<1> HIDE DEF front, back, rest
<1>5. rest \in Seq(S) /\ Len(rest) = Len(front) + Len(back)
  BY <1>2, <1>3, <1>4, ConcatProperties, Zenon
<1>6. Len(rest) = Len(s) - 1
  BY <1>1, <1>2, <1>3, <1>5
<1> QED
  BY <1>1, <1>5, <1>6, AppendProperties DEF rest

\* and it does not outgrow its size when a path is added.
LEMMA AddFacts ==
  ASSUME NEW S, cache \in Seq(S), NEW path \in S, setup.cacheSize \in Nat, Len(cache) <= setup.cacheSize
  PROVE  add(path) \in Seq(S) /\ Len(add(path)) <= setup.cacheSize
<1> DEFINE grown == Append(cache, path)
<1>1. grown \in Seq(S) /\ grown # <<>> /\ Len(grown) = Len(cache) + 1 /\ Len(cache) \in Nat
  BY AppendProperties
<1> HIDE DEF grown
<1>2. Tail(grown) \in Seq(S) /\ Len(Tail(grown)) = Len(cache)
  BY <1>1, HeadTailProperties
<1>3. add(path) = IF Len(grown) > setup.cacheSize THEN Tail(grown) ELSE grown
  BY DEF add, grown
<1> QED
  BY <1>1, <1>2, <1>3

=============================================================================
