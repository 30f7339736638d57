------------------------------ MODULE Counting ------------------------------
(***************************************************************************)
(* What the proofs of several components say of numbers and finite sets:    *)
(* quotients and products, least and greatest elements, and folds over a    *)
(* finite set.  Induction takes the form of a least counterexample.         *)
(***************************************************************************)
EXTENDS Integers, FiniteSetTheorems, TLAPS

\* A quotient grows with its dividend.
LEMMA QuotientMonotone ==
  ASSUME NEW a \in Int, NEW b \in Int, NEW d \in Nat \ {0}, a <= b
  PROVE  a \div d \in Int /\ b \div d \in Int /\ a \div d <= b \div d
  OBVIOUS

\* A product grows with its second factor.
LEMMA ProductMonotone ==
  ASSUME NEW k \in Nat, NEW a \in Int, NEW b \in Int, a <= b
  PROVE  k * a \in Int /\ k * b \in Int /\ k * a <= k * b
  OBVIOUS

\* The quotient of a multiple is the multiplier.
LEMMA QuotientOfMultiple ==
  ASSUME NEW m \in Int, NEW d \in Nat \ {0}
  PROVE  (m * d) \div d = m
  OBVIOUS

-----------------------------------------------------------------------------
(* Least elements.                                                          *)

\* Of parts of a finite set, some have no smaller one below them.
LEMMA LeastPart ==
  ASSUME NEW S, IsFiniteSet(S), NEW Parts, Parts \subseteq SUBSET S, Parts # {}
  PROVE  \E T \in Parts : \A U \in Parts : ~(U \subseteq T /\ U # T)
<1> DEFINE Order == StrictSubsetOrdering(S)
           Domain == FiniteSubsetsOf(S)
<1>1. IsWellFoundedOn(Order, Domain)
  BY FS_StrictSubsetOrderingWellFounded
<1>2. Parts \subseteq Domain
  BY FS_Subset DEF FiniteSubsetsOf
<1>3. PICK T \in Parts : \A U \in Parts : ~ (<<U, T>> \in Order)
  <2> HIDE DEF Order, Domain
  <2> QED BY <1>1, <1>2, WFMin, Zenon
<1>4. ASSUME NEW U \in Parts, U \subseteq T, U # T PROVE FALSE
  <2>1. <<U, T>> \in Order
    BY <1>4 DEF StrictSubsetOrdering
  <2> QED BY <1>3, <2>1
<1> QED BY <1>4

\* A nonempty set of naturals has a least element: the parts of it up to an element are
\* finite sets, ordered by inclusion.
LEMMA LeastNumber ==
  ASSUME NEW S, S \subseteq Nat, S # {}
  PROVE  \E x \in S : \A y \in S : x <= y
<1>1. PICK z \in S : TRUE
  OBVIOUS
<1> DEFINE Upto(x) == S \cap (0 .. x)
           Parts == {Upto(x) : x \in Upto(z)}
<1>2. IsFiniteSet(Upto(z))
  <2>1. IsFiniteSet(0 .. z)
    BY FS_Interval, 0 \in Int, z \in Int
  <2> QED BY <2>1, FS_Intersection
<1>3. Parts \subseteq SUBSET Upto(z) /\ Parts # {}
  <2>1. z \in Upto(z)
    OBVIOUS
  <2>2. \A x \in Upto(z) : Upto(x) \subseteq Upto(z)
    OBVIOUS
  <2> QED BY <2>1, <2>2
<1>4. PICK T \in Parts : \A U \in Parts : ~(U \subseteq T /\ U # T)
  <2> HIDE DEF Parts, Upto
  <2> QED BY <1>2, <1>3, LeastPart
<1>5. PICK x \in Upto(z) : T = Upto(x)
  OBVIOUS
<1>6. ASSUME NEW y \in S, y < x PROVE FALSE
  <2>1. y \in Upto(z)
    BY <1>6
  <2>2. Upto(y) \in Parts
    BY <2>1
  <2>3. Upto(y) \subseteq Upto(x)
    BY <1>6
  <2>4. x \in Upto(x) /\ x \notin Upto(y)
    BY <1>6
  <2> QED BY <1>4, <1>5, <2>2, <2>3, <2>4
<1>7. x \in S
  OBVIOUS
<1> QED BY <1>6, <1>7

\* A part of a finite set is finite and no larger.
LEMMA PartIsSmaller ==
  ASSUME NEW S, IsFiniteSet(S), NEW T, T \subseteq S
  PROVE  IsFiniteSet(T) /\ Cardinality(T) \in Nat /\ Cardinality(T) <= Cardinality(S)
  BY FS_Subset, FS_CardinalityType

\* A proper part of a finite set is smaller.
LEMMA ProperPart ==
  ASSUME NEW S, IsFiniteSet(S), NEW T, T \subseteq S, NEW x \in S, x \notin T
  PROVE  Cardinality(T) < Cardinality(S)
<1>1. Cardinality(T) <= Cardinality(S) /\ Cardinality(T) # Cardinality(S)
  BY FS_Subset
<1> QED BY <1>1, PartIsSmaller, FS_CardinalityType

\* A finite set that is not empty has a least and a greatest element by a number it has.
LEMMA Greatest ==
  ASSUME NEW S, IsFiniteSet(S), S # {}, NEW f, \A x \in S : f[x] \in Int
  PROVE  \E x \in S : \A y \in S : f[y] <= f[x]
<1> DEFINE Over(x) == {y \in S : f[y] > f[x]}
           Ranks == {Cardinality(Over(x)) : x \in S}
<1>1. ASSUME NEW x \in S
      PROVE  /\ IsFiniteSet(Over(x))
             /\ Cardinality(Over(x)) \in Nat
  <2>1. Over(x) \subseteq S
    OBVIOUS
  <2> HIDE DEF Over
  <2> QED BY <2>1, PartIsSmaller
<1>2. PICK r \in Ranks : \A q \in Ranks : r <= q
  <2>1. Ranks \subseteq Nat /\ Ranks # {}
    <3> HIDE DEF Over
    <3> QED BY <1>1
  <2> HIDE DEF Ranks
  <2> QED BY <2>1, LeastNumber
<1>3. PICK x \in S : r = Cardinality(Over(x))
  <2> HIDE DEF Over
  <2> QED OBVIOUS
<1>4. ASSUME NEW y \in S, ~(f[y] <= f[x]) PROVE FALSE
  <2>1. Over(y) \subseteq Over(x) /\ y \in Over(x) /\ y \notin Over(y)
    BY <1>4
  <2>2. Cardinality(Over(y)) \in Ranks
    OBVIOUS
  <2> HIDE DEF Over, Ranks
  <2>3. Cardinality(Over(y)) < Cardinality(Over(x))
    BY <2>1, <1>1, ProperPart
  <2> QED BY <1>1, <1>2, <1>3, <2>2, <2>3
<1> QED BY <1>4

LEMMA Least ==
  ASSUME NEW S, IsFiniteSet(S), S # {}, NEW f, \A x \in S : f[x] \in Int
  PROVE  \E x \in S : \A y \in S : f[x] <= f[y]
<1> DEFINE g == [x \in S |-> -f[x]]
<1>1. \A x \in S : g[x] \in Int
  OBVIOUS
<1>2. PICK x \in S : \A y \in S : g[y] <= g[x]
  <2> HIDE DEF g
  <2> QED BY <1>1, Greatest
<1> QED BY <1>2

-----------------------------------------------------------------------------
(* Folds.                                                                   *)

\* g folds the parts of S, the element picked of a part last.
Folds(g, S, base, op, pick) ==
  g = [s \in SUBSET S |-> IF s = {} THEN base ELSE op[<<pick[s], g[s \ {pick[s]}]>>]]

\* A fold over a finite set exists.
LEMMA FoldExists ==
  ASSUME NEW S, IsFiniteSet(S), NEW V, NEW base \in V, NEW op \in [S \X V -> V],
         NEW pick, \A s \in SUBSET S : s # {} => pick[s] \in s
  PROVE  \E g : Folds(g, S, base, op, pick)
<1> DEFINE Upto(k) == {s \in SUBSET S : Cardinality(s) <= k}
           Next(g, s) == IF s = {} THEN base ELSE op[<<pick[s], g[s \ {pick[s]}]>>]
           Fold(g, k) == g \in [Upto(k) -> V] /\ \A s \in Upto(k) : g[s] = Next(g, s)
           Bad == {k \in Nat : ~\E g : Fold(g, k)}
<1>1. ASSUME NEW s \in SUBSET S
      PROVE  /\ IsFiniteSet(s)
             /\ Cardinality(s) \in Nat
             /\ Cardinality(s) <= Cardinality(S)
  BY PartIsSmaller
<1>2. \A s \in SUBSET S : Cardinality(s) = 0 => s = {}
  BY <1>1, FS_EmptySet
<1>3. ASSUME NEW s \in SUBSET S, s # {}
      PROVE  /\ pick[s] \in S
             /\ s \ {pick[s]} \in SUBSET S
             /\ Cardinality(s \ {pick[s]}) = Cardinality(s) - 1
  BY <1>1, <1>3, FS_RemoveElement
<1>4. Bad = {}
  <2>1. SUFFICES ASSUME Bad # {} PROVE FALSE
    OBVIOUS
  <2>2. PICK k \in Bad : \A j \in Bad : k <= j
    <3>1. Bad \subseteq Nat
      OBVIOUS
    <3> HIDE DEF Bad
    <3> QED BY <2>1, <3>1, LeastNumber
  <2>3. k \in Nat /\ ~\E g : Fold(g, k)
    <3> HIDE DEF Fold
    <3> QED BY <2>2
  <2>4. CASE k = 0
    <3> DEFINE g == [s \in Upto(k) |-> base]
    <3>1. \A s \in Upto(k) : s = {}
      BY <1>1, <1>2, <2>4
    <3>2. g \in [Upto(k) -> V] /\ \A s \in Upto(k) : g[s] = Next(g, s)
      <4> HIDE DEF Upto
      <4> QED BY <3>1
    <3> QED BY <2>3, <3>2
  <2>5. CASE k # 0
    <3>1. k - 1 \in Nat /\ ~(k <= k - 1)
      BY <2>3, <2>5
    <3>2. PICK h : Fold(h, k - 1)
      <4> HIDE DEF Fold
      <4>1. k - 1 \notin Bad
        <5> HIDE DEF Bad
        <5> QED BY <2>2, <3>1
      <4> QED BY <3>1, <4>1
    <3> DEFINE g == [s \in Upto(k) |-> Next(h, s)]
    <3>3. ASSUME NEW s \in Upto(k), s # {}
          PROVE  /\ s \ {pick[s]} \in Upto(k - 1)
                 /\ s \ {pick[s]} \in Upto(k)
      BY <1>1, <1>3, <2>3, <3>3
    <3>4. Upto(k - 1) \subseteq Upto(k)
      BY <1>1, <2>3
    <3>5. ASSUME NEW s \in Upto(k - 1) PROVE g[s] = h[s]
      <4>1. h[s] = Next(h, s)
        <5> HIDE DEF Next, Upto
        <5> QED BY <3>2
      <4> HIDE DEF Next, Upto
      <4> QED BY <3>4, <4>1
    <3>6. ASSUME NEW s \in Upto(k) PROVE g[s] \in V /\ g[s] = Next(g, s)
      <4>1. CASE s = {}
        <5> HIDE DEF Upto
        <5> QED BY <4>1
      <4>2. CASE s # {}
        <5>1. /\ pick[s] \in S
              /\ h[s \ {pick[s]}] \in V
              /\ g[s \ {pick[s]}] = h[s \ {pick[s]}]
          <6>1. s \ {pick[s]} \in Upto(k - 1) /\ pick[s] \in S
            BY <1>3, <3>3, <4>2
          <6>2. g[s \ {pick[s]}] = h[s \ {pick[s]}]
            <7> HIDE DEF g, Upto
            <7> QED BY <3>5, <6>1
          <6>3. h \in [Upto(k - 1) -> V]
            BY <3>2
          <6> HIDE DEF g, Upto
          <6> QED BY <6>1, <6>2, <6>3
        <5>2. g[s] = op[<<pick[s], h[s \ {pick[s]}]>>]
          <6> HIDE DEF Upto
          <6> QED BY <4>2
        <5>3. Next(g, s) = op[<<pick[s], g[s \ {pick[s]}]>>]
          <6> HIDE DEF g
          <6> QED BY <4>2
        <5> HIDE DEF g, Next
        <5> QED BY <5>1, <5>2, <5>3
      <4> QED BY <4>1, <4>2
    <3>7. g \in [Upto(k) -> V] /\ \A s \in Upto(k) : g[s] = Next(g, s)
      <4>1. g = [s \in Upto(k) |-> g[s]]
        <5> HIDE DEF Next, Upto
        <5> QED OBVIOUS
      <4> HIDE DEF g, Next, Upto
      <4> QED BY <3>6, <4>1
    <3> QED BY <2>3, <3>7
  <2> QED BY <2>4, <2>5
<1>5. Upto(Cardinality(S)) = SUBSET S
  BY <1>1
<1>6. PICK g : Fold(g, Cardinality(S))
  <2>1. Cardinality(S) \in Nat
    BY FS_CardinalityType
  <2> HIDE DEF Fold
  <2> QED BY <1>4, <2>1
<1>7. g = [s \in SUBSET S |-> Next(g, s)]
  <2>1. g \in [SUBSET S -> V] /\ \A s \in SUBSET S : g[s] = Next(g, s)
    <3> HIDE DEF Next, Upto
    <3> QED BY <1>5, <1>6
  <2> HIDE DEF Next, Upto
  <2> QED BY <2>1
<1> QED BY <1>7 DEF Folds

\* g adds the numbers f has on a part of S, one after the other.
Adds(g, f, S) ==
  /\ g[{}] = 0
  /\ \A s \in SUBSET S : s # {} => \E x \in s : g[s] = f[x] + g[s \ {x}]

\* So does a sum over a finite set.
LEMMA SumUnfolds ==
  ASSUME NEW S, IsFiniteSet(S), NEW f, \A x \in S : f[x] \in Int
  PROVE  \E g : SumFunctionOnSet(f, S) = g[S] /\ Adds(g, f, S)
<1> DEFINE Pick(s) == CHOOSE x \in s : TRUE
           Sums(g) == g = [s \in SUBSET S |-> IF s = {} THEN 0 ELSE f[Pick(s)] + g[s \ {Pick(s)}]]
           pick == [s \in SUBSET S |-> Pick(s)]
           op == [z \in S \X Int |-> f[z[1]] + z[2]]
<1>1. \A s \in SUBSET S : s # {} => Pick(s) \in s
  OBVIOUS
<1>2. \E g : Sums(g)
  <2>1. \A s \in SUBSET S : s # {} => pick[s] \in s
    BY <1>1
  <2>2. op \in [S \X Int -> Int]
    OBVIOUS
  <2>3. 0 \in Int
    OBVIOUS
  <2>4. PICK g : Folds(g, S, 0, op, pick)
    <3> HIDE DEF op, pick
    <3> QED BY <2>1, <2>2, <2>3, FoldExists
  <2> DEFINE Bad == {s \in SUBSET S : g[s] \notin Int}
  <2>5. ASSUME NEW s \in SUBSET S, s # {}
        PROVE  g[s] = op[<<Pick(s), g[s \ {Pick(s)}]>>]
    <3>1. g[s] = op[<<pick[s], g[s \ {pick[s]}]>>]
      <4> HIDE DEF op, pick, Pick
      <4> QED BY <2>4, <2>5 DEF Folds
    <3>2. pick[s] = Pick(s)
      <4> HIDE DEF Pick
      <4> QED OBVIOUS
    <3> HIDE DEF op, pick, Pick
    <3> QED BY <3>1, <3>2
  <2>6. Bad = {}
    <3>1. SUFFICES ASSUME Bad # {} PROVE FALSE
      OBVIOUS
    <3>2. Bad \subseteq SUBSET S
      OBVIOUS
    <3>3. PICK s \in Bad : \A u \in Bad : ~(u \subseteq s /\ u # s)
      <4> HIDE DEF Bad
      <4> QED BY <3>1, <3>2, LeastPart
    <3>4. s \in SUBSET S /\ g[s] \notin Int
      OBVIOUS
    <3>5. s # {}
      <4>1. {} \in SUBSET S /\ g[{}] = 0
        <5> HIDE DEF op, pick
        <5> QED BY <2>4 DEF Folds
      <4> QED BY <3>4, <4>1
    <3>6. s \ {Pick(s)} \notin Bad /\ s \ {Pick(s)} \in SUBSET S /\ Pick(s) \in S
      <4> HIDE DEF Bad, Pick
      <4> QED BY <1>1, <3>3, <3>4, <3>5
    <3>7. g[s \ {Pick(s)}] \in Int
      BY <3>6
    <3>8. g[s] = f[Pick(s)] + g[s \ {Pick(s)}]
      <4>1. <<Pick(s), g[s \ {Pick(s)}]>> \in S \X Int
        <5> HIDE DEF Pick
        <5> QED BY <3>6, <3>7
      <4> HIDE DEF Pick, Bad
      <4> QED BY <2>5, <3>4, <3>5, <4>1
    <3> HIDE DEF Pick, Bad
    <3> QED BY <3>4, <3>6, <3>7, <3>8
  <2>7. ASSUME NEW s \in SUBSET S, s # {}
        PROVE  g[s] = f[Pick(s)] + g[s \ {Pick(s)}]
    <3>1. s \ {Pick(s)} \in SUBSET S /\ Pick(s) \in S
      <4> HIDE DEF Pick
      <4> QED BY <1>1, <2>7
    <3>2. g[s \ {Pick(s)}] \in Int
      BY <2>6, <3>1
    <3>3. <<Pick(s), g[s \ {Pick(s)}]>> \in S \X Int
      <4> HIDE DEF Pick
      <4> QED BY <3>1, <3>2
    <3> HIDE DEF Pick, Bad
    <3> QED BY <2>5, <2>7, <3>3
  <2>8. g = [s \in SUBSET S |-> g[s]] /\ g[{}] = 0
    <3> HIDE DEF op, pick
    <3> QED BY <2>4 DEF Folds
  <2>9. Sums(g)
    <3> HIDE DEF Pick, op, pick, Bad
    <3> QED BY <2>7, <2>8
  <2> HIDE DEF Sums
  <2> QED BY <2>9
<1>3. SumFunctionOnSet(f, S) = (CHOOSE g : Sums(g))[S]
  BY Zenon DEF SumFunctionOnSet, FoldFunctionOnSet, MapThenFoldSet
<1>4. PICK g : g = (CHOOSE h : Sums(h))
  OBVIOUS
<1>5. Sums(g)
  <2> HIDE DEF Sums
  <2> QED BY <1>2, <1>4
<1>6. g[{}] = 0 /\ \A s \in SUBSET S : s # {} => Pick(s) \in s /\ g[s] = f[Pick(s)] + g[s \ {Pick(s)}]
  <2> HIDE DEF Pick
  <2> QED BY <1>1, <1>5
<1>7. SumFunctionOnSet(f, S) = g[S]
  <2> HIDE DEF Sums
  <2> QED BY <1>3, <1>4
<1>8. Adds(g, f, S)
  <2> HIDE DEF Sums, Pick
  <2> QED BY <1>6 DEF Adds
<1> QED BY <1>7, <1>8

\* A sum of integers is an integer, and of naturals a natural.
LEMMA SumIsInt ==
  ASSUME NEW S, IsFiniteSet(S), NEW f, \A x \in S : f[x] \in Int
  PROVE  SumFunctionOnSet(f, S) \in Int
<1>1. PICK g : SumFunctionOnSet(f, S) = g[S] /\ Adds(g, f, S)
  BY SumUnfolds
<1> DEFINE Bad == {s \in SUBSET S : g[s] \notin Int}
<1>2. Bad = {}
  <2>1. SUFFICES ASSUME Bad # {} PROVE FALSE
    OBVIOUS
  <2>2. Bad \subseteq SUBSET S
    OBVIOUS
  <2>3. PICK s \in Bad : \A u \in Bad : ~(u \subseteq s /\ u # s)
    <3> HIDE DEF Bad
    <3> QED BY <2>1, <2>2, LeastPart
  <2>4. s \in SUBSET S /\ g[s] \notin Int /\ s # {}
    <3>1. s \in SUBSET S /\ g[s] \notin Int
      OBVIOUS
    <3>2. g[{}] \in Int
      BY <1>1 DEF Adds
    <3> HIDE DEF Bad
    <3> QED BY <3>1, <3>2
  <2>5. PICK x \in s : g[s] = f[x] + g[s \ {x}]
    BY <1>1, <2>4 DEF Adds
  <2>6. s \ {x} \notin Bad /\ s \ {x} \in SUBSET S
    <3> HIDE DEF Bad
    <3> QED BY <2>3, <2>4
  <2> QED BY <2>4, <2>5, <2>6
<1> QED BY <1>1, <1>2

\* The sizes of disjoint finite sets add up to the size of their union.
LEMMA SumIsSize ==
  ASSUME NEW S, IsFiniteSet(S), NEW f, NEW B,
         \A x \in S : IsFiniteSet(B[x]) /\ Cardinality(B[x]) = f[x],
         \A x, y \in S : x # y => B[x] \cap B[y] = {}
  PROVE  /\ IsFiniteSet(UNION {B[x] : x \in S})
         /\ SumFunctionOnSet(f, S) = Cardinality(UNION {B[x] : x \in S})
<1>1. \A x \in S : f[x] \in Int
  BY FS_CardinalityType
<1>2. PICK g : SumFunctionOnSet(f, S) = g[S] /\ Adds(g, f, S)
  BY <1>1, SumUnfolds
<1> DEFINE All(s) == UNION {B[x] : x \in s}
           Good(s) == IsFiniteSet(All(s)) /\ g[s] = Cardinality(All(s))
           Bad == {s \in SUBSET S : ~Good(s)}
<1>3. Bad = {}
  <2>1. SUFFICES ASSUME Bad # {} PROVE FALSE
    OBVIOUS
  <2>2. Bad \subseteq SUBSET S
    OBVIOUS
  <2>3. PICK s \in Bad : \A u \in Bad : ~(u \subseteq s /\ u # s)
    <3> HIDE DEF Bad
    <3> QED BY <2>1, <2>2, LeastPart
  <2>4. s \in SUBSET S /\ ~Good(s)
    <3> HIDE DEF Good
    <3> QED OBVIOUS
  <2>5. s # {}
    <3>1. All({}) = {}
      OBVIOUS
    <3>2. Good({})
      <4> HIDE DEF All
      <4> QED BY <1>2, <3>1, FS_EmptySet DEF Adds
    <3> HIDE DEF Good
    <3> QED BY <2>4, <3>2
  <2>6. PICK x \in s : g[s] = f[x] + g[s \ {x}]
    BY <1>2, <2>4, <2>5 DEF Adds
  <2>7. Good(s \ {x})
    <3>1. s \ {x} \notin Bad /\ s \ {x} \in SUBSET S
      <4> HIDE DEF Bad
      <4> QED BY <2>3, <2>4
    <3> HIDE DEF Good
    <3> QED BY <3>1
  <2>8. All(s) = All(s \ {x}) \cup B[x] /\ All(s \ {x}) \cap B[x] = {}
    <3>1. \A y \in s \ {x} : B[y] \cap B[x] = {}
      BY <2>4
    <3> QED BY <3>1
  <2>9. x \in S /\ IsFiniteSet(B[x]) /\ Cardinality(B[x]) = f[x] /\ f[x] \in Int
    BY <1>1, <2>4
  <2>10. Good(s)
    <3> HIDE DEF All
    <3>1. /\ IsFiniteSet(All(s \ {x}))
          /\ g[s \ {x}] = Cardinality(All(s \ {x}))
      BY <2>7
    <3>2. /\ Cardinality(All(s \ {x})) \in Nat
          /\ Cardinality(All(s \ {x}) \cap B[x]) = 0
      BY <2>8, <3>1, FS_CardinalityType, FS_EmptySet
    <3>3. /\ IsFiniteSet(All(s))
          /\ Cardinality(All(s)) = Cardinality(All(s \ {x})) + f[x]
      <4>1. PICK U : U = All(s \ {x}) /\ All(s) = U \cup B[x]
        BY <2>8
      <4>2. /\ IsFiniteSet(U \cup B[x])
            /\ Cardinality(U \cup B[x]) = Cardinality(U) + Cardinality(B[x]) - Cardinality(U \cap B[x])
        BY <2>9, <3>1, <4>1, FS_Union
      <4> QED BY <2>9, <3>2, <4>1, <4>2
    <3> QED BY <2>6, <2>9, <3>1, <3>2, <3>3
  <2> HIDE DEF Good
  <2> QED BY <2>4, <2>10
<1>4. Good(S)
  <2> HIDE DEF Good
  <2> QED BY <1>3
<1> QED BY <1>2, <1>4
=============================================================================
