----------------------------- MODULE FoldLemmas -----------------------------
(***************************************************************************)
(* What the proofs need of sums, and of the induction under them.  The        *)
(* induction theorems of the library take a predicate as a parameter; here    *)
(* induction is over sets instead: what fails somewhere fails somewhere       *)
(* first, for a well-founded ordering has minimal elements.  A sum is the      *)
(* number of unit squares under its graph, which makes it a cardinality.      *)
(***************************************************************************)
EXTENDS Integers, Functions, FiniteSetsExt, FiniteSetTheorems, TLAPS

\* A set of natural numbers has a least element.
LEMMA LeastNatural ==
  ASSUME NEW T, T \subseteq Nat, T # {}
  PROVE  \E x \in T : \A y \in T : x <= y
<1> DEFINE R == OpToRel(<, Nat)
<1>1. IsWellFoundedOn(R, Nat)
  BY NatLessThanWellFounded
<1> HIDE DEF R
<1>2. PICK x \in T : \A y \in T : <<y, x>> \notin R
  BY <1>1, WFMin
<1>3. ASSUME NEW y \in T, y < x
      PROVE  FALSE
  <2>1. <<y, x>> \in R
    BY <1>3 DEF R, OpToRel
  <2> QED
    BY <2>1, <1>2
<1> QED
  BY <1>2, <1>3

\* What Max and Min pick.
LEMMA LargestIsMax ==
  ASSUME NEW T, T \subseteq Nat, NEW x \in T, \A y \in T : y <= x
  PROVE  Max(T) = x
<1> DEFINE m == Max(T)
<1>1. m \in T /\ \A y \in T : m >= y
  BY DEF Max
<1> HIDE DEF m
<1>2. m = x
  BY <1>1
<1> QED
  BY <1>2 DEF m

LEMMA SmallestIsMin ==
  ASSUME NEW T, T \subseteq Nat, NEW x \in T, \A y \in T : x <= y
  PROVE  Min(T) = x
<1> DEFINE m == Min(T)
<1>1. m \in T /\ \A y \in T : m <= y
  BY DEF Min
<1> HIDE DEF m
<1>2. m = x
  BY <1>1
<1> QED
  BY <1>2 DEF m

LEMMA MinOfNaturals ==
  ASSUME NEW T, T \subseteq Nat, T # {}
  PROVE  Min(T) \in T
<1>1. PICK x \in T : \A y \in T : x <= y
  BY LeastNatural
<1> QED
  BY <1>1, SmallestIsMin

LEMMA MaxOfBounded ==
  ASSUME NEW n \in Nat, NEW T, T \subseteq 0 .. n, T # {}
  PROVE  Max(T) \in T /\ \A y \in T : y <= Max(T)
<1> DEFINE U == {n - x : x \in T}
<1>0. \A x \in T : x \in Nat /\ x <= n
  OBVIOUS
<1>1. U \subseteq Nat /\ U # {}
  <2>1. \A x \in T : n - x \in Nat
    BY <1>0
  <2> QED
    BY <2>1
<1> HIDE DEF U
<1>2. PICK u \in U : \A v \in U : u <= v
  BY <1>1, LeastNatural
<1>3. PICK x \in T : u = n - x
  BY <1>2 DEF U
<1>4. ASSUME NEW y \in T
      PROVE  y <= x
  <2>1. n - y \in U
    BY DEF U
  <2>2. n - x <= n - y
    BY <1>2, <1>3, <2>1
  <2> QED
    BY <1>0, <2>2
<1>5. Max(T) = x
  <2>1. T \subseteq Nat
    BY <1>0
  <2> QED
    BY <1>4, <2>1, LargestIsMax
<1> QED
  BY <1>4, <1>5

\* A set of subsets of a finite set has an element that none of the others is part of.
LEMMA MinimalSubset ==
  ASSUME NEW S, IsFiniteSet(S), NEW T, T \subseteq SUBSET S, T # {}
  PROVE  \E s \in T : \A t \in T : t \subseteq s => t = s
<1> DEFINE R == StrictSubsetOrdering(S)
<1>1. IsWellFoundedOn(R, FiniteSubsetsOf(S))
  BY FS_StrictSubsetOrderingWellFounded
<1>2. FiniteSubsetsOf(S) = SUBSET S
  BY FS_FiniteSubsetsOfFinite
<1> HIDE DEF R
<1>3. PICK s \in T : \A t \in T : <<t, s>> \notin R
  BY <1>1, <1>2, WFMin
<1>4. ASSUME NEW t \in T, t \subseteq s, t # s
      PROVE  FALSE
  <2>1. <<t, s>> \in R
    BY <1>4 DEF R, StrictSubsetOrdering
  <2> QED
    BY <2>1, <1>3
<1> QED
  BY <1>4, <1>3

-----------------------------------------------------------------------------
(* Cardinalities *)

LEMMA IntervalSize ==
  ASSUME NEW k \in Nat
  PROVE  IsFiniteSet(1 .. k) /\ Cardinality(1 .. k) = k
<1>1. IsFiniteSet(1 .. k) /\ Cardinality(1 .. k) = IF 1 > k THEN 0 ELSE k - 1 + 1
  BY FS_Interval
<1> QED
  BY <1>1

LEMMA ColumnSize ==
  ASSUME NEW x, NEW k \in Nat
  PROVE  IsFiniteSet({x} \X (1 .. k)) /\ Cardinality({x} \X (1 .. k)) = k
<1>1. IsFiniteSet({x}) /\ Cardinality({x}) = 1
  BY FS_Singleton
<1>2. IsFiniteSet(1 .. k) /\ Cardinality(1 .. k) = k
  BY IntervalSize
<1>3. Cardinality({x} \X (1 .. k)) = Cardinality({x}) * Cardinality(1 .. k)
  BY <1>1, <1>2, FS_Product
<1> QED
  BY <1>1, <1>2, <1>3, FS_Product

LEMMA DisjointUnion ==
  ASSUME NEW A, NEW B, IsFiniteSet(A), IsFiniteSet(B), A \cap B = {}
  PROVE  /\ IsFiniteSet(A \cup B) /\ Cardinality(A) \in Nat /\ Cardinality(B) \in Nat
         /\ Cardinality(A \cup B) = Cardinality(A) + Cardinality(B)
<1>1. Cardinality(A \cup B) = Cardinality(A) + Cardinality(B) - Cardinality(A \cap B)
  BY FS_Union
<1>2. Cardinality(A) \in Nat /\ Cardinality(B) \in Nat /\ Cardinality(A \cap B) = 0
  BY FS_CardinalityType, FS_EmptySet
<1> QED
  BY <1>1, <1>2, FS_Union

-----------------------------------------------------------------------------
(* Sums *)

\* The unit squares under the graph of f, over s.
Area(f, s) == {p \in s \X Nat : p[2] \in 1 .. f[p[1]]}

LEMMA AreaColumn ==
  ASSUME NEW f, NEW s, NEW x \in s, f[x] \in Nat, IsFiniteSet(Area(f, s \ {x}))
  PROVE  /\ IsFiniteSet(Area(f, s))
         /\ Cardinality(Area(f, s)) = f[x] + Cardinality(Area(f, s \ {x}))
<1> DEFINE A == {x} \X (1 .. f[x])
           B == Area(f, s \ {x})
<1>1. IsFiniteSet(A) /\ Cardinality(A) = f[x]
  BY ColumnSize
<1>2. Area(f, s) = A \cup B
  BY DEF Area
<1>3. A \cap B = {}
  BY DEF Area
<1> HIDE DEF A, B
<1>4. IsFiniteSet(B)
  BY DEF B
<1>5. IsFiniteSet(A \cup B) /\ Cardinality(A \cup B) = Cardinality(A) + Cardinality(B)
  BY <1>1, <1>3, <1>4, DisjointUnion
<1> QED
  BY <1>1, <1>2, <1>5 DEF B

LEMMA AreaFinite ==
  ASSUME NEW S, IsFiniteSet(S), NEW f \in [S -> Nat], NEW r \in SUBSET S
  PROVE  IsFiniteSet(Area(f, r))
<1> DEFINE T == {s \in SUBSET S : ~IsFiniteSet(Area(f, s))}
<1> SUFFICES ASSUME T # {}
             PROVE  FALSE
  OBVIOUS
<1>0. T \subseteq SUBSET S
  OBVIOUS
<1> HIDE DEF T
<1>1. PICK s \in T : \A t \in T : t \subseteq s => t = s
  BY <1>0, MinimalSubset
<1>2. CASE s = {}
  <2>1. Area(f, s) = {}
    BY <1>2 DEF Area
  <2> QED
    BY <1>1, <2>1, FS_EmptySet DEF T
<1>3. ASSUME NEW x \in s
      PROVE  FALSE
  <2>1. s \ {x} \in SUBSET S /\ s \ {x} # s /\ f[x] \in Nat
    BY <1>0
  <2>2. IsFiniteSet(Area(f, s \ {x}))
    BY <1>1, <2>1 DEF T
  <2> QED
    BY <2>1, <2>2, AreaColumn DEF T
<1> QED
  BY <1>2, <1>3

\* SumFunction: the fold exists, since the areas satisfy its recursion, and it is
\* the areas, since nothing else does.
LEMMA SumIsArea ==
  ASSUME NEW S, IsFiniteSet(S), NEW f \in [S -> Nat]
  PROVE  SumFunction(f) = Cardinality(Area(f, S))
<1> DEFINE pick(s) == CHOOSE x \in s : TRUE
           Fold(h) == [s \in SUBSET S |-> IF s = {} THEN 0
                                          ELSE f[pick(s)] + h[s \ {pick(s)}]]
           iter == CHOOSE h : h = Fold(h)
           area == [s \in SUBSET S |-> Cardinality(Area(f, s))]
<1>1. \A s \in SUBSET S : s # {} => /\ pick(s) \in s /\ f[pick(s)] \in Nat
                                   /\ s \ {pick(s)} \in SUBSET S
  OBVIOUS
<1>2. SumFunction(f) = iter[S]
  <2>1. DOMAIN f = S
    OBVIOUS
  <2> QED
    BY <2>1 DEF SumFunction, SumFunctionOnSet, FoldFunctionOnSet, MapThenFoldSet
<1> HIDE DEF pick
<1>3. ASSUME NEW s \in SUBSET S
      PROVE  area[s] = IF s = {} THEN 0 ELSE f[pick(s)] + area[s \ {pick(s)}]
  <2>1. CASE s = {}
    <3>1. Area(f, s) = {}
      BY <2>1 DEF Area
    <3> QED
      BY <2>1, <3>1, FS_EmptySet
  <2>2. CASE s # {}
    <3>1. IsFiniteSet(Area(f, s \ {pick(s)}))
      BY <1>1, <2>2, AreaFinite
    <3>2. Cardinality(Area(f, s)) = f[pick(s)] + Cardinality(Area(f, s \ {pick(s)}))
      BY <2>2, <3>1, <1>1, AreaColumn
    <3> QED
      BY <2>2, <3>2, <1>1
  <2> QED
    BY <2>1, <2>2
<1> HIDE DEF area
<1>4. area = Fold(area)
  BY <1>3 DEF area
<1>5. iter = Fold(iter)
  <2>1. \E h : h = Fold(h)
    BY <1>4
  <2> QED
    BY <2>1 DEF iter
<1> HIDE DEF iter
<1>6. \A s \in SUBSET S : iter[s] = IF s = {} THEN 0 ELSE f[pick(s)] + iter[s \ {pick(s)}]
  BY <1>5
<1>7. \A s \in SUBSET S : iter[s] = area[s]
  <2> DEFINE T == {s \in SUBSET S : iter[s] # area[s]}
  <2> SUFFICES ASSUME T # {}
               PROVE  FALSE
    OBVIOUS
  <2>1. T \subseteq SUBSET S
    OBVIOUS
  <2> HIDE DEF T
  <2>2. PICK s \in T : \A t \in T : t \subseteq s => t = s
    BY <2>1, MinimalSubset
  <2>3. CASE s = {}
    BY <2>3, <2>2, <1>3, <1>6 DEF T
  <2>4. CASE s # {}
    <3>1. /\ s \ {pick(s)} \in SUBSET S /\ s \ {pick(s)} # s
          /\ s \ {pick(s)} \subseteq s
      BY <1>1, <2>1, <2>4
    <3>2. iter[s \ {pick(s)}] = area[s \ {pick(s)}]
      BY <3>1, <2>2 DEF T
    <3> QED
      BY <2>2, <2>4, <3>2, <1>3, <1>6 DEF T
  <2> QED
    BY <2>3, <2>4
<1> QED
  BY <1>2, <1>7 DEF area

LEMMA SumType ==
  ASSUME NEW S, IsFiniteSet(S), NEW f \in [S -> Nat]
  PROVE  SumFunction(f) \in Nat
BY SumIsArea, AreaFinite, FS_CardinalityType

\* The sum of nothing, or of zeros.
LEMMA SumZero ==
  ASSUME NEW S, IsFiniteSet(S), NEW f \in [S -> Nat], \A x \in S : f[x] = 0
  PROVE  SumFunction(f) = 0
<1>1. Area(f, S) = {}
  BY DEF Area
<1> QED
  BY <1>1, SumIsArea, FS_EmptySet

\* One value changes.
LEMMA SumChange ==
  ASSUME NEW S, IsFiniteSet(S), NEW f \in [S -> Nat], NEW g \in [S -> Nat],
         NEW x \in S, \A y \in S : y # x => g[y] = f[y]
  PROVE  SumFunction(g) = SumFunction(f) - f[x] + g[x]
<1> DEFINE A == Area(f, S \ {x})
<1>1. IsFiniteSet(A) /\ A = Area(g, S \ {x})
  BY AreaFinite DEF Area
<1>2. Cardinality(A) \in Nat
  BY <1>1, FS_CardinalityType
<1>3. Cardinality(Area(f, S)) = f[x] + Cardinality(A)
  BY <1>1, AreaColumn
<1> HIDE DEF A
<1>4. Cardinality(Area(g, S)) = g[x] + Cardinality(A)
  BY <1>1, AreaColumn
<1>5. f[x] \in Nat /\ g[x] \in Nat
  OBVIOUS
<1> QED
  BY <1>2, <1>3, <1>4, <1>5, SumIsArea

\* The sum over two parts of the domain.
LEMMA SumSplit ==
  ASSUME NEW S, IsFiniteSet(S), NEW A \in SUBSET S,
         NEW f \in [S -> Nat], NEW g \in [A -> Nat], NEW h \in [S \ A -> Nat],
         \A x \in A : g[x] = f[x], \A x \in S \ A : h[x] = f[x]
  PROVE  SumFunction(f) = SumFunction(g) + SumFunction(h)
<1> DEFINE B == S \ A
<1>1. IsFiniteSet(A) /\ IsFiniteSet(B)
  BY FS_Subset
<1>2. Area(f, S) = Area(g, A) \cup Area(h, B) /\ Area(g, A) \cap Area(h, B) = {}
  BY DEF Area
<1> HIDE DEF B
<1>3. IsFiniteSet(Area(g, A)) /\ IsFiniteSet(Area(h, B))
  BY <1>1, AreaFinite DEF B
<1>4. Cardinality(Area(f, S)) = Cardinality(Area(g, A)) + Cardinality(Area(h, B))
  BY <1>2, <1>3, DisjointUnion
<1> QED
  BY <1>1, <1>4, SumIsArea DEF B

\* One more value.
LEMMA SumAppend ==
  ASSUME NEW n \in Nat, NEW f \in [1 .. n -> Nat], NEW g \in [1 .. n + 1 -> Nat],
         \A i \in 1 .. n : g[i] = f[i]
  PROVE  SumFunction(g) = SumFunction(f) + g[n + 1]
<1> DEFINE S == 1 .. n + 1
           A == Area(f, 1 .. n)
<1>1. IsFiniteSet(1 .. n) /\ IsFiniteSet(S)
  BY IntervalSize
<1>2. n + 1 \in S /\ S \ {n + 1} = 1 .. n
  OBVIOUS
<1>3. Area(g, S \ {n + 1}) = A
  BY <1>2 DEF Area
<1>4. IsFiniteSet(A) /\ Cardinality(A) \in Nat
  BY <1>1, AreaFinite, FS_CardinalityType
<1>5. SumFunction(f) = Cardinality(A)
  BY <1>1, SumIsArea
<1>6. g[n + 1] \in Nat
  BY <1>2
<1> HIDE DEF A
<1>7. Cardinality(Area(g, S)) = g[n + 1] + Cardinality(A)
  BY <1>2, <1>3, <1>4, <1>6, AreaColumn
<1>8. SumFunction(g) = Cardinality(Area(g, S))
  BY <1>1, SumIsArea
<1> QED
  BY <1>4, <1>5, <1>6, <1>7, <1>8
=============================================================================
