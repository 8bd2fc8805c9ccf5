------------------------------ MODULE Counting ------------------------------
(***************************************************************************)
(* Lemmas about finite sets, numbers and the sums of the community modules, *)
(* for the proofs of the other modules.  Each is proved from the least      *)
(* counterexample it would have.                                            *)
(***************************************************************************)
EXTENDS Integers, FiniteSets, Functions, FiniteSetTheorems, TLAPS

\* A set of natural numbers has a least one.
LEMMA LeastExists ==
    ASSUME NEW T \in SUBSET Nat, T # {}
    PROVE  \E n \in T : \A m \in T : n <= m
<1> DEFINE Less == OpToRel(<, Nat)
<1>1. IsWellFoundedOn(Less, Nat)
  BY NatLessThanWellFounded
<1> HIDE DEF Less
<1>2. PICK n \in T : \A m \in T : ~(<<m, n>> \in Less)
  BY <1>1, WFMin
<1>3. ASSUME NEW m \in T, m < n PROVE FALSE
  <2>1. <<m, n>> \in Nat \X Nat /\ <<m, n>>[1] < <<m, n>>[2]
    BY <1>3
  <2>2. <<m, n>> \in Less
    BY <2>1 DEF Less, OpToRel
  <2> QED
    BY <1>2, <2>2
<1> QED
  BY <1>2, <1>3

\* Bounded numbers have a greatest one (the least of what is missing to the bound).
LEMMA GreatestExists ==
    ASSUME NEW S, S # {}, NEW n \in Nat, NEW f,
           \A s \in S : f[s] \in Nat /\ f[s] <= n
    PROVE  \E r \in S : \A s \in S : f[s] <= f[r]
<1> DEFINE T == {n - f[s] : s \in S}
<1>1. T \in SUBSET Nat /\ T # {}
  OBVIOUS
<1> HIDE DEF T
<1>2. PICK x \in T : \A y \in T : x <= y
  BY <1>1, LeastExists
<1> USE DEF T
<1>3. PICK r \in S : x = n - f[r]
  OBVIOUS
<1>4. ASSUME NEW s \in S PROVE f[s] <= f[r]
  <2>1. n - f[s] \in T
    OBVIOUS
  <2>2. n - f[r] <= n - f[s]
    BY <1>2, <1>3, <2>1
  <2> QED
    BY <2>2
<1> QED
  BY <1>4

----------------------------------------------------------------------------
(* SumFunctionOnSet is defined by a function on the subsets of its set, which takes one     *)
(* element away at a time.                                                                   *)

Pick(s) == CHOOSE x \in s : TRUE

SumsTo(sum, f, Sets) ==
    sum = [s \in Sets |-> IF s = {} THEN 0 ELSE f[Pick(s)] + sum[s \ {Pick(s)}]]

Small(S, n) == {s \in SUBSET S : Cardinality(s) <= n}

LEMMA PickOne ==
    ASSUME NEW s, s # {}, IsFiniteSet(s)
    PROVE  /\ Pick(s) \in s /\ IsFiniteSet(s \ {Pick(s)})
           /\ Cardinality(s) \in Nat \ {0}
           /\ Cardinality(s \ {Pick(s)}) = Cardinality(s) - 1
<1>1. Pick(s) \in s
  BY DEF Pick
<1>2. Cardinality(s) \in Nat /\ Cardinality(s) # 0
  BY FS_CardinalityType, FS_EmptySet
<1> QED
  BY <1>1, <1>2, FS_RemoveElement

\* There is such a function for the sets of at most n elements, whatever n.
LEMMA SmallSums ==
    ASSUME NEW f, NEW S, IsFiniteSet(S), NEW n \in Nat
    PROVE  \E sum : SumsTo(sum, f, Small(S, n))
<1> DEFINE Bad == {k \in Nat : ~ \E sum : SumsTo(sum, f, Small(S, k))}
<1> SUFFICES ASSUME Bad # {} PROVE FALSE
  OBVIOUS
<1>1. PICK k \in Bad : \A j \in Bad : k <= j
  BY LeastExists
<1>2. \A s \in SUBSET S : IsFiniteSet(s) /\ Cardinality(s) \in Nat
  BY FS_Subset, FS_CardinalityType
<1>3. CASE k = 0
  <2>1. \A s \in Small(S, 0) : s = {}
    BY <1>2, FS_EmptySet DEF Small
  <2>2. PICK sum : sum = [s \in Small(S, 0) |-> 0]
    OBVIOUS
  <2>3. SumsTo(sum, f, Small(S, 0))
    BY <2>1, <2>2 DEF SumsTo
  <2> QED
    BY <1>3, <2>3
<1>4. CASE k # 0
  <2>1. PICK j \in Nat : j = k - 1
    BY <1>4
  <2>2. PICK sum : SumsTo(sum, f, Small(S, j))
    BY <1>1, <2>1
  <2>3. PICK more : more = [s \in Small(S, k) |-> IF s = {} THEN 0 ELSE f[Pick(s)] + sum[s \ {Pick(s)}]]
    OBVIOUS
  <2>4. ASSUME NEW s \in Small(S, k), s # {}
        PROVE  s \ {Pick(s)} \in Small(S, j)
    BY <1>2, <2>1, <2>4, PickOne DEF Small
  <2>5. ASSUME NEW s \in Small(S, j)
        PROVE  more[s] = sum[s]
    <3>1. s \in Small(S, k)
      BY <1>2, <2>1 DEF Small
    <3>2. sum[s] = IF s = {} THEN 0 ELSE f[Pick(s)] + sum[s \ {Pick(s)}]
      BY <2>2 DEF SumsTo
    <3> QED
      BY <2>3, <3>1, <3>2
  <2>6. \A s \in Small(S, k) :
          more[s] = IF s = {} THEN 0 ELSE f[Pick(s)] + more[s \ {Pick(s)}]
    BY <2>3, <2>4, <2>5
  <2>7. SumsTo(more, f, Small(S, k))
    BY <2>3, <2>6 DEF SumsTo
  <2> QED
    BY <2>7
<1> QED
  BY <1>3, <1>4

LEMMA SumUnfolds ==
    ASSUME NEW f, NEW S, IsFiniteSet(S)
    PROVE  \E sum : SumsTo(sum, f, SUBSET S) /\ SumFunctionOnSet(f, S) = sum[S]
<1>1. Small(S, Cardinality(S)) = SUBSET S
  BY FS_Subset DEF Small
<1>2. \E sum : SumsTo(sum, f, SUBSET S)
  <2>1. PICK n \in Nat : n = Cardinality(S)
    BY FS_CardinalityType
  <2>2. \E sum : SumsTo(sum, f, Small(S, n))
    BY <2>1, SmallSums
  <2> QED
    BY <1>1, <2>1, <2>2
<1> DEFINE sum == CHOOSE sum : SumsTo(sum, f, SUBSET S)
<1>3. SumsTo(sum, f, SUBSET S)
  BY <1>2, Zenon
<1>4. SumFunctionOnSet(f, S) = sum[S]
  BY Zenon DEF SumFunctionOnSet, FoldFunctionOnSet, MapThenFoldSet, SumsTo, Pick
<1> QED
  BY <1>3, <1>4

\* The finite sets D[x] have nothing in common, and All is their union.
IsPartition(D, S, All) ==
    /\ \A x \in S : IsFiniteSet(D[x])
    /\ \A x, y \in S : x # y => D[x] \cap D[y] = {}
    /\ \A v : v \in All <=> \E x \in S : v \in D[x]

HasSizes(f, D, S) == \A x \in S : f[x] = Cardinality(D[x])

\* The sum of the sizes of sets that have nothing in common is the size of their union.
LEMMA SumOfSizes ==
    ASSUME NEW S, IsFiniteSet(S), NEW f, NEW D, NEW All,
           IsPartition(D, S, All), HasSizes(f, D, S)
    PROVE  IsFiniteSet(All) /\ SumFunctionOnSet(f, S) = Cardinality(All)
<1> USE DEF IsPartition, HasSizes
<1>1. PICK sum : SumsTo(sum, f, SUBSET S) /\ SumFunctionOnSet(f, S) = sum[S]
  BY SumUnfolds
<1> DEFINE U(s) == UNION {D[x] : x \in s}
           Good(s) == IsFiniteSet(U(s)) /\ sum[s] = Cardinality(U(s))
           Bad == {k \in Nat : \E s \in SUBSET S : Cardinality(s) = k /\ ~Good(s)}
<1>2. \A s \in SUBSET S : IsFiniteSet(s) /\ Cardinality(s) \in Nat
  BY FS_Subset, FS_CardinalityType
<1> SUFFICES ASSUME Bad # {} PROVE FALSE
  <2>1. U(S) = All
    OBVIOUS
  <2>2. IsFiniteSet(U(S)) /\ sum[S] = Cardinality(U(S))
    BY <1>2
  <2> HIDE DEF U
  <2> QED
    BY <1>1, <2>1, <2>2
<1>3. PICK k \in Bad : \A j \in Bad : k <= j
  BY LeastExists
<1>4. PICK s \in SUBSET S : Cardinality(s) = k /\ ~Good(s)
  BY <1>3
<1>5. sum[s] = IF s = {} THEN 0 ELSE f[Pick(s)] + sum[s \ {Pick(s)}]
  BY <1>1 DEF SumsTo
<1>6. s # {}
  <2>1. U({}) = {}
    OBVIOUS
  <2> QED
    BY <1>4, <1>5, <2>1, FS_EmptySet
<1>7. PICK x, t : x = Pick(s) /\ t = s \ {x}
  OBVIOUS
<1>8. x \in s /\ t \in SUBSET S /\ x \in S /\ x \notin t /\ Cardinality(t) = k - 1 /\ k \in Nat \ {0}
  BY <1>2, <1>4, <1>6, <1>7, PickOne
<1>9. Good(t)
  <2>1. k - 1 \in Nat /\ k - 1 < k
    BY <1>8
  <2> HIDE DEF Bad
  <2>2. k - 1 \notin Bad
    BY <1>3, <1>8, <2>1
  <2> USE DEF Bad
  <2> HIDE DEF Good
  <2> QED
    BY <1>8, <2>1, <2>2
<1>10. U(s) = D[x] \cup U(t) /\ D[x] \cap U(t) = {}
  BY <1>7, <1>8
<1> HIDE DEF U
<1>11. /\ IsFiniteSet(U(s))
       /\ Cardinality(U(s)) = Cardinality(D[x]) + Cardinality(U(t)) - Cardinality({})
  BY <1>8, <1>9, <1>10, FS_Union
<1>12. Cardinality(D[x]) \in Nat /\ Cardinality(U(t)) \in Nat /\ Cardinality({}) = 0
  BY <1>8, <1>9, FS_CardinalityType, FS_EmptySet
<1> QED
  BY <1>4, <1>5, <1>6, <1>7, <1>8, <1>9, <1>11, <1>12

\* What counts one each sums up to how many there are.
LEMMA SumOfOnes ==
    ASSUME NEW S, IsFiniteSet(S), NEW f, \A x \in S : f[x] = 1
    PROVE  SumFunctionOnSet(f, S) = Cardinality(S)
<1> DEFINE D == [x \in S |-> {x}]
<1>1. IsPartition(D, S, S)
  BY FS_Singleton DEF IsPartition
<1>2. HasSizes(f, D, S)
  BY FS_Singleton DEF HasSizes
<1> HIDE DEF D
<1> QED
  BY <1>1, <1>2, SumOfSizes
=============================================================================
