--------------------------------- MODULE Sums ---------------------------------
(***************************************************************************)
(* Facts about induction and about sums, for the proofs about prices.      *)
(* Induction is stated over sets, with no predicate as a parameter, so     *)
(* that first-order provers can use it.                                    *)
(***************************************************************************)
EXTENDS Integers, Sequences, FiniteSets, Functions, FiniteSetTheorems, WellFoundedInduction, TLAPS

\* Every set of numbers has a least one.
LEMMA LeastNumber ==
    ASSUME NEW T \in SUBSET Nat, T # {}
    PROVE  \E x \in T : \A y \in T : x <= y
<1> DEFINE R == OpToRel(<, Nat)
<1>1. IsWellFoundedOn(R, Nat)
  BY NatLessThanWellFounded
<1>2. R = {pair \in Nat \X Nat : pair[1] < pair[2]}
  BY DEF OpToRel
<1> HIDE DEF R
<1>3. PICK x \in T : \A y \in T : <<y, x>> \notin R
  BY <1>1, WFMin
<1>4. ASSUME NEW y \in T PROVE x <= y
  <2>1. <<y, x>> \in Nat \X Nat /\ <<y, x>>[1] = y /\ <<y, x>>[2] = x
    OBVIOUS
  <2>2. ~(y < x)
    BY <1>2, <1>3, <2>1
  <2> QED
    BY <2>2
<1> QED
  BY <1>4

\* A set of subsets of S has S if it has each T of which it has all that T is
\* without one element.
LEMMA SubsetInduction ==
    ASSUME NEW S, IsFiniteSet(S), NEW G,
           \A T \in SUBSET S : (\A x \in T : T \ {x} \in G) => T \in G
    PROVE  S \in G
<1> DEFINE Sizes == {n \in Nat : \E T \in SUBSET S : T \notin G /\ Cardinality(T) = n}
<1>1. \A T \in SUBSET S : IsFiniteSet(T) /\ Cardinality(T) \in Nat
  BY FS_Subset, FS_CardinalityType
<1>2. CASE Sizes # {}
  <2>1. PICK n \in Sizes : \A m \in Sizes : n <= m
    BY <1>2, LeastNumber
  <2>2. PICK T \in SUBSET S : T \notin G /\ Cardinality(T) = n
    BY <2>1
  <2>3. PICK x \in T : T \ {x} \notin G
    BY <2>2
  <2>4. T \ {x} \in SUBSET S /\ Cardinality(T \ {x}) = n - 1 /\ n \in Nat
    BY <1>1, <2>2, <2>3, FS_RemoveElement
  <2>5. n - 1 \in Sizes
    BY <1>1, <2>3, <2>4
  <2> QED
    BY <2>1, <2>4, <2>5
<1>3. CASE Sizes = {}
  BY <1>1, <1>3
<1> QED
  BY <1>2, <1>3

(***************************************************************************)
(* The fold behind a sum                                                   *)
(***************************************************************************)
Some(s) == CHOOSE x \in s : TRUE

\* The function that the fold defines on the subsets of S.
Folds(it, f, S) ==
    it = [s \in SUBSET S |-> IF s = {} THEN 0 ELSE f[Some(s)] + it[s \ {Some(s)}]]

LEMMA SumIsFold ==
    ASSUME NEW f, NEW S
    PROVE  SumFunctionOnSet(f, S) = (CHOOSE it : Folds(it, f, S))[S]
BY DEF SumFunctionOnSet, FoldFunctionOnSet, MapThenFoldSet, Folds, Some

LEMMA SomeIsOne == ASSUME NEW s, s # {} PROVE Some(s) \in s
BY DEF Some

\* The equation of the fold has a solution: one for the subsets of at most n
\* elements extends to those of n + 1.
LEMMA FoldExists ==
    ASSUME NEW f, NEW S, IsFiniteSet(S)
    PROVE  \E it : Folds(it, f, S)
<1> DEFINE Small(n) == {s \in SUBSET S : Cardinality(s) <= n}
           Solves(it, n) == it = [s \in Small(n) |-> IF s = {} THEN 0 ELSE f[Some(s)] + it[s \ {Some(s)}]]
           Unsolved == {n \in Nat : ~\E it : Solves(it, n)}
<1>1. \A s \in SUBSET S : /\ IsFiniteSet(s) /\ Cardinality(s) \in Nat
                          /\ Cardinality(s) <= Cardinality(S)
                          /\ s # {} => /\ s \ {Some(s)} \in SUBSET S
                                       /\ Cardinality(s \ {Some(s)}) = Cardinality(s) - 1
  BY FS_Subset, FS_CardinalityType, FS_RemoveElement, SomeIsOne
<1>2. ASSUME Unsolved # {} PROVE FALSE
  <2>1. PICK n \in Unsolved : \A m \in Unsolved : n <= m
    BY <1>2, LeastNumber
  <2>2. CASE n = 0
    <3>1. ASSUME NEW s \in Small(0) PROVE s = {}
      <4>1. s \in SUBSET S /\ Cardinality(s) <= 0
        OBVIOUS
      <4>2. IsFiniteSet(s) /\ Cardinality(s) \in Nat
        BY <1>1, <4>1
      <4>3. Cardinality(s) = 0
        BY <4>1, <4>2
      <4> QED
        BY <4>2, <4>3, FS_EmptySet
    <3> DEFINE it == [s \in Small(0) |-> 0]
    <3>2. Solves(it, 0)
      BY <3>1
    <3> QED
      BY <2>1, <2>2, <3>2
  <2>3. CASE n # 0
    <3>1. n \in Nat /\ n - 1 \in Nat /\ n - 1 \notin Unsolved
      <4>1. n \in Nat
        BY <2>1
      <4> HIDE DEF Unsolved
      <4> QED
        BY <2>1, <2>3, <4>1
    <3>2. PICK old : Solves(old, n - 1)
      BY <3>1
    <3> DEFINE it == [s \in Small(n) |-> IF s \in Small(n - 1) THEN old[s]
                                         ELSE f[Some(s)] + old[s \ {Some(s)}]]
    <3>3. ASSUME NEW s \in Small(n), s # {}
          PROVE  s \ {Some(s)} \in Small(n - 1) /\ s \ {Some(s)} \in Small(n)
      <4>1. s \in SUBSET S /\ Cardinality(s) <= n
        OBVIOUS
      <4>2. s \ {Some(s)} \in SUBSET S /\ Cardinality(s \ {Some(s)}) = Cardinality(s) - 1
        BY <1>1, <3>3, <4>1
      <4>3. Cardinality(s) \in Nat
        BY <1>1, <4>1
      <4>4. Cardinality(s) - 1 <= n - 1 /\ Cardinality(s) - 1 <= n
        BY <3>1, <4>1, <4>3
      <4> QED
        BY <4>2, <4>4
    <3>4. {} \in Small(n - 1)
      BY <1>1, <3>1, FS_EmptySet
    <3>5. ASSUME NEW s \in Small(n)
          PROVE  it[s] = IF s = {} THEN 0 ELSE f[Some(s)] + it[s \ {Some(s)}]
      <4>1. CASE s = {}
        <5>1. it[s] = old[s]
          BY <3>4, <4>1
        <5> QED
          BY <3>2, <3>4, <4>1, <5>1
      <4>2. CASE s # {}
        <5>1. it[s \ {Some(s)}] = old[s \ {Some(s)}]
          BY <3>3, <4>2
        <5>2. s \in Small(n - 1) => old[s] = f[Some(s)] + old[s \ {Some(s)}]
          BY <3>2, <4>2
        <5> QED
          BY <4>2, <5>1, <5>2
      <4> QED
        BY <4>1, <4>2
    <3> HIDE DEF Small
    <3>6. Solves(it, n)
      BY <3>5
    <3> QED
      BY <2>1, <3>6
  <2> QED
    BY <2>2, <2>3
<1>3. Cardinality(S) \in Nat /\ Small(Cardinality(S)) = SUBSET S
  BY <1>1
<1>4. \E it : Solves(it, Cardinality(S))
  BY <1>2, <1>3
<1> HIDE DEF Small
<1> QED
  BY <1>3, <1>4 DEF Folds

\* Solutions agree on the sets they have in common.
LEMMA FoldsAgree ==
    ASSUME NEW f, NEW S, NEW T \in SUBSET S, IsFiniteSet(S),
           NEW g, Folds(g, f, S), NEW h, Folds(h, f, T)
    PROVE  g[T] = h[T]
<1> DEFINE Same == {s \in SUBSET T : g[s] = h[s]}
<1>1. ASSUME NEW s \in SUBSET T, \A x \in s : s \ {x} \in Same PROVE s \in Same
  <2>1. s \in SUBSET S
    OBVIOUS
  <2>2. /\ g[s] = IF s = {} THEN 0 ELSE f[Some(s)] + g[s \ {Some(s)}]
        /\ h[s] = IF s = {} THEN 0 ELSE f[Some(s)] + h[s \ {Some(s)}]
    BY <2>1 DEF Folds
  <2>3. s # {} => s \ {Some(s)} \in Same
    BY <1>1, SomeIsOne
  <2> QED
    BY <2>2, <2>3
<1>2. IsFiniteSet(T)
  BY FS_Subset
<1> HIDE DEF Same
<1>3. T \in Same
  BY <1>1, <1>2, SubsetInduction
<1> QED
  BY <1>3 DEF Same

(***************************************************************************)
(* Sums                                                                    *)
(***************************************************************************)
\* The equation of a sum: nothing, or some element and the rest.
LEMMA SumStep ==
    ASSUME NEW f, NEW S, IsFiniteSet(S)
    PROVE  SumFunctionOnSet(f, S) =
               IF S = {} THEN 0 ELSE f[Some(S)] + SumFunctionOnSet(f, S \ {Some(S)})
<1> DEFINE it == CHOOSE g : Folds(g, f, S)
           T == S \ {Some(S)}
           rest == CHOOSE g : Folds(g, f, T)
<1>1. T \in SUBSET S /\ IsFiniteSet(T)
  BY FS_Subset
<1>2. Folds(it, f, S) /\ Folds(rest, f, T)
  BY <1>1, FoldExists
<1>3. SumFunctionOnSet(f, S) = it[S] /\ SumFunctionOnSet(f, T) = rest[T]
  BY SumIsFold
<1>4. it[T] = rest[T]
  BY <1>1, <1>2, FoldsAgree
<1>5. it[S] = IF S = {} THEN 0 ELSE f[Some(S)] + it[T]
  BY <1>2 DEF Folds
<1> HIDE DEF it, rest
<1> QED
  BY <1>3, <1>4, <1>5

LEMMA SumEmpty == ASSUME NEW f PROVE SumFunctionOnSet(f, {}) = 0
BY SumStep, FS_EmptySet

\* Sums of numbers are numbers.
LEMMA SumType ==
    ASSUME NEW S, IsFiniteSet(S), NEW Num \in {Nat, Int}, NEW f, \A x \in S : f[x] \in Num
    PROVE  SumFunctionOnSet(f, S) \in Num
<1> DEFINE G == {T \in SUBSET S : SumFunctionOnSet(f, T) \in Num}
<1>1. ASSUME NEW T \in SUBSET S, \A x \in T : T \ {x} \in G PROVE T \in G
  <2>1. IsFiniteSet(T)
    BY FS_Subset
  <2>2. SumFunctionOnSet(f, T) = IF T = {} THEN 0 ELSE f[Some(T)] + SumFunctionOnSet(f, T \ {Some(T)})
    BY <2>1, SumStep
  <2>3. T # {} => f[Some(T)] \in Num /\ SumFunctionOnSet(f, T \ {Some(T)}) \in Num
    BY <1>1, SomeIsOne
  <2> QED
    BY <2>2, <2>3
<1> HIDE DEF G
<1>2. S \in G
  BY <1>1, SubsetInduction
<1> QED
  BY <1>2 DEF G

\* Any element can be taken out first.
LEMMA SumAny ==
    ASSUME NEW S, IsFiniteSet(S), NEW f, \A x \in S : f[x] \in Int, NEW x \in S
    PROVE  SumFunctionOnSet(f, S) = f[x] + SumFunctionOnSet(f, S \ {x})
<1> DEFINE Sum(T) == SumFunctionOnSet(f, T)
           G == {T \in SUBSET S : \A y \in T : Sum(T) = f[y] + Sum(T \ {y})}
<1>1. ASSUME NEW T \in SUBSET S, \A y \in T : T \ {y} \in G PROVE T \in G
  <2>1. IsFiniteSet(T)
    BY FS_Subset
  <2> SUFFICES ASSUME NEW y \in T PROVE Sum(T) = f[y] + Sum(T \ {y})
    OBVIOUS
  <2> DEFINE z == Some(T)
             U == (T \ {y}) \ {z}
  <2>2. z \in T /\ Sum(T) = f[z] + Sum(T \ {z})
    BY <2>1, SumStep, SomeIsOne
  <2>3. CASE y = z
    BY <2>2, <2>3
  <2>4. CASE y # z
    <3>1. U = (T \ {z}) \ {y} /\ y \in T \ {z} /\ z \in T \ {y}
      BY <2>2, <2>4
    <3> HIDE DEF Sum
    <3>2. Sum(T \ {z}) = f[y] + Sum(U) /\ Sum(T \ {y}) = f[z] + Sum(U)
      BY <1>1, <2>2, <3>1
    <3>3. IsFiniteSet(U) /\ U \in SUBSET S
      BY <2>1, FS_RemoveElement
    <3>4. Sum(U) \in Int /\ f[y] \in Int /\ f[z] \in Int
      BY <2>2, <3>3, SumType DEF Sum
    <3> HIDE DEF z, U
    <3> QED
      BY <2>2, <3>2, <3>4
  <2> QED
    BY <2>3, <2>4
<1> HIDE DEF G
<1>2. S \in G
  BY <1>1, SubsetInduction
<1> QED
  BY <1>2 DEF G

\* The sum of two functions, and of a multiple.
LEMMA SumPlus ==
    ASSUME NEW S, IsFiniteSet(S), NEW f, NEW g, NEW h,
           \A x \in S : f[x] \in Int /\ g[x] \in Int /\ h[x] = f[x] + g[x]
    PROVE  SumFunctionOnSet(h, S) = SumFunctionOnSet(f, S) + SumFunctionOnSet(g, S)
<1> DEFINE Sum(k, T) == SumFunctionOnSet(k, T)
           G == {T \in SUBSET S : Sum(h, T) = Sum(f, T) + Sum(g, T)}
<1>1. ASSUME NEW T \in SUBSET S, \A x \in T : T \ {x} \in G PROVE T \in G
  <2> DEFINE z == Some(T)
             U == T \ {z}
  <2>1. IsFiniteSet(T) /\ IsFiniteSet(U) /\ U \in SUBSET S
    BY FS_Subset
  <2>2. \A k : Sum(k, T) = IF T = {} THEN 0 ELSE k[z] + Sum(k, U)
    BY <2>1, SumStep
  <2>3. Sum(f, U) \in Int /\ Sum(g, U) \in Int
    BY <2>1, SumType
  <2>4. T # {} => /\ f[z] \in Int /\ g[z] \in Int /\ h[z] = f[z] + g[z]
                  /\ Sum(h, U) = Sum(f, U) + Sum(g, U)
    BY <1>1, SomeIsOne
  <2> HIDE DEF Sum, U, z
  <2>5. Sum(h, T) = Sum(f, T) + Sum(g, T)
    BY <2>2, <2>3, <2>4
  <2> QED
    BY <2>5
<1> HIDE DEF G
<1>2. S \in G
  BY <1>1, SubsetInduction
<1> QED
  BY <1>2 DEF G

LEMMA SumTimes ==
    ASSUME NEW S, IsFiniteSet(S), NEW f, NEW h, NEW m \in Int,
           \A x \in S : f[x] \in Int /\ h[x] = f[x] * m
    PROVE  SumFunctionOnSet(h, S) = SumFunctionOnSet(f, S) * m
<1> DEFINE Sum(k, T) == SumFunctionOnSet(k, T)
           G == {T \in SUBSET S : Sum(h, T) = Sum(f, T) * m}
<1>1. ASSUME NEW T \in SUBSET S, \A x \in T : T \ {x} \in G PROVE T \in G
  <2> DEFINE z == Some(T)
             U == T \ {z}
  <2>1. IsFiniteSet(T) /\ IsFiniteSet(U) /\ U \in SUBSET S
    BY FS_Subset
  <2>2. \A k : Sum(k, T) = IF T = {} THEN 0 ELSE k[z] + Sum(k, U)
    BY <2>1, SumStep
  <2>3. Sum(f, U) \in Int
    BY <2>1, SumType
  <2>4. T # {} => f[z] \in Int /\ h[z] = f[z] * m /\ Sum(h, U) = Sum(f, U) * m
    BY <1>1, SomeIsOne
  <2> HIDE DEF Sum, U, z
  <2>5. \A a, b \in Int : a * m + b * m = (a + b) * m
    OBVIOUS
  <2>6. Sum(h, T) = Sum(f, T) * m
    BY <2>2, <2>3, <2>4, <2>5
  <2> QED
    BY <2>6
<1> HIDE DEF G
<1>2. S \in G
  BY <1>1, SubsetInduction
<1> QED
  BY <1>2 DEF G

\* Functions that agree on a set have the same sum there.
LEMMA SumSame ==
    ASSUME NEW S, IsFiniteSet(S), NEW f, NEW h, \A x \in S : f[x] \in Int /\ h[x] = f[x]
    PROVE  SumFunctionOnSet(h, S) = SumFunctionOnSet(f, S)
<1>1. PICK m \in Int : m = 1
  OBVIOUS
<1>2. \A x \in S : f[x] \in Int /\ h[x] = f[x] * m
  BY <1>1
<1>3. SumFunctionOnSet(h, S) = SumFunctionOnSet(f, S) * m
  BY <1>2, SumTimes
<1>4. SumFunctionOnSet(f, S) \in Int
  BY SumType
<1> QED
  BY <1>1, <1>3, <1>4

\* Counting is summing ones.
LEMMA SumCounts ==
    ASSUME NEW S, IsFiniteSet(S), NEW A \in SUBSET S, NEW h,
           \A x \in S : h[x] = IF x \in A THEN 1 ELSE 0
    PROVE  SumFunctionOnSet(h, S) = Cardinality(A)
<1> DEFINE Sum(T) == SumFunctionOnSet(h, T)
           G == {T \in SUBSET S : Sum(T) = Cardinality(A \cap T)}
<1>1. ASSUME NEW T \in SUBSET S, \A x \in T : T \ {x} \in G PROVE T \in G
  <2> DEFINE z == Some(T)
             U == T \ {z}
  <2>1. IsFiniteSet(T) /\ IsFiniteSet(U) /\ U \in SUBSET S /\ IsFiniteSet(A \cap T)
    BY FS_Subset
  <2>2. Sum(T) = IF T = {} THEN 0 ELSE h[z] + Sum(U)
    BY <2>1, SumStep
  <2>3. T = {} => A \cap T = {} /\ Cardinality(A \cap T) = 0
    BY FS_EmptySet
  <2>4. ASSUME T # {} PROVE Cardinality(A \cap T) = h[z] + Cardinality(A \cap U)
    <3>1. z \in T /\ A \cap U = (A \cap T) \ {z}
      BY <2>4, SomeIsOne
    <3>2. Cardinality(A \cap T) \in Nat
      BY <2>1, FS_CardinalityType
    <3>3. Cardinality(A \cap U) = IF z \in A THEN Cardinality(A \cap T) - 1 ELSE Cardinality(A \cap T)
      <4>1. CASE z \in A
        <5>1. z \in A \cap T
          BY <3>1, <4>1
        <5> QED
          BY <2>1, <3>1, <4>1, <5>1, FS_RemoveElement
      <4>2. CASE z \notin A
        <5>1. A \cap U = A \cap T
          BY <3>1, <4>2
        <5> QED
          BY <4>2, <5>1
      <4> QED
        BY <4>1, <4>2
    <3>4. h[z] = IF z \in A THEN 1 ELSE 0
      BY <3>1
    <3> HIDE DEF z, U
    <3> QED
      BY <3>2, <3>3, <3>4
  <2>5. T # {} => Sum(U) = Cardinality(A \cap U)
    BY <1>1, SomeIsOne
  <2> HIDE DEF Sum, U, z
  <2>6. Sum(T) = Cardinality(A \cap T)
    BY <2>2, <2>3, <2>4, <2>5
  <2> QED
    BY <2>6
<1> HIDE DEF G
<1>2. S \in G
  BY <1>1, SubsetInduction
<1>3. A \cap S = A
  OBVIOUS
<1> QED
  BY <1>2, <1>3 DEF G
===============================================================================
