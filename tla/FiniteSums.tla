----------------------------- MODULE FiniteSums -----------------------------
(***************************************************************************)
(* Sums over finite sets, for the counting invariants of the components.   *)
(* SumFunctionOnSet of the community modules is a fold with an arbitrary   *)
(* order of the elements; the lemmas show that it exists for any finite    *)
(* set, does not depend on the order, and how it changes with one summand. *)
(* Induction is by least counterexample.                                   *)
(***************************************************************************)
EXTENDS Integers, FiniteSets, Functions, FiniteSetTheorems, WellFoundedInduction, TLAPS

-----------------------------------------------------------------------------
(* Least counterexamples                                                   *)

LessThan == {ss \in Nat \X Nat : ss[1] < ss[2]}

LEMMA LessThanWellFounded == IsWellFoundedOn(LessThan, Nat)
BY NatLessThanWellFounded DEF LessThan, OpToRel

\* A nonempty set of natural numbers has a least element.
LEMMA LeastNatural ==
    ASSUME NEW T \in SUBSET Nat, T # {}
    PROVE  \E x \in T : \A y \in T : x <= y
<1>1. PICK x \in T : \A y \in T : ~ (<<y, x>> \in LessThan)
  <2>1. \E x \in T : \A y \in T : ~ (<<y, x>> \in LessThan)
    BY LessThanWellFounded, WFMin
  <2> QED BY <2>1
<1>2. \A z, y \in Nat : y < z => <<y, z>> \in LessThan
  BY DEF LessThan
<1>3. ASSUME NEW y \in T PROVE x <= y
  <2> SUFFICES ASSUME ~ (x <= y) PROVE FALSE
    OBVIOUS
  <2>1. x \in Nat /\ y \in Nat /\ y < x
    OBVIOUS
  <2>2. <<y, x>> \in LessThan
    BY <2>1, <1>2
  <2> QED BY <2>2, <1>1
<1> QED BY <1>3

\* A set of natural numbers that has 0 and the successor of each of its members
\* has them all.
LEMMA Induction ==
    ASSUME NEW P \in SUBSET Nat, 0 \in P, \A n \in P : n + 1 \in P
    PROVE  P = Nat
<1> SUFFICES ASSUME P # Nat PROVE FALSE
  OBVIOUS
<1> DEFINE T == Nat \ P
<1>1. T \in SUBSET Nat /\ T # {}
  OBVIOUS
<1>2. PICK x \in T : \A y \in T : x <= y
  <2> HIDE DEF T
  <2> QED BY <1>1, LeastNatural
<1>3. x \in Nat /\ x \notin P /\ x # 0
  OBVIOUS
<1>4. x - 1 \in Nat /\ x - 1 + 1 = x /\ ~ (x <= x - 1)
  BY <1>3
<1>5. x - 1 \in P
  BY <1>2, <1>4
<1> QED BY <1>3, <1>4, <1>5

-----------------------------------------------------------------------------
(* The fold                                                                *)

Some(T) == CHOOSE x \in T : TRUE

\* The equation of the fold, on a family D of sets.
Adds(f, D, g) ==
    g = [T \in D |-> IF T = {} THEN 0 ELSE f[Some(T)] + g[T \ {Some(T)}]]

Fold(f, S) == CHOOSE g : Adds(f, SUBSET S, g)

LEMMA SumIsFold ==
    ASSUME NEW f, NEW S
    PROVE  SumFunctionOnSet(f, S) = Fold(f, S)[S]
BY DEF SumFunctionOnSet, FoldFunctionOnSet, MapThenFoldSet, Fold, Adds, Some

LEMMA SubsetCardinality ==
    ASSUME NEW S, IsFiniteSet(S), NEW T \in SUBSET S
    PROVE  /\ IsFiniteSet(T) /\ Cardinality(T) \in Nat
           /\ Cardinality(T) = 0 <=> T = {}
           /\ \A x \in T : IsFiniteSet(T \ {x}) /\ Cardinality(T \ {x}) = Cardinality(T) - 1
<1>1. IsFiniteSet(T)
  BY FS_Subset
<1>2. Cardinality(T) \in Nat
  BY <1>1, FS_CardinalityType
<1>3. Cardinality(T) = 0 <=> T = {}
  BY <1>1, FS_EmptySet
<1>4. \A x \in T : IsFiniteSet(T \ {x}) /\ Cardinality(T \ {x}) = Cardinality(T) - 1
  BY <1>1, FS_RemoveElement
<1> QED BY <1>1, <1>2, <1>3, <1>4

\* The elements of a nonempty set include the chosen one.
LEMMA SomeIn == ASSUME NEW T, T # {} PROVE Some(T) \in T
BY DEF Some

\* A function that satisfies the fold's equation exists: it is built one
\* cardinality at a time.
LEMMA FoldExists ==
    ASSUME NEW f, NEW S, IsFiniteSet(S)
    PROVE  \E g : Adds(f, SUBSET S, g)
<1> DEFINE D(n) == {T \in SUBSET S : Cardinality(T) <= n}
           P == {n \in Nat : \E g : Adds(f, D(n), g)}
<1>1. 0 \in P
  <2> DEFINE g == [T \in D(0) |-> 0]
  <2>1. \A T \in D(0) : T = {}
    BY SubsetCardinality
  <2>2. g = [T \in D(0) |-> IF T = {} THEN 0 ELSE f[Some(T)] + g[T \ {Some(T)}]]
    BY <2>1
  <2> QED BY <2>2 DEF Adds
<1>2. ASSUME NEW n \in P PROVE n + 1 \in P
  <2>1. PICK g : Adds(f, D(n), g)
    OBVIOUS
  <2> DEFINE k == [T \in D(n + 1) |-> IF T = {} THEN 0 ELSE f[Some(T)] + g[T \ {Some(T)}]]
  <2>2. ASSUME NEW T \in D(n) PROVE T \in D(n + 1) /\ g[T] = k[T]
    <3>1. T \in D(n + 1)
      BY SubsetCardinality
    <3>2. g[T] = IF T = {} THEN 0 ELSE f[Some(T)] + g[T \ {Some(T)}]
      BY <2>1 DEF Adds
    <3> QED BY <3>1, <3>2
  <2>3. ASSUME NEW T \in D(n + 1), T # {} PROVE T \ {Some(T)} \in D(n)
    <3>1. Some(T) \in T
      BY <2>3, SomeIn
    <3>2. Cardinality(T \ {Some(T)}) = Cardinality(T) - 1 /\ Cardinality(T) \in Nat
      BY <3>1, SubsetCardinality
    <3> QED BY <3>1, <3>2
  <2>4. ASSUME NEW T \in D(n + 1)
        PROVE  k[T] = IF T = {} THEN 0 ELSE f[Some(T)] + k[T \ {Some(T)}]
    <3>1. CASE T = {}
      BY <3>1
    <3>2. CASE T # {}
      <4>1. g[T \ {Some(T)}] = k[T \ {Some(T)}]
        BY <3>2, <2>2, <2>3
      <4>2. k[T] = f[Some(T)] + g[T \ {Some(T)}]
        BY <3>2
      <4> QED BY <3>2, <4>1, <4>2
    <3> QED BY <3>1, <3>2
  <2>5. k = [T \in D(n + 1) |-> IF T = {} THEN 0 ELSE f[Some(T)] + k[T \ {Some(T)}]]
    <3>1. k = [T \in D(n + 1) |-> k[T]]
      OBVIOUS
    <3> HIDE DEF k
    <3> QED BY <3>1, <2>4
  <2>6. Adds(f, D(n + 1), k)
    BY <2>5 DEF Adds
  <2> HIDE DEF k
  <2> QED BY <2>6
<1>3. Cardinality(S) \in P
  <2> HIDE DEF P
  <2>1. P \in SUBSET Nat
    BY DEF P
  <2>2. P = Nat
    BY <1>1, <1>2, <2>1, Induction
  <2> QED BY <2>2, SubsetCardinality
<1>4. D(Cardinality(S)) = SUBSET S
  <2>1. ASSUME NEW T \in SUBSET S PROVE Cardinality(T) <= Cardinality(S)
    BY FS_Subset
  <2> QED BY <2>1
<1> QED BY <1>3, <1>4

LEMMA FoldAdds ==
    ASSUME NEW f, NEW S, IsFiniteSet(S)
    PROVE  \A T \in SUBSET S :
             Fold(f, S)[T] = IF T = {} THEN 0 ELSE f[Some(T)] + Fold(f, S)[T \ {Some(T)}]
<1> DEFINE g == Fold(f, S)
<1>1. Adds(f, SUBSET S, g)
  BY FoldExists DEF Fold
<1> HIDE DEF g
<1>2. g = [T \in SUBSET S |-> IF T = {} THEN 0 ELSE f[Some(T)] + g[T \ {Some(T)}]]
  BY <1>1 DEF Adds
<1>3. \A T \in SUBSET S : g[T] = IF T = {} THEN 0 ELSE f[Some(T)] + g[T \ {Some(T)}]
  BY <1>2
<1> QED BY <1>3 DEF g

LEMMA FoldsAgree ==
    ASSUME NEW f, NEW S, IsFiniteSet(S), NEW A \in SUBSET S
    PROVE  Fold(f, S)[A] = Fold(f, A)[A]
<1> DEFINE P == {n \in Nat : \A T \in SUBSET A : Cardinality(T) = n => Fold(f, S)[T] = Fold(f, A)[T]}
<1>0. IsFiniteSet(A) /\ SUBSET A \subseteq SUBSET S
  BY SubsetCardinality
<1>1. 0 \in P
  <2>1. ASSUME NEW T \in SUBSET A, Cardinality(T) = 0 PROVE Fold(f, S)[T] = Fold(f, A)[T]
    <3>1. T = {}
      BY <1>0, <2>1, SubsetCardinality
    <3>2. Fold(f, S)[T] = 0
      BY <3>1, FoldAdds
    <3>3. Fold(f, A)[T] = 0
      BY <3>1, <1>0, FoldAdds
    <3> QED BY <3>2, <3>3
  <2> QED BY <2>1
<1>2. ASSUME NEW n \in P PROVE n + 1 \in P
  <2>1. ASSUME NEW T \in SUBSET A, Cardinality(T) = n + 1 PROVE Fold(f, S)[T] = Fold(f, A)[T]
    <3> DEFINE U == T \ {Some(T)}
    <3>1. T # {} /\ Some(T) \in T
      <4>1. T # {}
        BY <1>0, <2>1, SubsetCardinality
      <4> QED BY <4>1, SomeIn
    <3>2. U \in SUBSET A /\ Cardinality(U) = n
      BY <1>0, <2>1, <3>1, SubsetCardinality
    <3>3. Fold(f, S)[U] = Fold(f, A)[U]
      BY <3>2
    <3>4. Fold(f, S)[T] = f[Some(T)] + Fold(f, S)[U]
      BY <1>0, <3>1, FoldAdds
    <3>5. Fold(f, A)[T] = f[Some(T)] + Fold(f, A)[U]
      BY <1>0, <3>1, FoldAdds
    <3> QED BY <3>3, <3>4, <3>5
  <2> QED BY <2>1
<1>3. Cardinality(A) \in P
  <2> HIDE DEF P
  <2>1. P \in SUBSET Nat
    BY DEF P
  <2>2. P = Nat
    BY <1>1, <1>2, <2>1, Induction
  <2> QED BY <2>2, SubsetCardinality
<1> QED BY <1>3

-----------------------------------------------------------------------------
(* The sum                                                                 *)

\* The sum over no elements.
LEMMA SumEmpty == \A f : SumFunctionOnSet(f, {}) = 0
BY SumIsFold, FoldAdds, FS_EmptySet

LEMMA SumSome ==
    ASSUME NEW f, NEW S, IsFiniteSet(S), S # {}
    PROVE  SumFunctionOnSet(f, S) = f[Some(S)] + SumFunctionOnSet(f, S \ {Some(S)})
<1>1. Fold(f, S)[S] = f[Some(S)] + Fold(f, S)[S \ {Some(S)}]
  BY FoldAdds
<1>2. Fold(f, S)[S \ {Some(S)}] = Fold(f, S \ {Some(S)})[S \ {Some(S)}]
  BY FoldsAgree
<1> QED BY <1>1, <1>2, SumIsFold

LEMMA SumInt ==
    ASSUME NEW f, NEW S, IsFiniteSet(S), \A x \in S : f[x] \in Int
    PROVE  \A T \in SUBSET S : SumFunctionOnSet(f, T) \in Int
<1> DEFINE P == {n \in Nat : \A T \in SUBSET S : Cardinality(T) = n => SumFunctionOnSet(f, T) \in Int}
<1>1. 0 \in P
  <2>1. ASSUME NEW T \in SUBSET S, Cardinality(T) = 0 PROVE SumFunctionOnSet(f, T) \in Int
    BY <2>1, SubsetCardinality, SumEmpty
  <2> QED BY <2>1
<1>2. ASSUME NEW n \in P PROVE n + 1 \in P
  <2>1. ASSUME NEW T \in SUBSET S, Cardinality(T) = n + 1 PROVE SumFunctionOnSet(f, T) \in Int
    <3>1. n \in Nat
      OBVIOUS
    <3>2. T # {} /\ IsFiniteSet(T)
      BY <2>1, <3>1, SubsetCardinality
    <3>3. Some(T) \in T
      BY <3>2, SomeIn
    <3>4. T \ {Some(T)} \in SUBSET S /\ Cardinality(T \ {Some(T)}) = n
      BY <2>1, <3>1, <3>3, SubsetCardinality
    <3>5. SumFunctionOnSet(f, T \ {Some(T)}) \in Int
      BY <3>4
    <3>6. SumFunctionOnSet(f, T) = f[Some(T)] + SumFunctionOnSet(f, T \ {Some(T)})
      BY <3>2, SumSome
    <3> QED BY <3>3, <3>5, <3>6
  <2> QED BY <2>1
<1>3. P = Nat
  <2> HIDE DEF P
  <2>1. P \in SUBSET Nat
    BY DEF P
  <2> QED BY <1>1, <1>2, <2>1, Induction
<1> QED BY <1>3, SubsetCardinality

\* Three summands in two orders.
LEMMA Reorder ==
    ASSUME NEW a \in Int, NEW b \in Int, NEW d \in Int, NEW u, NEW v, NEW w,
           u = a + v, v = b + d, w = a + d
    PROVE  u = b + w
OBVIOUS

\* Any element may be taken out first: the sum does not depend on the order
\* in which the fold meets the elements.
LEMMA SumRemove ==
    ASSUME NEW f, NEW S, IsFiniteSet(S), \A x \in S : f[x] \in Int
    PROVE  \A x \in S : SumFunctionOnSet(f, S) = f[x] + SumFunctionOnSet(f, S \ {x})
<1> DEFINE Sum(T) == SumFunctionOnSet(f, T)
           Good(T) == \A x \in T : Sum(T) = f[x] + Sum(T \ {x})
           P == {n \in Nat : \A T \in SUBSET S : Cardinality(T) = n => Good(T)}
<1>1. 0 \in P
  <2>1. ASSUME NEW T \in SUBSET S, Cardinality(T) = 0 PROVE Good(T)
    BY <2>1, SubsetCardinality
  <2> QED BY <2>1
<1>2. ASSUME NEW n \in P PROVE n + 1 \in P
  <2>1. ASSUME NEW T \in SUBSET S, Cardinality(T) = n + 1 PROVE Good(T)
    <3> DEFINE y == Some(T)
    <3>0. n \in Nat
      OBVIOUS
    <3>1. T # {} /\ IsFiniteSet(T)
      BY <2>1, <3>0, SubsetCardinality
    <3>2. y \in T
      BY <3>1, SomeIn
    <3>3. ASSUME NEW x \in T
          PROVE  T \ {x} \in SUBSET S /\ Cardinality(T \ {x}) = n
      BY <2>1, <3>0, SubsetCardinality
    <3>4. ASSUME NEW x \in T PROVE Good(T \ {x})
      BY <3>3
    <3>5. Sum(T) = f[y] + Sum(T \ {y})
      BY <3>1, SumSome
    <3> HIDE DEF y, P
    <3>7. ASSUME NEW x \in T, x # y PROVE Sum(T) = f[x] + Sum(T \ {x})
      <4>1. (T \ {y}) \ {x} = (T \ {x}) \ {y}
        OBVIOUS
      <4>2. Sum(T \ {y}) = f[x] + Sum((T \ {y}) \ {x})
        BY <3>2, <3>4, <3>7
      <4>3. Sum(T \ {x}) = f[y] + Sum((T \ {y}) \ {x})
        BY <3>2, <3>4, <3>7, <4>1
      <4>4. f[x] \in Int /\ f[y] \in Int
        BY <3>2
      <4>5. Sum((T \ {y}) \ {x}) \in Int
        <5>1. (T \ {y}) \ {x} \in SUBSET S
          OBVIOUS
        <5> QED BY <5>1, SumInt
      <4> HIDE DEF Sum
      <4> QED BY <3>5, <4>2, <4>3, <4>4, <4>5, Reorder
    <3> QED BY <3>5, <3>7
  <2> QED BY <2>1
<1>3. P = Nat
  <2> HIDE DEF P
  <2>1. P \in SUBSET Nat
    BY DEF P
  <2> QED BY <1>1, <1>2, <2>1, Induction
<1> QED BY <1>3, SubsetCardinality

\* The sum depends on the summands only.
LEMMA SumEqual ==
    ASSUME NEW f, NEW g, NEW S, IsFiniteSet(S), \A x \in S : f[x] = g[x]
    PROVE  SumFunctionOnSet(f, S) = SumFunctionOnSet(g, S)
<1> DEFINE P == {n \in Nat : \A T \in SUBSET S :
                   Cardinality(T) = n => SumFunctionOnSet(f, T) = SumFunctionOnSet(g, T)}
<1>1. 0 \in P
  <2>1. ASSUME NEW T \in SUBSET S, Cardinality(T) = 0
        PROVE  SumFunctionOnSet(f, T) = SumFunctionOnSet(g, T)
    BY <2>1, SubsetCardinality, SumEmpty
  <2> QED BY <2>1
<1>2. ASSUME NEW n \in P PROVE n + 1 \in P
  <2>1. ASSUME NEW T \in SUBSET S, Cardinality(T) = n + 1
        PROVE  SumFunctionOnSet(f, T) = SumFunctionOnSet(g, T)
    <3>1. n \in Nat
      OBVIOUS
    <3>2. T # {} /\ IsFiniteSet(T)
      BY <2>1, <3>1, SubsetCardinality
    <3>3. Some(T) \in T
      BY <3>2, SomeIn
    <3>4. T \ {Some(T)} \in SUBSET S /\ Cardinality(T \ {Some(T)}) = n
      BY <2>1, <3>1, <3>3, SubsetCardinality
    <3>5. SumFunctionOnSet(f, T \ {Some(T)}) = SumFunctionOnSet(g, T \ {Some(T)})
      BY <3>4
    <3>6. SumFunctionOnSet(f, T) = f[Some(T)] + SumFunctionOnSet(f, T \ {Some(T)})
      BY <3>2, SumSome
    <3>7. SumFunctionOnSet(g, T) = g[Some(T)] + SumFunctionOnSet(g, T \ {Some(T)})
      BY <3>2, SumSome
    <3> QED BY <3>3, <3>5, <3>6, <3>7
  <2> QED BY <2>1
<1>3. P = Nat
  <2> HIDE DEF P
  <2>1. P \in SUBSET Nat
    BY DEF P
  <2> QED BY <1>1, <1>2, <2>1, Induction
<1> QED BY <1>3, SubsetCardinality

\* A sum of natural numbers is one.
LEMMA SumNat ==
    ASSUME NEW f, NEW S, IsFiniteSet(S), \A x \in S : f[x] \in Nat
    PROVE  \A T \in SUBSET S : SumFunctionOnSet(f, T) \in Nat
<1> DEFINE P == {n \in Nat : \A T \in SUBSET S : Cardinality(T) = n => SumFunctionOnSet(f, T) \in Nat}
<1>1. 0 \in P
  <2>1. ASSUME NEW T \in SUBSET S, Cardinality(T) = 0 PROVE SumFunctionOnSet(f, T) \in Nat
    BY <2>1, SubsetCardinality, SumEmpty
  <2> QED BY <2>1
<1>2. ASSUME NEW n \in P PROVE n + 1 \in P
  <2>1. ASSUME NEW T \in SUBSET S, Cardinality(T) = n + 1 PROVE SumFunctionOnSet(f, T) \in Nat
    <3>1. n \in Nat
      OBVIOUS
    <3>2. T # {} /\ IsFiniteSet(T)
      BY <2>1, <3>1, SubsetCardinality
    <3>3. Some(T) \in T
      BY <3>2, SomeIn
    <3>4. T \ {Some(T)} \in SUBSET S /\ Cardinality(T \ {Some(T)}) = n
      BY <2>1, <3>1, <3>3, SubsetCardinality
    <3>5. SumFunctionOnSet(f, T \ {Some(T)}) \in Nat
      BY <3>4
    <3>6. SumFunctionOnSet(f, T) = f[Some(T)] + SumFunctionOnSet(f, T \ {Some(T)})
      BY <3>2, SumSome
    <3> QED BY <3>3, <3>5, <3>6
  <2> QED BY <2>1
<1>3. P = Nat
  <2> HIDE DEF P
  <2>1. P \in SUBSET Nat
    BY DEF P
  <2> QED BY <1>1, <1>2, <2>1, Induction
<1> QED BY <1>3, SubsetCardinality

\* What x contributes to the sum of f over A.
Part(f, A, x) == IF x \in A THEN f[x] ELSE 0

LEMMA SumSplit ==
    ASSUME NEW f, NEW A, IsFiniteSet(A), \A y \in A : f[y] \in Int, NEW x
    PROVE  /\ SumFunctionOnSet(f, A) = Part(f, A, x) + SumFunctionOnSet(f, A \ {x})
           /\ Part(f, A, x) \in Int
           /\ SumFunctionOnSet(f, A) \in Int
           /\ SumFunctionOnSet(f, A \ {x}) \in Int
<1>1. SumFunctionOnSet(f, A) \in Int /\ SumFunctionOnSet(f, A \ {x}) \in Int
  <2>1. A \in SUBSET A /\ A \ {x} \in SUBSET A
    OBVIOUS
  <2> QED BY <2>1, SumInt
<1>2. CASE x \in A
  <2>1. SumFunctionOnSet(f, A) = f[x] + SumFunctionOnSet(f, A \ {x})
    BY <1>2, SumRemove
  <2>2. Part(f, A, x) = f[x] /\ f[x] \in Int
    BY <1>2 DEF Part
  <2> QED BY <1>1, <2>1, <2>2, Zenon
<1>3. CASE x \notin A
  <2>1. SumFunctionOnSet(f, A \ {x}) = SumFunctionOnSet(f, A)
    <3>1. A \ {x} = A
      BY <1>3
    <3> QED BY <3>1, Zenon
  <2>2. Part(f, A, x) = 0
    BY <1>3 DEF Part
  <2>3. \A n \in Int : n = 0 + n
    OBVIOUS
  <2>4. SumFunctionOnSet(f, A) = 0 + SumFunctionOnSet(f, A \ {x})
    BY <1>1, <2>1, <2>3, Zenon
  <2>5. 0 \in Int
    OBVIOUS
  <2>6. SumFunctionOnSet(f, A) = Part(f, A, x) + SumFunctionOnSet(f, A \ {x})
    BY <2>2, <2>4
  <2>7. Part(f, A, x) \in Int
    BY <2>2, <2>5
  <2> QED BY <1>1, <2>6, <2>7, Zenon
<1> QED BY <1>2, <1>3, Zenon

\* Two sums that differ in what x contributes.
LEMMA SumChange ==
    ASSUME NEW f, NEW A, IsFiniteSet(A), \A y \in A : f[y] \in Int,
           NEW g, NEW B, IsFiniteSet(B), \A y \in B : g[y] \in Int,
           NEW x, A \ {x} = B \ {x}, \A y \in A \ {x} : f[y] = g[y]
    PROVE  SumFunctionOnSet(g, B) = SumFunctionOnSet(f, A) - Part(f, A, x) + Part(g, B, x)
<1>1. /\ SumFunctionOnSet(f, A) = Part(f, A, x) + SumFunctionOnSet(f, A \ {x})
      /\ Part(f, A, x) \in Int
      /\ SumFunctionOnSet(f, A) \in Int
      /\ SumFunctionOnSet(f, A \ {x}) \in Int
  <2>1. IsFiniteSet(A) /\ \A y \in A : f[y] \in Int
    OBVIOUS
  <2> QED BY ONLY <2>1, SumSplit
<1>2. /\ SumFunctionOnSet(g, B) = Part(g, B, x) + SumFunctionOnSet(g, B \ {x})
      /\ Part(g, B, x) \in Int
      /\ SumFunctionOnSet(g, B) \in Int
      /\ SumFunctionOnSet(g, B \ {x}) \in Int
  <2>1. IsFiniteSet(B) /\ \A y \in B : g[y] \in Int
    OBVIOUS
  <2> QED BY ONLY <2>1, SumSplit
<1>3. SumFunctionOnSet(f, A \ {x}) = SumFunctionOnSet(g, B \ {x})
  <2>1. IsFiniteSet(A \ {x})
    BY FS_Subset
  <2> QED BY <2>1, SumEqual
<1> QED BY <1>1, <1>2, <1>3

-----------------------------------------------------------------------------
(***************************************************************************)
(* Cardinalities.                                                          *)
(***************************************************************************)

\* Two sets that differ in one element at most.
LEMMA CardChange ==
    ASSUME NEW A, IsFiniteSet(A), NEW B, IsFiniteSet(B), NEW x, A \ {x} = B \ {x}
    PROVE  Cardinality(B) = Cardinality(A) - (IF x \in A THEN 1 ELSE 0) + (IF x \in B THEN 1 ELSE 0)
<1>1. Cardinality(A) \in Nat /\ Cardinality(B) \in Nat
  BY FS_CardinalityType
<1>2. Cardinality(A \ {x}) = IF x \in A THEN Cardinality(A) - 1 ELSE Cardinality(A)
  BY FS_RemoveElement
<1>3. Cardinality(B \ {x}) = IF x \in B THEN Cardinality(B) - 1 ELSE Cardinality(B)
  BY FS_RemoveElement
<1> QED BY <1>1, <1>2, <1>3

\* A set whose elements with key k number f[k] at most has at most as many
\* elements as the sum of f.
LEMMA FibresBound ==
    ASSUME NEW S, IsFiniteSet(S), NEW f, \A k \in S : f[k] \in Nat,
           NEW L, IsFiniteSet(L), NEW key, \A a \in L : key[a] \in S,
           \A k \in S : Cardinality({a \in L : key[a] = k}) <= f[k]
    PROVE  Cardinality(L) <= SumFunctionOnSet(f, S)
<1> DEFINE Sum(T) == SumFunctionOnSet(f, T)
           In(T) == {a \in L : key[a] \in T}
           P == {n \in Nat : \A T \in SUBSET S : Cardinality(T) = n => Cardinality(In(T)) <= Sum(T)}
<1>0. \A T : IsFiniteSet(In(T)) /\ Cardinality(In(T)) \in Nat
  BY FS_Subset, FS_CardinalityType
<1>1. 0 \in P
  <2>1. ASSUME NEW T \in SUBSET S, Cardinality(T) = 0 PROVE Cardinality(In(T)) <= Sum(T)
    <3>1. T = {}
      BY <2>1, SubsetCardinality
    <3>2. In(T) = {} /\ Sum(T) = 0
      BY <3>1, SumEmpty
    <3>3. Cardinality(In(T)) = 0
      BY <3>2, FS_EmptySet
    <3> QED BY <3>2, <3>3
  <2> QED BY <2>1
<1>2. ASSUME NEW n \in P PROVE n + 1 \in P
  <2>1. ASSUME NEW T \in SUBSET S, Cardinality(T) = n + 1 PROVE Cardinality(In(T)) <= Sum(T)
    <3>0. n \in Nat
      OBVIOUS
    <3>1. IsFiniteSet(T) /\ T # {}
      BY <2>1, <3>0, SubsetCardinality
    <3>2. PICK k \in T : TRUE
      BY <3>1
    <3> DEFINE R == T \ {k}
               F == {a \in L : key[a] = k}
    <3>3. Cardinality(R) = n /\ R \in SUBSET S
      BY <2>1, <3>0, SubsetCardinality
    <3>4. Cardinality(In(R)) <= Sum(R)
      BY <3>3
    <3>5. Sum(T) = f[k] + Sum(R)
      <4>1. \A y \in T : f[y] \in Int
        OBVIOUS
      <4> QED BY <3>1, <4>1, SumRemove
    <3>6. Sum(R) \in Nat
      BY <3>3, SumNat
    <3>7. Cardinality(F) <= f[k] /\ IsFiniteSet(F) /\ f[k] \in Nat
      BY FS_Subset
    <3>8. In(T) = In(R) \cup F /\ In(R) \cap F = {}
      OBVIOUS
    <3>9. Cardinality(In(R) \cup F) = Cardinality(In(R)) + Cardinality(F) - Cardinality(In(R) \cap F)
      BY <1>0, <3>7, FS_Union
    <3>10. Cardinality(In(R) \cap F) = 0
      BY <3>8, FS_EmptySet
    <3>11. Cardinality(F) \in Nat /\ Cardinality(In(R)) \in Nat
      BY <1>0, <3>7, FS_CardinalityType
    <3>12. Cardinality(In(T)) = Cardinality(In(R)) + Cardinality(F)
      BY <3>8, <3>9, <3>10, <3>11
    <3> HIDE DEF In, Sum, F, R
    <3> QED BY <3>4, <3>5, <3>6, <3>7, <3>11, <3>12
  <2> QED BY <2>1
<1>3. P = Nat
  <2> HIDE DEF P
  <2>1. P \in SUBSET Nat
    BY DEF P
  <2> QED BY <1>1, <1>2, <2>1, Induction
<1>4. Cardinality(S) \in Nat
  BY FS_CardinalityType
<1>5. Cardinality(In(S)) <= Sum(S)
  BY <1>3, <1>4
<1>6. In(S) = L
  OBVIOUS
<1> QED BY <1>5, <1>6

\* What the elements of a subset contribute is missing once they count zero.
LEMMA SumDrop ==
    ASSUME NEW f, NEW S, IsFiniteSet(S), \A x \in S : f[x] \in Int,
           NEW T \in SUBSET S, NEW g, \A x \in S : g[x] = IF x \in T THEN 0 ELSE f[x]
    PROVE  SumFunctionOnSet(g, S) = SumFunctionOnSet(f, S) - SumFunctionOnSet(f, T)
<1> DEFINE Sum(U) == SumFunctionOnSet(f, U)
           Z(U) == [x \in S |-> IF x \in U THEN 0 ELSE f[x]]
           Left(U) == SumFunctionOnSet(Z(U), S)
           P == {n \in Nat : \A U \in SUBSET S : Cardinality(U) = n => Left(U) = Sum(S) - Sum(U)}
<1>0. \A U \in SUBSET S : Sum(U) \in Int
  BY SumInt
<1>1. 0 \in P
  <2>1. ASSUME NEW U \in SUBSET S, Cardinality(U) = 0 PROVE Left(U) = Sum(S) - Sum(U)
    <3>1. U = {}
      BY <2>1, SubsetCardinality
    <3>2. \A x \in S : Z(U)[x] = f[x]
      BY <3>1
    <3>3. Left(U) = Sum(S)
      <4> DEFINE z == Z(U)
      <4> HIDE DEF z
      <4>1. \A x \in S : z[x] = f[x]
        BY <3>2 DEF z
      <4>2. SumFunctionOnSet(z, S) = SumFunctionOnSet(f, S)
        BY <4>1, SumEqual
      <4> QED BY <4>2 DEF z
    <3>4. Sum(U) = 0 /\ Sum(S) \in Int
      BY <1>0, <3>1, SumEmpty
    <3> QED BY <3>3, <3>4
  <2> QED BY <2>1
<1>2. ASSUME NEW n \in P PROVE n + 1 \in P
  <2>1. ASSUME NEW U \in SUBSET S, Cardinality(U) = n + 1 PROVE Left(U) = Sum(S) - Sum(U)
    <3>0. n \in Nat /\ n + 1 # 0
      OBVIOUS
    <3>1. PICK x \in U : TRUE
      BY <2>1, <3>0, SubsetCardinality
    <3> DEFINE V == U \ {x}
               z == Z(V)
               y == Z(U)
    <3>2. V \in SUBSET S /\ Cardinality(V) = n
      BY <2>1, <3>0, SubsetCardinality
    <3>3. Left(V) = Sum(S) - Sum(V)
      BY <3>2
    <3>4. \A k \in S : z[k] \in Int /\ y[k] \in Int
      OBVIOUS
    <3>5. \A k \in S \ {x} : z[k] = y[k]
      OBVIOUS
    <3>6. z[x] = f[x] /\ y[x] = 0 /\ x \in S /\ f[x] \in Int
      OBVIOUS
    <3> HIDE DEF z, y
    <3>7. SumFunctionOnSet(y, S) = SumFunctionOnSet(z, S) - Part(z, S, x) + Part(y, S, x)
      BY <3>4, <3>5, SumChange
    <3>8. Part(z, S, x) = f[x] /\ Part(y, S, x) = 0
      BY <3>6 DEF Part
    <3>9. Left(V) = SumFunctionOnSet(z, S) /\ Left(U) = SumFunctionOnSet(y, S)
      BY DEF z, y
    <3>10. Sum(U) = f[x] + Sum(V)
      <4>1. IsFiniteSet(U) /\ \A k \in U : f[k] \in Int
        BY FS_Subset
      <4> QED BY <4>1, SumRemove
    <3>11. Sum(S) \in Int /\ Sum(V) \in Int
      BY <1>0, <3>2
    <3> HIDE DEF Sum, Left
    <3> QED BY <3>3, <3>6, <3>7, <3>8, <3>9, <3>10, <3>11
  <2> QED BY <2>1
<1>3. P = Nat
  <2> HIDE DEF P
  <2>1. P \in SUBSET Nat
    BY DEF P
  <2> QED BY <1>1, <1>2, <2>1, Induction
<1>4. Left(T) = Sum(S) - Sum(T)
  <2>1. Cardinality(T) \in Nat
    BY SubsetCardinality
  <2> QED BY <1>3, <2>1
<1>5. Left(T) = SumFunctionOnSet(g, S)
  <2> DEFINE z == Z(T)
  <2>1. \A x \in S : z[x] = g[x]
    OBVIOUS
  <2> HIDE DEF z
  <2>2. SumFunctionOnSet(z, S) = SumFunctionOnSet(g, S)
    BY <2>1, SumEqual
  <2> QED BY <2>2 DEF z
<1> QED BY <1>4, <1>5
=============================================================================
