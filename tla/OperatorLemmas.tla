--------------------------- MODULE OperatorLemmas ---------------------------
(***************************************************************************)
(* What the proofs need to know of folds, intervals and sequences, whatever*)
(* they are about.                                                         *)
(***************************************************************************)
EXTENDS Integers, Sequences, FiniteSets, FiniteSetTheorems, WellFoundedInduction, TLAPS

-----------------------------------------------------------------------------
(* Numbers.                                                                *)

\* A set of numbers that is not empty has a least element.
LEMMA LeastNumber ==
  ASSUME NEW T \in SUBSET Nat, T # {}
  PROVE  \E m \in T : \A n \in T : m <= n
<1> DEFINE Less == {p \in Nat \X Nat : p[1] < p[2]}
<1>1. OpToRel(<, Nat) = Less
  BY DEF OpToRel
<1>2. IsWellFoundedOn(Less, Nat)
  BY <1>1, NatLessThanWellFounded
<1> HIDE DEF Less
<1>3. \E m \in T : \A n \in T : ~(<<n, m>> \in Less)
  BY <1>2, WFMin
<1>4. ASSUME NEW m \in Nat, NEW n \in Nat, ~(<<n, m>> \in Less) PROVE m <= n
  BY <1>4 DEF Less
<1> QED BY <1>3, <1>4

\* A finite set of integers that is not empty has a greatest element.
Greatest(s) == CHOOSE x \in s : \A y \in s : x >= y

LEMMA GreatestIsIn ==
  ASSUME NEW n \in Nat, NEW s \in SUBSET (1 .. n), s # {}
  PROVE  Greatest(s) \in s /\ \A y \in s : Greatest(s) >= y
<1> DEFINE T == {n - x : x \in s}
<1>1. T \in SUBSET Nat /\ T # {}
  <2>1. \A x \in s : n - x \in Nat
    OBVIOUS
  <2> QED BY <2>1
<1>2. PICK m \in T : \A k \in T : m <= k
  BY <1>1, LeastNumber
<1>3. PICK x \in s : m = n - x
  OBVIOUS
<1>4. \A y \in s : x >= y
  <2> SUFFICES ASSUME NEW y \in s PROVE x >= y
    OBVIOUS
  <2>1. n - y \in T /\ x \in Int /\ y \in Int
    OBVIOUS
  <2> QED BY <1>2, <1>3, <2>1
<1> QED BY <1>4 DEF Greatest

LEMMA GreatestOfInterval ==
  ASSUME NEW k \in Nat, k > 0
  PROVE  Greatest(1 .. k) = k /\ (1 .. k) \ {k} = 1 .. k - 1
<1>1. Greatest(1 .. k) \in 1 .. k /\ \A y \in 1 .. k : Greatest(1 .. k) >= y
  <2>1. 1 .. k \in SUBSET (1 .. k) /\ 1 .. k # {}
    OBVIOUS
  <2> QED BY <2>1, GreatestIsIn
<1> QED BY <1>1

\* What holds of m, and of each number up to n if it does of the one before, holds from m to n.
LEMMA IntervalInduction ==
  ASSUME NEW m \in Nat, NEW n \in Nat, NEW Q, m \in Q,
         \A k \in m + 1 .. n : k - 1 \in Q => k \in Q
  PROVE  \A k \in m .. n : k \in Q
<1> DEFINE Bad == {k \in m .. n : k \notin Q}
<1> SUFFICES ASSUME Bad # {} PROVE FALSE
  OBVIOUS
<1>1. Bad \in SUBSET Nat
  OBVIOUS
<1>2. PICK k \in Bad : \A j \in Bad : k <= j
  BY <1>1, LeastNumber
<1>3. k \in m + 1 .. n /\ k - 1 \in m .. n
  OBVIOUS
<1>4. k - 1 \notin Bad
  BY <1>2, <1>3
<1> QED BY <1>3, <1>4

-----------------------------------------------------------------------------
(* Prefixes of sequences.                                                  *)

LEMMA PrefixOfSeq ==
  ASSUME NEW T, NEW p \in Seq(T), NEW k \in 1 .. Len(p)
  PROVE  /\ SubSeq(p, 1, k) \in Seq(T)
         /\ Len(SubSeq(p, 1, k)) = k
         /\ SubSeq(p, 1, k)[1] = p[1]
         /\ \A i \in 1 .. k : SubSeq(p, 1, k)[i] = p[i]
OBVIOUS

LEMMA PrefixOfPrefix ==
  ASSUME NEW T, NEW p \in Seq(T), NEW k \in 1 .. Len(p), NEW j \in 1 .. k
  PROVE  SubSeq(SubSeq(p, 1, k), 1, j) = SubSeq(p, 1, j)
OBVIOUS

-----------------------------------------------------------------------------
(* Folds.  Induction over the subsets of a finite set is stated with a set *)
(* of subsets in the place of a predicate, which the provers can           *)
(* instantiate.                                                            *)

\* A set Q of subsets of S that has a set whenever it has it without any one of
\* its elements has S itself.
LEMMA SubsetInduction ==
  ASSUME NEW S, IsFiniteSet(S), NEW Q,
         \A A \in SUBSET S : (\A x \in A : A \ {x} \in Q) => A \in Q
  PROVE  S \in Q
<1> DEFINE Bad == (SUBSET S) \ Q
<1>1. CASE Bad = {}
  BY <1>1
<1>2. CASE Bad # {}
  <2>1. FiniteSubsetsOf(S) = SUBSET S
    BY FS_FiniteSubsetsOfFinite
  <2>2. IsWellFoundedOn(StrictSubsetOrdering(S), SUBSET S)
    BY <2>1, FS_StrictSubsetOrderingWellFounded
  <2>3. Bad \subseteq SUBSET S
    OBVIOUS
  <2> HIDE DEF Bad
  <2>4. PICK A \in Bad : \A U \in Bad : <<U, A>> \notin StrictSubsetOrdering(S)
    BY <1>2, <2>2, <2>3, WFMin
  <2>5. ASSUME NEW x \in A PROVE A \ {x} \in Q
    <3>1. A \ {x} \in SUBSET S /\ A \in SUBSET S
      BY <2>3
    <3>2. <<A \ {x}, A>> \in StrictSubsetOrdering(S)
      BY <3>1, <2>5 DEF StrictSubsetOrdering
    <3> QED BY <2>4, <3>1, <3>2 DEF Bad
  <2>6. A \in SUBSET S /\ A \notin Q
    BY <2>4 DEF Bad
  <2> QED BY <2>5, <2>6
<1> QED BY <1>1, <1>2

\* The equations of a fold of op over the subsets of S, which takes away the
\* element c[s] first.
Folds(g, S, base, op, c) ==
  \A s \in SUBSET S : g[s] = IF s = {} THEN base ELSE op[<<c[s], g[s \ {c[s]}]>>]

\* They have a solution: after n rounds it is right for the sets of n elements.
LEMMA FoldExists ==
  ASSUME NEW S, IsFiniteSet(S), NEW V, NEW base \in V, NEW op \in [S \X V -> V],
         NEW c, \A s \in SUBSET S : s # {} => c[s] \in s
  PROVE  \E g \in [SUBSET S -> V] : Folds(g, S, base, op, c)
<1> DEFINE Body(g, s) == IF s = {} THEN base ELSE op[<<c[s], g[s \ {c[s]}]>>]
           Good(g, A) == \A s \in SUBSET S :
                           Cardinality(s) <= Cardinality(A) => g[s] = Body(g, s)
           Q == {A \in SUBSET S : \E g \in [SUBSET S -> V] : Good(g, A)}
<1>0. \A s \in SUBSET S : IsFiniteSet(s) /\ Cardinality(s) \in Nat
  BY FS_Subset, FS_CardinalityType
<1>1. ASSUME NEW A \in SUBSET S, \A x \in A : A \ {x} \in Q
      PROVE  A \in Q
  <2>1. CASE A = {}
    <3>1. [s \in SUBSET S |-> base] \in [SUBSET S -> V]
      OBVIOUS
    <3>2. \A s \in SUBSET S : Cardinality(s) <= Cardinality(A) => s = {}
      BY <2>1, <1>0, FS_EmptySet
    <3>3. Good([s \in SUBSET S |-> base], A)
      BY <3>2
    <3> HIDE DEF Good
    <3> QED BY <3>1, <3>3
  <2>2. CASE A # {}
    <3>1. PICK x \in A : TRUE
      BY <2>2
    <3>2. Cardinality(A \ {x}) = Cardinality(A) - 1
      BY <1>0, <3>1, FS_RemoveElement
    <3>3. A \ {x} \in Q
      BY <1>1, <3>1
    <3>4. PICK g \in [SUBSET S -> V] : Good(g, A \ {x})
      BY <3>3
    <3>5. \A s \in SUBSET S : Cardinality(s) <= Cardinality(A) - 1 => g[s] = Body(g, s)
      BY <3>2, <3>4
    <3> DEFINE h == [s \in SUBSET S |-> Body(g, s)]
    <3>6. h \in [SUBSET S -> V]
      <4>1. ASSUME NEW s \in SUBSET S PROVE Body(g, s) \in V
        <5>1. CASE s = {}
          BY <5>1
        <5>2. CASE s # {}
          <6>1. c[s] \in S /\ g[s \ {c[s]}] \in V
            BY <5>2
          <6> QED BY <5>2, <6>1
        <5> QED BY <5>1, <5>2
      <4> QED BY <4>1
    <3>7. ASSUME NEW s \in SUBSET S, Cardinality(s) <= Cardinality(A)
          PROVE  h[s] = Body(h, s)
      <4>1. CASE s = {}
        BY <4>1
      <4>2. CASE s # {}
        <5>1. s \ {c[s]} \in SUBSET S /\ Cardinality(s \ {c[s]}) <= Cardinality(A) - 1
          <6>1. c[s] \in s /\ IsFiniteSet(s)
            BY <4>2, <1>0
          <6>2. Cardinality(s \ {c[s]}) = Cardinality(s) - 1
            BY <6>1, FS_RemoveElement
          <6> QED BY <6>2, <1>0, <3>7
        <5>2. h[s \ {c[s]}] = g[s \ {c[s]}]
          BY <5>1, <3>5
        <5> QED BY <4>2, <5>2
      <4> QED BY <4>1, <4>2
    <3>8. Good(h, A)
      BY <3>7
    <3> HIDE DEF h, Good
    <3> QED BY <3>6, <3>8
  <2> QED BY <2>1, <2>2
<1> HIDE DEF Q
<1>2. S \in Q
  BY <1>1, SubsetInduction
<1>3. PICK g \in [SUBSET S -> V] :
        \A s \in SUBSET S : Cardinality(s) <= Cardinality(S) => g[s] = Body(g, s)
  BY <1>2 DEF Q
<1>4. \A s \in SUBSET S : Cardinality(s) <= Cardinality(S)
  BY FS_Subset
<1> QED BY <1>3, <1>4 DEF Folds
=============================================================================
