------------------------- MODULE ExampleApps_proofs -------------------------
(***************************************************************************)
(* Safety of the games among the templates, for any table, any stakes and  *)
(* blinds, and any cards: where the chips are, what the players are shown, *)
(* and whose turn it is.                                                   *)
(*                                                                         *)
(* Chips add up by SumFunction, a fold over a set.  The first part shows   *)
(* what it does, by induction on finite sets: the sum over one element     *)
(* more or over a changed one.  Then come tic-tac-toe, poker and           *)
(* blackjack, each with the invariant that its steps keep.  An update of a *)
(* record within a record is restated with the record it results in.       *)
(***************************************************************************)
EXTENDS ExampleApps, OperatorLemmas, Functions, FiniteSetsExt, FiniteSetTheorems,
        SequenceTheorems, TLAPS

-----------------------------------------------------------------------------
(* Sums.                                                                   *)

\* The partial sums of f, over the subsets of its domain S.
SumEquations(g, f, S) ==
  \A s \in SUBSET S :
    g[s] = IF s = {} THEN 0
           ELSE f[CHOOSE x \in s : TRUE] + g[s \ {CHOOSE x \in s : TRUE}]

PartialSums(g, f, S) == g \in [SUBSET S -> Int] /\ SumEquations(g, f, S)

\* Their equations have one solution.
LEMMA PartialSumsUnique ==
  ASSUME NEW S, IsFiniteSet(S), NEW f, NEW h, PartialSums(h, f, S),
         NEW iter, SumEquations(iter, f, S)
  PROVE  iter[S] = h[S]
<1> DEFINE Q == {A \in SUBSET S : iter[A] = h[A]}
<1>1. ASSUME NEW A \in SUBSET S, \A x \in A : A \ {x} \in Q
      PROVE  A \in Q
  <2>1. CASE A = {}
    BY <2>1 DEF PartialSums, SumEquations
  <2>2. CASE A # {}
    <3>1. PICK x \in A : x = CHOOSE y \in A : TRUE
      BY <2>2
    <3>2. iter[A \ {x}] = h[A \ {x}]
      BY <1>1
    <3>3. iter[A] = f[x] + iter[A \ {x}]
      BY <2>2, <3>1 DEF SumEquations
    <3>4. h[A] = f[x] + h[A \ {x}]
      BY <2>2, <3>1 DEF PartialSums, SumEquations
    <3> QED BY <3>2, <3>3, <3>4
  <2> QED BY <2>1, <2>2
<1> HIDE DEF Q
<1>2. S \in Q
  BY <1>1, SubsetInduction
<1> QED BY <1>2 DEF Q

\* SumFunction, the sum the community modules define by a fold, adds one
\* element after another.
LEMMA SumIsPartialSum ==
  ASSUME NEW S, IsFiniteSet(S), NEW f \in [S -> Int]
  PROVE  \E g : PartialSums(g, f, S) /\ SumFunction(f) = g[S]
<1> DEFINE c == [s \in SUBSET S |-> CHOOSE x \in s : TRUE]
           op == [p \in S \X Int |-> f[p[1]] + p[2]]
<1>1. \A s \in SUBSET S : s # {} => c[s] \in s
  OBVIOUS
<1>2. op \in [S \X Int -> Int] /\ 0 \in Int
  OBVIOUS
<1>3. \A x \in S, n \in Int : op[<<x, n>>] = f[x] + n
  OBVIOUS
<1>4. \A s \in SUBSET S : c[s] = CHOOSE x \in s : TRUE
  OBVIOUS
<1> HIDE DEF c, op
<1>5. PICK h \in [SUBSET S -> Int] : Folds(h, S, 0, op, c)
  BY <1>1, <1>2, FoldExists
<1>6. ASSUME NEW s \in SUBSET S
      PROVE  h[s] = IF s = {} THEN 0
                    ELSE f[CHOOSE x \in s : TRUE] + h[s \ {CHOOSE x \in s : TRUE}]
  <2>1. CASE s = {}
    BY <2>1, <1>5 DEF Folds
  <2>2. CASE s # {}
    <3>1. c[s] \in S /\ h[s \ {c[s]}] \in Int
      BY <2>2, <1>1
    <3>2. h[s] = f[c[s]] + h[s \ {c[s]}]
      BY <2>2, <3>1, <1>3, <1>5 DEF Folds
    <3> QED BY <2>2, <3>2, <1>4
  <2> QED BY <2>1, <2>2
<1>7. PartialSums(h, f, S)
  BY <1>6 DEF PartialSums, SumEquations
<1>8. h = [s \in SUBSET S |-> IF s = {} THEN 0
             ELSE f[CHOOSE x \in s : TRUE] + h[s \ {CHOOSE x \in s : TRUE}]]
  BY <1>6
<1> DEFINE iter == CHOOSE g : g = [s \in SUBSET S |-> IF s = {} THEN 0
             ELSE f[CHOOSE x \in s : TRUE] + g[s \ {CHOOSE x \in s : TRUE}]]
<1>9. SumFunction(f) = iter[S]
  BY DEF SumFunction, SumFunctionOnSet, FoldFunctionOnSet, MapThenFoldSet
<1>10. iter = [s \in SUBSET S |-> IF s = {} THEN 0
             ELSE f[CHOOSE x \in s : TRUE] + iter[s \ {CHOOSE x \in s : TRUE}]]
  BY <1>8
<1> HIDE DEF iter
<1>11. SumEquations(iter, f, S)
  BY <1>10 DEF SumEquations
<1>12. iter[S] = h[S]
  BY <1>7, <1>11, PartialSumsUnique
<1> QED BY <1>7, <1>9, <1>12

\* In whatever order a sum takes its elements, one of them adds its value.
LEMMA PartialSumAdds ==
  ASSUME NEW S, IsFiniteSet(S), NEW f \in [S -> Int], NEW g, PartialSums(g, f, S),
         NEW A \in SUBSET S, NEW a \in A
  PROVE  g[A] = f[a] + g[A \ {a}]
<1> DEFINE Q == {U \in SUBSET S : \A b \in U : g[U] = f[b] + g[U \ {b}]}
<1>1. ASSUME NEW U \in SUBSET S, \A x \in U : U \ {x} \in Q
      PROVE  U \in Q
  <2> SUFFICES ASSUME NEW b \in U PROVE g[U] = f[b] + g[U \ {b}]
    OBVIOUS
  <2> DEFINE x == CHOOSE y \in U : TRUE
             W == (U \ {x}) \ {b}
  <2>1. x \in U /\ U # {}
    OBVIOUS
  <2>2. g[U] = f[x] + g[U \ {x}]
    BY <2>1 DEF PartialSums, SumEquations
  <2>3. CASE x = b
    BY <2>2, <2>3
  <2>4. CASE x # b
    <3>1. g[U \ {x}] = f[b] + g[W]
      BY <1>1, <2>1, <2>4
    <3>2. g[U \ {b}] = f[x] + g[W]
      <4>1. x \in U \ {b} /\ (U \ {b}) \ {x} = W
        BY <2>1, <2>4
      <4> QED BY <1>1, <4>1
    <3>3. f[x] \in Int /\ f[b] \in Int /\ g[W] \in Int
      BY <2>1 DEF PartialSums, SumEquations
    <3> QED BY <2>2, <3>1, <3>2, <3>3
  <2> QED BY <2>3, <2>4
<1>2. IsFiniteSet(A) /\ A \in SUBSET S
  BY FS_Subset
<1>3. \A U \in SUBSET A : (\A x \in U : U \ {x} \in Q) => U \in Q
  BY <1>1
<1> HIDE DEF Q
<1>4. A \in Q
  BY <1>2, <1>3, SubsetInduction
<1> QED BY <1>4 DEF Q

\* A sum is a number.
LEMMA SumType ==
  ASSUME NEW S, IsFiniteSet(S), NEW f \in [S -> Int]
  PROVE  SumFunction(f) \in Int
<1>1. PICK g : PartialSums(g, f, S) /\ SumFunction(f) = g[S]
  BY SumIsPartialSum
<1> QED BY <1>1 DEF PartialSums, SumEquations

\* Partial sums of functions that agree where they are taken.
LEMMA PartialSumsAgree ==
  ASSUME NEW S, IsFiniteSet(S), NEW f \in [S -> Int], NEW g, PartialSums(g, f, S),
         NEW R, IsFiniteSet(R), NEW e \in [R -> Int], NEW h, PartialSums(h, e, R),
         NEW A, A \subseteq S, A \subseteq R, \A x \in A : f[x] = e[x]
  PROVE  g[A] = h[A]
<1> DEFINE Q == {U \in SUBSET A : g[U] = h[U]}
<1>1. ASSUME NEW U \in SUBSET A, \A x \in U : U \ {x} \in Q
      PROVE  U \in Q
  <2>1. CASE U = {}
    BY <2>1 DEF PartialSums, SumEquations
  <2>2. CASE U # {}
    <3>1. PICK x \in U : x = CHOOSE y \in U : TRUE
      BY <2>2
    <3>2. g[U \ {x}] = h[U \ {x}]
      BY <1>1
    <3> QED BY <2>2, <3>1, <3>2 DEF PartialSums, SumEquations
  <2> QED BY <2>1, <2>2
<1>2. IsFiniteSet(A)
  BY FS_Subset
<1> HIDE DEF Q
<1>3. A \in Q
  BY <1>1, <1>2, SubsetInduction
<1> QED BY <1>3 DEF Q

\* A function with one more point has a larger sum.
ExtendedBy(e, f, a) ==
  DOMAIN e = DOMAIN f \cup {a} /\ \A x \in DOMAIN f : e[x] = f[x]

\* A sum over one element more.
LEMMA SumExtends ==
  ASSUME NEW S, IsFiniteSet(S), NEW f \in [S -> Int], NEW a, a \notin S,
         NEW R, R = S \cup {a}, NEW e \in [R -> Int], ExtendedBy(e, f, a)
  PROVE  SumFunction(e) = SumFunction(f) + e[a]
<1>0. \A x \in S : e[x] = f[x]
  BY DEF ExtendedBy
<1>1. IsFiniteSet(S \cup {a})
  BY FS_AddElement
<1>2. PICK g : PartialSums(g, f, S) /\ SumFunction(f) = g[S]
  BY SumIsPartialSum
<1>3. PICK h : PartialSums(h, e, S \cup {a}) /\ SumFunction(e) = h[S \cup {a}]
  BY <1>1, SumIsPartialSum
<1>4. g[S] = h[S]
  BY <1>0, <1>1, <1>2, <1>3, PartialSumsAgree
<1>5. (S \cup {a}) \ {a} = S
  OBVIOUS
<1>6. h[S \cup {a}] = e[a] + h[S]
  <2>1. h[S \cup {a}] = e[a] + h[(S \cup {a}) \ {a}]
    BY <1>1, <1>3, PartialSumAdds
  <2> QED BY <2>1, <1>5
<1>7. h[S] \in Int /\ e[a] \in Int
  BY <1>3 DEF PartialSums, SumEquations
<1> QED BY <1>2, <1>3, <1>4, <1>6, <1>7

\* A function that is changed at one point.
LEMMA SumChanges ==
  ASSUME NEW S, IsFiniteSet(S), NEW f \in [S -> Int], NEW e \in [S -> Int],
         NEW a \in S, \A x \in S \ {a} : e[x] = f[x]
  PROVE  SumFunction(e) = SumFunction(f) + e[a] - f[a]
<1>1. PICK g : PartialSums(g, f, S) /\ SumFunction(f) = g[S]
  BY SumIsPartialSum
<1>2. PICK h : PartialSums(h, e, S) /\ SumFunction(e) = h[S]
  BY SumIsPartialSum
<1>3. g[S \ {a}] = h[S \ {a}]
  BY <1>1, <1>2, PartialSumsAgree
<1>4. g[S] = f[a] + g[S \ {a}] /\ h[S] = e[a] + h[S \ {a}]
  BY <1>1, <1>2, PartialSumAdds
<1>5. g[S \ {a}] \in Int /\ f[a] \in Int /\ e[a] \in Int
  BY <1>1 DEF PartialSums, SumEquations
<1> QED BY <1>1, <1>2, <1>3, <1>4, <1>5

\* Each of the elements of W brings q more, and first r.
Shares(e, f, W, first, q, r) ==
  \A x \in DOMAIN f : e[x] = f[x] + (IF x \in W THEN q ELSE 0)
                                  + (IF x = first THEN r ELSE 0)

\* A sum where a set W got q each and one element r more: the pot of a showdown
\* that is split.
LEMMA SumShares ==
  ASSUME NEW S, IsFiniteSet(S), NEW f \in [S -> Int], NEW e \in [S -> Int],
         NEW W \in SUBSET S, NEW first \in W, NEW q \in Int, NEW r \in Int,
         Shares(e, f, W, first, q, r)
  PROVE  SumFunction(e) = SumFunction(f) + q * Cardinality(W) + r
<1>0. \A x \in S : e[x] = f[x] + (IF x \in W THEN q ELSE 0) + (IF x = first THEN r ELSE 0)
  BY DEF Shares
<1>1. PICK g : PartialSums(g, f, S) /\ SumFunction(f) = g[S]
  BY SumIsPartialSum
<1>2. PICK h : PartialSums(h, e, S) /\ SumFunction(e) = h[S]
  BY SumIsPartialSum
<1> DEFINE Extra(A) == q * Cardinality(A \cap W) + (IF first \in A THEN r ELSE 0)
           Q == {A \in SUBSET S : h[A] = g[A] + Extra(A)}
<1>3. ASSUME NEW A \in SUBSET S, \A x \in A : A \ {x} \in Q
      PROVE  A \in Q
  <2>1. CASE A = {}
    <3>1. Cardinality(A \cap W) = 0
      BY <2>1, FS_EmptySet
    <3>2. q * 0 = 0
      OBVIOUS
    <3>3. Extra(A) = 0
      BY <3>1, <3>2, <2>1
    <3>4. g[A] = 0 /\ h[A] = 0
      BY <2>1, <1>1, <1>2 DEF PartialSums, SumEquations
    <3> HIDE DEF Extra
    <3> QED BY <3>3, <3>4
  <2>2. ASSUME NEW x \in A PROVE A \in Q
    <3>1. h[A \ {x}] = g[A \ {x}] + Extra(A \ {x})
      BY <1>3
    <3>2. g[A] = f[x] + g[A \ {x}] /\ h[A] = e[x] + h[A \ {x}]
      <4> HIDE DEF Q, Extra
      <4>1. g[A] = f[x] + g[A \ {x}]
        BY <1>1, PartialSumAdds
      <4>2. h[A] = e[x] + h[A \ {x}]
        BY <1>2, PartialSumAdds
      <4> QED BY <4>1, <4>2
    <3>3. IsFiniteSet(A \cap W) /\ Cardinality(A \cap W) \in Nat
      BY FS_Subset, FS_CardinalityType
    <3>4. (A \ {x}) \cap W = (A \cap W) \ {x}
      OBVIOUS
    <3>5. Cardinality((A \ {x}) \cap W) =
            IF x \in W THEN Cardinality(A \cap W) - 1 ELSE Cardinality(A \cap W)
      <4>1. CASE x \in W
        <5>1. x \in A \cap W
          BY <4>1
        <5>2. Cardinality((A \cap W) \ {x}) = Cardinality(A \cap W) - 1
          BY <3>3, <5>1, FS_RemoveElement
        <5> QED BY <4>1, <5>2, <3>4
      <4>2. CASE x \notin W
        <5>1. (A \ {x}) \cap W = A \cap W
          BY <4>2
        <5> QED BY <4>2, <5>1
      <4> QED BY <4>1, <4>2
    <3>6. \A n \in Int : q * (n - 1) = q * n - q
      OBVIOUS
    <3>7. q * Cardinality(A \cap W) = q * Cardinality((A \ {x}) \cap W) + (IF x \in W THEN q ELSE 0)
      BY <3>3, <3>5, <3>6
    <3>8. /\ g[A \ {x}] \in Int /\ h[A \ {x}] \in Int /\ f[x] \in Int /\ e[x] \in Int
          /\ q * Cardinality((A \ {x}) \cap W) \in Int
      BY <1>1, <1>2, <3>3, <3>5 DEF PartialSums, SumEquations
    <3>9a. e[x] = f[x] + (IF x \in W THEN q ELSE 0) + (IF x = first THEN r ELSE 0)
      BY <1>0
    <3>9. Extra(A) = Extra(A \ {x}) + e[x] - f[x]
      BY <3>7, <3>8, <3>9a
    <3> QED BY <3>1, <3>2, <3>8, <3>9
  <2> QED BY <2>1, <2>2
<1> HIDE DEF Q
<1>4. S \in Q
  BY <1>3, SubsetInduction
<1>5. S \cap W = W /\ first \in S
  OBVIOUS
<1>6. h[S] = g[S] + Extra(S)
  BY <1>4 DEF Q
<1>7. Extra(S) = q * Cardinality(W) + r
  BY <1>5
<1>8. g[S] \in Int /\ q * Cardinality(W) \in Int
  <2>1. Cardinality(W) \in Int
    BY FS_Subset, FS_CardinalityType
  <2> QED BY <2>1, <1>1 DEF PartialSums, SumEquations
<1> HIDE DEF Extra
<1> QED BY <1>1, <1>2, <1>6, <1>7, <1>8

\* Min chooses a least element, so an element, of a set of numbers.
LEMMA LeastIndex ==
  ASSUME NEW S \in SUBSET Nat, S # {}
  PROVE  Min(S) \in S
<1> DEFINE Below == {0 .. n : n \in S}
<1>1. \A n \in S : IsFiniteSet(0 .. n) /\ 0 .. n \subseteq Int
  BY FS_Interval
<1>2. Below \subseteq FiniteSubsetsOf(Int) /\ Below # {}
  BY <1>1 DEF FiniteSubsetsOf
<1>3. IsWellFoundedOn(StrictSubsetOrdering(Int), FiniteSubsetsOf(Int))
  BY FS_StrictSubsetOrderingWellFounded
<1> HIDE DEF Below
<1>4. PICK b \in Below : \A c \in Below : <<c, b>> \notin StrictSubsetOrdering(Int)
  BY <1>2, <1>3, WFMin
<1>5. PICK n \in S : b = 0 .. n
  BY DEF Below
<1>6. ASSUME NEW m \in S, m < n
      PROVE  FALSE
  <2>1. 0 .. m \in Below
    BY DEF Below
  <2>2. n \in 0 .. n /\ n \notin 0 .. m
    BY <1>6
  <2>3. /\ 0 .. m \subseteq 0 .. n /\ 0 .. m # 0 .. n
        /\ 0 .. m \subseteq Int /\ 0 .. n \subseteq Int
    BY <1>6, <2>2
  <2> QED BY <1>4, <1>5, <2>1, <2>3 DEF StrictSubsetOrdering
<1>7. \A m \in S : n =< m
  BY <1>6
<1> QED BY <1>7 DEF Min

\* A bounded set of numbers has a greatest one.
LEMMA GreatestIndex ==
  ASSUME NEW n \in Nat, NEW S \in SUBSET (1 .. n), S # {}
  PROVE  Max(S) \in S
<1>1. IsFiniteSet(1 .. n)
  BY FS_Interval
<1>2. \E x \in S : \A y \in S : x >= y
  <2> DEFINE Q == {A \in SUBSET S : A # {} => \E x \in A : \A y \in A : x >= y}
  <2>1. ASSUME NEW A \in SUBSET S, \A x \in A : A \ {x} \in Q
        PROVE  A \in Q
    <3> SUFFICES ASSUME NEW z \in A PROVE \E x \in A : \A y \in A : x >= y
      OBVIOUS
    <3>1. CASE A = {z}
      BY <3>1
    <3>2. CASE A # {z}
      <4>1. PICK x \in A \ {z} : \A y \in A \ {z} : x >= y
        BY <3>2, <2>1
      <4> QED BY <4>1
    <3> QED BY <3>1, <3>2
  <2>2. IsFiniteSet(S)
    BY <1>1, FS_Subset
  <2> HIDE DEF Q
  <2>3. S \in Q
    BY <2>1, <2>2, SubsetInduction
  <2> QED BY <2>3 DEF Q
<1> QED BY <1>2 DEF Max

\* Filtering a sequence by folding over it.
LEMMA FilterType ==
  ASSUME NEW D, NEW seq \in Seq(D), NEW S
  PROVE  \E r \in Seq(D \cap S) :
           /\ r = FoldLeft(LAMBDA order, s : IF s \in S THEN Append(order, s) ELSE order,
                           << >>, seq)
           /\ \A x \in ToSet(seq) \cap S : x \in ToSet(r)
<1> DEFINE I == DOMAIN seq
           c == [s \in SUBSET I |-> Max(s)]
           op == [p \in I \X Seq(D \cap S) |->
                    IF seq[p[1]] \in S THEN Append(p[2], seq[p[1]]) ELSE p[2]]
<1>0. I = 1 .. Len(seq) /\ Len(seq) \in Nat /\ IsFiniteSet(I) /\ \A i \in I : seq[i] \in D
  BY FS_Interval, ElementOfSeq
<1>1. \A s \in SUBSET I : s # {} => c[s] \in s
  BY <1>0, GreatestIndex
<1>2. << >> \in Seq(D \cap S)
  BY EmptySeq
<1>3. op \in [I \X Seq(D \cap S) -> Seq(D \cap S)]
  BY <1>0, AppendProperties
<1>4. \A i \in I, o \in Seq(D \cap S) :
        op[<<i, o>>] = IF seq[i] \in S THEN Append(o, seq[i]) ELSE o
  OBVIOUS
<1>5. \A s \in SUBSET I : c[s] = Max(s)
  OBVIOUS
<1> HIDE DEF c, op
<1>6. PICK h \in [SUBSET I -> Seq(D \cap S)] : Folds(h, I, << >>, op, c)
  <2> HIDE DEF I
  <2> QED BY <1>0, <1>1, <1>2, <1>3, FoldExists
<1> DEFINE Body(g, s) == IF s = {} THEN << >>
                         ELSE IF seq[Max(s)] \in S THEN Append(g[s \ {Max(s)}], seq[Max(s)])
                         ELSE g[s \ {Max(s)}]
<1>7. ASSUME NEW s \in SUBSET I PROVE h[s] = Body(h, s)
  <2>1. CASE s = {}
    BY <2>1, <1>6 DEF Folds
  <2>2. CASE s # {}
    <3>1. c[s] \in I /\ h[s \ {c[s]}] \in Seq(D \cap S)
      BY <2>2, <1>1
    <3>2. h[s] = op[<<c[s], h[s \ {c[s]}]>>]
      BY <2>2, <1>6 DEF Folds
    <3> QED BY <2>2, <3>1, <3>2, <1>4, <1>5
  <2> QED BY <2>1, <2>2
<1>8. h = [s \in SUBSET I |-> Body(h, s)]
  <2> HIDE DEF Body
  <2> QED BY <1>7
<1> DEFINE iter == CHOOSE g : g = [s \in SUBSET I |-> Body(g, s)]
<1>9. FoldLeft(LAMBDA order, s : IF s \in S THEN Append(order, s) ELSE order, << >>, seq) = iter[I]
  BY DEF FoldLeft, MapThenFoldSet
<1>10. iter = [s \in SUBSET I |-> Body(iter, s)]
  BY <1>8
<1> HIDE DEF iter
<1>a. ASSUME NEW o \in Seq(D \cap S), NEW e \in D \cap S
      PROVE  ToSet(o) \cup {e} \subseteq ToSet(Append(o, e))
  <2>1. PICK p : p = Append(o, e)
    OBVIOUS
  <2>2. /\ p \in Seq(D \cap S) /\ Len(p) = Len(o) + 1
        /\ \A i \in 1 .. Len(o) : p[i] = o[i]
        /\ p[Len(o) + 1] = e
    BY <2>1, AppendProperties
  <2>3. /\ DOMAIN p = 1 .. Len(o) + 1 /\ DOMAIN o = 1 .. Len(o) /\ Len(o) \in Nat
    BY <2>2, LenProperties
  <2> QED BY <2>1, <2>2, <2>3 DEF ToSet
<1> DEFINE Q == {A \in SUBSET I : /\ iter[A] = h[A]
                                 /\ \A i \in A : seq[i] \in S => seq[i] \in ToSet(h[A])}
<1>11. ASSUME NEW A \in SUBSET I, \A x \in A : A \ {x} \in Q
       PROVE  A \in Q
  <2>1. CASE A = {}
    BY <2>1, <1>7, <1>10
  <2>2. CASE A # {}
    <3>1. PICK m \in A : m = Max(A)
      BY <2>2, <1>0, GreatestIndex
    <3>2. PICK o \in Seq(D \cap S) : o = h[A \ {m}]
      OBVIOUS
    <3>3. iter[A \ {m}] = o /\ \A i \in A \ {m} : seq[i] \in S => seq[i] \in ToSet(o)
      BY <1>11, <3>2
    <3>4. /\ iter[A] = IF seq[m] \in S THEN Append(o, seq[m]) ELSE o
          /\ h[A] = IF seq[m] \in S THEN Append(o, seq[m]) ELSE o
      BY <2>2, <3>1, <3>2, <3>3, <1>7, <1>10
    <3>5. ASSUME NEW i \in A, seq[i] \in S PROVE seq[i] \in ToSet(h[A])
      <4>1. CASE seq[m] \in S
        <5>1. ToSet(o) \cup {seq[m]} \subseteq ToSet(h[A])
          BY <1>0, <1>a, <3>4, <4>1
        <5> QED BY <3>3, <3>5, <5>1
      <4>2. CASE seq[m] \notin S
        <5>1. i # m /\ h[A] = o
          BY <3>4, <3>5, <4>2
        <5> QED BY <3>3, <3>5, <5>1
      <4> QED BY <4>1, <4>2
    <3> QED BY <3>4, <3>5
  <2> QED BY <2>1, <2>2
<1> HIDE DEF Q
<1>12. I \in Q
  BY <1>0, <1>11, SubsetInduction
<1>13. iter[I] = h[I] /\ \A x \in ToSet(seq) \cap S : x \in ToSet(h[I])
  BY <1>12 DEF Q, ToSet
<1>14. /\ iter[I] \in Seq(D \cap S)
       /\ \A x \in ToSet(seq) \cap S : x \in ToSet(iter[I])
  BY <1>13
<1> QED BY <1>9, <1>14
-----------------------------------------------------------------------------
(* Tic-tac-toe.                                                            *)

\* The operators that the instance of TicTacToe has are those of this module.
LEMMA SameTicTacToe == \A S : T!Cardinality(S) = Cardinality(S)
BY DEF T!Cardinality, Cardinality

\* X, O, a free cell and a draw are told apart.
LEMMA FourMarks ==
  /\ X # O /\ X # None /\ X # Draw
  /\ O # None /\ O # Draw /\ None # Draw
<1>1. ASSUME NEW a, NEW b, NEW c
      PROVE  Cardinality({a, b, c}) <= 3 /\ Cardinality({a, b, c}) \in Nat
  <2>1. IsFiniteSet({a}) /\ Cardinality({a}) = 1
    BY FS_Singleton
  <2>2. IsFiniteSet({a} \cup {b}) /\ Cardinality({a} \cup {b}) \in 1 .. 2
    BY <2>1, FS_AddElement
  <2>3. Cardinality(({a} \cup {b}) \cup {c}) \in 1 .. 3
    BY <2>2, FS_AddElement
  <2>4. ({a} \cup {b}) \cup {c} = {a, b, c}
    OBVIOUS
  <2> QED BY <2>3, <2>4
<1>2. \A a, b, c : {X, O, None, Draw} # {a, b, c}
  <2> SUFFICES ASSUME NEW a, NEW b, NEW c, {X, O, None, Draw} = {a, b, c} PROVE FALSE
    OBVIOUS
  <2>1. Cardinality({a, b, c}) = 4
    BY TicTacToeAssumption
  <2> QED BY <1>1, <2>1
<1>3. X # O /\ X # None /\ X # Draw
  BY <1>2
<1>4. O # None /\ O # Draw
  BY <1>2
<1>5. None # Draw
  BY <1>2
<1> QED BY <1>3, <1>4, <1>5

\* The board with turn and winner.
TicTacToeState == [board : [T!Cells -> {X, O, None}], turn : {X, O}, winner : {X, O, None, Draw}]

\* The inductive invariant of tic-tac-toe.
TicTacToeInv == game \in TicTacToeState /\ T!BoardIsLegal

\* A new game and a rematch are legal boards (fresh, applyAction).
LEMMA TicTacToeFresh ==
  (game = T!Fresh => TicTacToeInv) /\ (game' = T!Fresh => TicTacToeInv')
<1>1. T!Fresh = [board |-> [c \in T!Cells |-> None], turn |-> X, winner |-> None]
  BY DEF T!Fresh
<1>2. Cardinality({}) = 0 /\ 0 \in T!Cells /\ X # O /\ X # None /\ O # None /\ X # Draw
      /\ O # Draw /\ None # Draw
  BY FS_EmptySet, FourMarks DEF T!Cells
<1>3. ASSUME game = T!Fresh PROVE TicTacToeInv
  <2>1. T!Marks(X) = {} /\ T!Marks(O) = {} /\ T!Marks(None) # {}
    BY <1>1, <1>2, <1>3 DEF T!Marks
  <2>2. ~T!Won(X) /\ ~T!Won(O)
    BY <2>1 DEF T!Won, T!Lines
  <2>3. T!BoardIsLegal
    BY <1>1, <1>2, <1>3, <2>1, <2>2, SameTicTacToe DEF T!BoardIsLegal, T!Seats
  <2> QED BY <1>1, <1>3, <2>3 DEF TicTacToeInv, TicTacToeState
<1>4. ASSUME game' = T!Fresh PROVE TicTacToeInv'
  <2>1. T!Marks(X)' = {} /\ T!Marks(O)' = {} /\ T!Marks(None)' # {}
    BY <1>1, <1>2, <1>4 DEF T!Marks
  <2>2. ~T!Won(X)' /\ ~T!Won(O)'
    BY <2>1 DEF T!Won, T!Lines
  <2>3. T!BoardIsLegal'
    BY <1>1, <1>2, <1>4, <2>1, <2>2, SameTicTacToe DEF T!BoardIsLegal, T!Seats
  <2> QED BY <1>1, <1>4, <2>3 DEF TicTacToeInv, TicTacToeState
<1> QED BY <1>3, <1>4

\* A move keeps the board legal (applyAction, evaluate).
LEMMA TicTacToeMove ==
  ASSUME TicTacToeInv, NEW s \in T!Seats, NEW cell \in T!Cells, T!Move(s, cell)
  PROVE  TicTacToeInv'
<1> DEFINE o == T!Other(s)
<1>1. /\ game \in TicTacToeState /\ T!BoardIsLegal
      /\ game.winner = None /\ s = game.turn /\ game.board[cell] = None
  BY DEF TicTacToeInv, T!Move
<1>2. s \in {X, O} /\ o \in {X, O} /\ s # o /\ {s, o} = {X, O}
  BY FourMarks DEF T!Other, T!Seats
<1>3. PICK b : /\ b = [game.board EXCEPT ![cell] = s]
               /\ game' = [board |-> b, turn |-> o, winner |-> T!Evaluate(b)]
  BY DEF T!Move
<1>4. /\ b \in [T!Cells -> {X, O, None}]
      /\ \A c \in T!Cells : b[c] = IF c = cell THEN s ELSE game.board[c]
  BY <1>1, <1>2, <1>3 DEF TicTacToeState
<1>5. game'.board = b /\ game'.turn = o /\ game'.winner = T!Evaluate(b)
  BY <1>3
<1>6. /\ T!Marks(s)' = T!Marks(s) \cup {cell} /\ cell \notin T!Marks(s)
      /\ T!Marks(o)' = T!Marks(o)
  BY <1>1, <1>2, <1>4, <1>5, FourMarks DEF T!Marks
<1>7. /\ IsFiniteSet(T!Marks(s)) /\ IsFiniteSet(T!Marks(o))
      /\ Cardinality(T!Marks(s)) \in Nat /\ Cardinality(T!Marks(o)) \in Nat
  <2>1. IsFiniteSet(T!Cells)
    <3>1. PICK n \in Int : n >= 8
      OBVIOUS
    <3>2. IsFiniteSet(0 .. n) /\ T!Cells \subseteq 0 .. n
      BY <3>1, FS_Interval DEF T!Cells
    <3> QED BY <3>2, FS_Subset
  <2>2. T!Marks(s) \subseteq T!Cells /\ T!Marks(o) \subseteq T!Cells
    BY DEF T!Marks
  <2> QED BY <2>1, <2>2, FS_Subset, FS_CardinalityType
<1>8. /\ Cardinality(T!Marks(s)') = Cardinality(T!Marks(s)) + 1
      /\ Cardinality(T!Marks(o)') = Cardinality(T!Marks(o))
  BY <1>6, <1>7, FS_AddElement
<1>9. ~T!Won(s) /\ ~T!Won(o)
  BY <1>1, <1>2, FourMarks DEF T!BoardIsLegal, T!Seats
<1>10. ~T!Won(o)'
  BY <1>6, <1>9 DEF T!Won
<1> DEFINE w == {x \in T!Seats : \E line \in T!Lines : T!Owns(b, x, line)}
<1>11. \A x \in T!Seats : T!Won(x)' <=> x \in w
  <2>1. \A line \in T!Lines : line \subseteq T!Cells
    BY DEF T!Lines, T!Cells
  <2> QED BY <2>1, <1>5 DEF T!Won, T!Owns, T!Marks
<1>12. w \subseteq {s}
  BY <1>2, <1>10, <1>11 DEF T!Seats
<1>13. T!Evaluate(b) = IF w # {} THEN CHOOSE x \in w : TRUE
                       ELSE IF \A c \in T!Cells : b[c] # None THEN Draw ELSE None
  BY DEF T!Evaluate
<1> HIDE DEF w
<1>14. T!Marks(None)' = {} <=> \A c \in T!Cells : b[c] # None
  BY <1>5 DEF T!Marks
<1>15. /\ \A x \in T!Seats : T!Won(x)' <=> game'.winner = x
       /\ game'.winner = Draw <=> T!Marks(None)' = {} /\ ~T!Won(X)' /\ ~T!Won(O)'
       /\ game'.winner \in {X, O, None, Draw}
  <2>1. CASE w = {}
    BY <2>1, <1>2, <1>5, <1>11, <1>13, <1>14, FourMarks DEF T!Seats
  <2>2. CASE w # {}
    <3>1. w = {s} /\ T!Evaluate(b) = s
      BY <2>2, <1>12, <1>13
    <3> QED BY <3>1, <1>2, <1>5, <1>11, FourMarks DEF T!Seats
  <2> QED BY <2>1, <2>2
<1>16. /\ game'.turn = X <=> T!Cardinality(T!Marks(X)') = T!Cardinality(T!Marks(O)')
       /\ game'.turn = O <=> T!Cardinality(T!Marks(X)') = T!Cardinality(T!Marks(O)') + 1
  <2>1. CASE s = X
    <3>1. o = O
      BY <2>1 DEF T!Other
    <3> QED BY <2>1, <3>1, <1>1, <1>5, <1>7, <1>8, SameTicTacToe, FourMarks DEF T!BoardIsLegal
  <2>2. CASE s = O
    <3>1. o = X
      BY <2>2, FourMarks DEF T!Other
    <3> QED BY <2>2, <3>1, <1>1, <1>5, <1>7, <1>8, SameTicTacToe, FourMarks DEF T!BoardIsLegal
  <2> QED BY <2>1, <2>2, <1>2
<1>17. T!BoardIsLegal'
  BY <1>15, <1>16 DEF T!BoardIsLegal
<1>18. game' \in TicTacToeState
  BY <1>2, <1>3, <1>4, <1>5, <1>15 DEF TicTacToeState
<1> QED BY <1>17, <1>18 DEF TicTacToeInv

\* Every step of tic-tac-toe keeps the board legal.
LEMMA TicTacToeNext == TicTacToeInv /\ [T!Next]_game => TicTacToeInv'
<1> SUFFICES ASSUME TicTacToeInv, [T!Next]_game PROVE TicTacToeInv'
  OBVIOUS
<1>1. CASE UNCHANGED game
  BY <1>1 DEF TicTacToeInv, T!BoardIsLegal, T!Marks, T!Won
<1>2. CASE T!Rematch
  BY <1>2, TicTacToeFresh DEF T!Rematch
<1>3. ASSUME NEW s \in T!Seats, NEW cell \in T!Cells, T!Move(s, cell) PROVE TicTacToeInv'
  BY <1>3, TicTacToeMove
<1> QED BY <1>1, <1>2, <1>3 DEF T!Next
-----------------------------------------------------------------------------
(* Poker: whose turn it is.                                                *)

\* The operators Poker takes from the libraries are those of the lemmas above.
LEMMA SamePoker ==
  /\ \A S : P!Cardinality(S) = Cardinality(S)
  /\ \A S : P!Min(S) = Min(S)
  /\ \A seq : P!ToSet(seq) = ToSet(seq)
  /\ \A f : P!SumFunction(f) = SumFunction(f)
<1>1. \A S : P!Cardinality(S) = Cardinality(S)
  BY DEF P!Cardinality, Cardinality
<1>2. \A S : P!Min(S) = Min(S)
  BY DEF P!Min, Min
<1>3. \A seq : P!ToSet(seq) = ToSet(seq)
  BY DEF P!ToSet, ToSet
<1>4. \A f : P!SumFunction(f) = SumFunction(f)
  BY DEF P!SumFunction, SumFunction, P!SumFunctionOnSet, SumFunctionOnSet,
         P!FoldFunctionOnSet, FoldFunctionOnSet, P!MapThenFoldSet, MapThenFoldSet
<1> QED BY <1>1, <1>2, <1>3, <1>4

\* The seats after any place of a table are seats of the table, all of them.
LEMMA AfterGoesRound ==
  ASSUME NEW D, NEW seats \in Seq(D), NEW s
  PROVE  /\ \A k \in 1 .. Len(seats) : P!After(seats, s, k) \in ToSet(seats)
         /\ \A x \in ToSet(seats) : \E k \in 1 .. Len(seats) : P!After(seats, s, k) = x
<1> DEFINE n == Len(seats)
           Ind == {i \in 1 .. n : seats[i] = s}
           p == IF Ind # {} THEN Min(Ind) ELSE 0
<1>1. n \in Nat /\ DOMAIN seats = 1 .. n
  BY LenProperties
<1>2. p \in 0 .. n
  <2>1. Ind \in SUBSET Nat
    BY <1>1
  <2>2. Ind # {} => Min(Ind) \in Ind
    BY <2>1, LeastIndex
  <2> QED BY <1>1, <2>2
<1>3. \A k : P!After(seats, s, k) = seats[((p - 1 + k) % n) + 1]
  BY SamePoker DEF P!After, P!SelectInSeq
<1> HIDE DEF p, n
<1>4. ASSUME NEW k \in 1 .. n PROVE P!After(seats, s, k) \in ToSet(seats)
  <2>1. (p - 1 + k) % n \in 0 .. n - 1
    BY <1>1, <1>2, <1>4
  <2> QED BY <1>1, <1>3, <2>1 DEF ToSet
<1>5. ASSUME NEW x \in ToSet(seats)
      PROVE  \E k \in 1 .. n : P!After(seats, s, k) = x
  <2>1. PICK j \in 1 .. n : seats[j] = x
    BY <1>1 DEF ToSet
  <2>2. CASE j > p
    <3>1. j - p \in 1 .. n /\ (p - 1 + (j - p)) % n = j - 1
      BY <1>1, <1>2, <2>2
    <3> QED BY <1>3, <2>1, <3>1
  <2>3. CASE j <= p
    <3>1. j - p + n \in 1 .. n /\ p - 1 + (j - p + n) = (j - 1) + n
      BY <1>1, <1>2, <2>3
    <3>2. ((j - 1) + n) % n = j - 1
      BY <1>1
    <3> QED BY <1>1, <1>3, <2>1, <3>1, <3>2
  <2> QED BY <1>1, <1>2, <2>2, <2>3
<1> QED BY <1>4, <1>5 DEF n

\* A player of poker.
PlayerRecord == [chips : Nat, bet : Nat, folded : BOOLEAN, allIn : BOOLEAN, acted : BOOLEAN]

\* The table as an object, with its fields and their types.
IsTable(t) ==
  /\ t = [phase |-> t.phase, players |-> t.players, hand |-> t.hand, pot |-> t.pot,
          currentBet |-> t.currentBet, minRaise |-> t.minRaise, toAct |-> t.toAct,
          button |-> t.button, reveal |-> t.reveal]
  /\ t.phase \in P!Streets \cup {"waiting", "showdown"}
  /\ P!Seated(t) \subseteq ToSet(SEATS)
  /\ t.players \in [P!Seated(t) -> PlayerRecord]
  /\ t.hand \in Seq(P!Seated(t))
  /\ t.pot \in Nat /\ t.currentBet \in Nat /\ t.minRaise \in Nat
  /\ t.toAct \in ToSet(t.hand) \cup {None}
  /\ t.reveal \in BOOLEAN

\* The seats of a hand are seats at the table, and finitely many.
LEMMA InHandAreSeated ==
  ASSUME NEW D, NEW hand \in Seq(D)
  PROVE  ToSet(hand) \subseteq D /\ IsFiniteSet(ToSet(hand))
<1>1. \A i \in DOMAIN hand : hand[i] \in D
  BY ElementOfSeq
<1>2. IsFiniteSet(DOMAIN hand)
  BY LenProperties, FS_Interval
<1>3. [i \in DOMAIN hand |-> hand[i]] \in Surjection(DOMAIN hand, ToSet(hand))
  BY DEF ToSet, Surjection
<1>4. IsFiniteSet(ToSet(hand))
  BY <1>2, <1>3, FS_Surjection
<1> QED BY <1>1, <1>4 DEF ToSet

\* nextActor names a player that needs to act, or nobody if there is none.
LEMMA NextActorNeedsToAct ==
  ASSUME NEW t, IsTable(t), NEW s
  PROVE  /\ P!NextActor(t, s) # None => /\ P!NextActor(t, s) \in ToSet(t.hand)
                                        /\ P!NeedsToAct(t, P!NextActor(t, s))
         /\ P!NextActor(t, s) = None => \A x \in ToSet(t.hand) : ~P!NeedsToAct(t, x)
<1> DEFINE waiting == {k \in 1 .. Len(t.hand) : P!NeedsToAct(t, P!After(t.hand, s, k))}
           next == P!After(t.hand, s, Min(waiting))
<1>1. P!NextActor(t, s) = IF waiting = {} THEN None ELSE next
  BY SamePoker DEF P!NextActor
<1>2. t.hand \in Seq(P!Seated(t)) /\ ToSet(t.hand) \subseteq ToSet(SEATS)
  BY InHandAreSeated DEF IsTable
<1>3. CASE waiting = {}
  <2>1. ASSUME NEW x \in ToSet(t.hand) PROVE ~P!NeedsToAct(t, x)
    <3>1. PICK k \in 1 .. Len(t.hand) : P!After(t.hand, s, k) = x
      BY <1>2, AfterGoesRound
    <3>2. ~P!NeedsToAct(t, P!After(t.hand, s, k))
      BY <1>3
    <3> QED BY <3>1, <3>2
  <2> QED BY <1>1, <1>3, <2>1
<1>4. CASE waiting # {}
  <2>1. Min(waiting) \in waiting
    BY <1>4, LeastIndex
  <2>2. next \in ToSet(t.hand) /\ P!NeedsToAct(t, next)
    BY <1>2, <2>1, AfterGoesRound
  <2>3. next # None
    BY <1>2, <2>2, PokerAssumption
  <2> HIDE DEF waiting, next
  <2> QED BY <1>1, <1>4, <2>2, <2>3
<1> QED BY <1>3, <1>4

\* The first to act on a street is a player of the hand, or nobody.
LEMMA FirstActorIsInHand ==
  ASSUME NEW t, IsTable(t), NEW s
  PROVE  P!FirstActor(t, s) \in ToSet(t.hand) \cup {None}
<1>1. P!NeedsToAct(t, s) => s \in ToSet(t.hand)
  BY SamePoker DEF P!NeedsToAct, P!CanActNow, P!InHand
<1> QED BY <1>1, NextActorNeedsToAct DEF P!FirstActor
-----------------------------------------------------------------------------
(* Poker: how a betting round and a hand end.                              *)

\* All chips at the table.
Total(t) == SumFunction([s \in P!Seated(t) |-> t.players[s].chips]) + t.pot

\* What the invariant says of a table in a betting round ...
Covered(t) ==
  \A s \in ToSet(t.hand) : /\ t.players[s].bet <= t.currentBet
                           /\ t.players[s].allIn <=> t.players[s].chips = 0

\* ... and of a table in general.
TableIsFair(t) ==
  /\ IsTable(t)
  /\ t.phase \in P!Streets => Covered(t)
  /\ t.phase \notin P!Streets => t.pot = 0 /\ t.toAct = None
  /\ t.phase = "showdown" /\ t.reveal => Cardinality(P!InHandSeats(t)) > 1
  /\ Total(t) = START * Cardinality(P!Seated(t))

\* A table u that differs from t in bets and in who is to act.
SameStacks(t, u) ==
  /\ P!Seated(u) = P!Seated(t) /\ u.hand = t.hand /\ u.pot = t.pot
  /\ \A s \in P!Seated(t) : /\ u.players[s].chips = t.players[s].chips
                            /\ u.players[s].folded = t.players[s].folded
                            /\ u.players[s].allIn = t.players[s].allIn

\* Bets and turns decide nothing about the chips at the table.
LEMMA SameStacksTotal ==
  ASSUME NEW t, NEW u, IsTable(t), SameStacks(t, u)
  PROVE  Total(u) = Total(t) /\ P!InHandSeats(u) = P!InHandSeats(t)
<1>1. [s \in P!Seated(u) |-> u.players[s].chips] = [s \in P!Seated(t) |-> t.players[s].chips]
  BY DEF SameStacks
<1>2. ToSet(t.hand) \subseteq P!Seated(t)
  BY InHandAreSeated DEF IsTable
<1>3. P!InHandSeats(u) = P!InHandSeats(t)
  BY <1>2, SamePoker DEF P!InHandSeats, P!InHand, SameStacks
<1> QED BY <1>1, <1>3 DEF Total, SameStacks

\* The sum of the chips is over finitely many seats.
LEMMA StacksAreFinite ==
  ASSUME NEW t, IsTable(t)
  PROVE  /\ IsFiniteSet(P!Seated(t))
         /\ [s \in P!Seated(t) |-> t.players[s].chips] \in [P!Seated(t) -> Int]
         /\ ToSet(t.hand) \subseteq P!Seated(t)
         /\ P!InHandSeats(t) \subseteq ToSet(t.hand)
         /\ IsFiniteSet(P!InHandSeats(t))
<1>1. SEATS \in Seq(ToSet(SEATS))
  BY PokerAssumption
<1>2. IsFiniteSet(ToSet(SEATS))
  BY <1>1, InHandAreSeated
<1>3. IsFiniteSet(P!Seated(t)) /\ t.players \in [P!Seated(t) -> PlayerRecord]
  BY <1>2, FS_Subset DEF IsTable
<1>4. ToSet(t.hand) \subseteq P!Seated(t)
  BY InHandAreSeated DEF IsTable
<1>5. P!InHandSeats(t) \subseteq ToSet(t.hand)
  BY SamePoker DEF P!InHandSeats, P!InHand
<1>6. \A s \in P!Seated(t) : t.players[s].chips \in Int
  BY <1>3 DEF PlayerRecord
<1> QED BY <1>3, <1>4, <1>5, <1>6, FS_Subset

\* A new betting round takes no chips (resetRound).
LEMMA ResetRoundKeepsStacks ==
  ASSUME NEW t, IsTable(t)
  PROVE  /\ IsTable(P!ResetRound(t)) /\ SameStacks(t, P!ResetRound(t))
         /\ P!ResetRound(t).phase = t.phase /\ P!ResetRound(t).reveal = t.reveal
         /\ P!ResetRound(t).button = t.button /\ P!ResetRound(t).currentBet = 0
         /\ \A s \in ToSet(t.hand) : P!ResetRound(t).players[s].bet = 0
<1> DEFINE p == [s \in P!Seated(t) |->
                   IF s \in P!InHand(t) THEN [t.players[s] EXCEPT !.bet = 0, !.acted = FALSE]
                   ELSE t.players[s]]
<1>1. PICK r : r = P!ResetRound(t)
  OBVIOUS
<1>2. r = [t EXCEPT !.players = p, !.currentBet = 0, !.minRaise = BB]
  BY <1>1 DEF P!ResetRound
<1>3. \A s \in P!Seated(t) :
        /\ p[s] \in PlayerRecord
        /\ p[s].chips = t.players[s].chips /\ p[s].folded = t.players[s].folded
        /\ p[s].allIn = t.players[s].allIn
        /\ s \in ToSet(t.hand) => p[s].bet = 0
  BY SamePoker DEF IsTable, PlayerRecord, P!InHand
<1>4. DOMAIN p = P!Seated(t) /\ p \in [P!Seated(t) -> PlayerRecord]
  BY <1>3
<1> HIDE DEF p
<1>5. r = [phase |-> t.phase, players |-> p, hand |-> t.hand, pot |-> t.pot,
           currentBet |-> 0, minRaise |-> BB, toAct |-> t.toAct,
           button |-> t.button, reveal |-> t.reveal]
  BY <1>2 DEF IsTable
<1>6. ToSet(t.hand) \subseteq P!Seated(t)
  BY StacksAreFinite
<1>7. P!Seated(r) = P!Seated(t) /\ r.players = p
  BY <1>4, <1>5 DEF P!Seated
<1>8. IsTable(r)
  BY <1>4, <1>5, <1>7, PokerAssumption DEF IsTable
<1>9. SameStacks(t, r)
  BY <1>3, <1>5, <1>7 DEF SameStacks
<1> QED BY <1>1, <1>3, <1>5, <1>6, <1>7, <1>8, <1>9

\* The hand of t has ended at u.
Ends(t, u) ==
  /\ TableIsFair(u)
  /\ u.phase = "showdown"
  /\ P!InHandSeats(u) = P!InHandSeats(t)
  /\ P!Seated(u) = P!Seated(t)

Showing(t, reveal) == [t EXCEPT !.reveal = reveal]

\* At u the seats of W have got what share has for them.
IsPaid(t, u, W, share, reveal) ==
  /\ IsTable(u) /\ u.phase = "showdown" /\ u.reveal = reveal /\ u.pot = 0 /\ u.toAct = None
  /\ P!Seated(u) = P!Seated(t)
  /\ P!InHandSeats(u) = P!InHandSeats(t)
  /\ \A s \in P!Seated(t) :
       u.players[s].chips = t.players[s].chips + (IF s \in W THEN share[s] ELSE 0)

\* Paying the winners changes their chips only, and empties the pot.
LEMMA PayIsTable ==
  ASSUME NEW t, IsTable(t), NEW W \in SUBSET P!Seated(t), NEW share \in [W -> Nat],
         NEW reveal \in BOOLEAN
  PROVE  IsPaid(t, P!Pay(Showing(t, reveal), share), W, share, reveal)
<1>1. PICK v : v = Showing(t, reveal)
  OBVIOUS
<1>2. v = [phase |-> t.phase, players |-> t.players, hand |-> t.hand, pot |-> t.pot,
           currentBet |-> t.currentBet, minRaise |-> t.minRaise, toAct |-> t.toAct,
           button |-> t.button, reveal |-> reveal]
  BY <1>1 DEF IsTable, Showing
<1> DEFINE p == [s \in P!Seated(v) |->
                   IF s \in DOMAIN share
                   THEN [v.players[s] EXCEPT !.chips = @ + share[s]]
                   ELSE v.players[s]]
<1>3. v.players = t.players /\ P!Seated(v) = P!Seated(t)
  BY <1>2 DEF P!Seated
<1>4. \A s \in P!Seated(t) :
        /\ p[s] \in PlayerRecord
        /\ p[s].chips = t.players[s].chips + (IF s \in W THEN share[s] ELSE 0)
        /\ p[s].folded = t.players[s].folded
  <2> TAKE s \in P!Seated(t)
  <2>1. t.players[s] \in PlayerRecord
    BY DEF IsTable
  <2>2. CASE s \in W
    <3>1. p[s] = [t.players[s] EXCEPT !.chips = @ + share[s]] /\ share[s] \in Nat
      BY <2>2, <1>3
    <3> QED BY <3>1, <2>1, <2>2 DEF PlayerRecord
  <2>3. CASE s \notin W
    <3>1. p[s] = t.players[s]
      BY <2>3, <1>3
    <3> QED BY <3>1, <2>1, <2>3 DEF PlayerRecord
  <2> QED BY <2>2, <2>3
<1>5. PICK u : u = P!Pay(v, share)
  OBVIOUS
<1>6. u = [v EXCEPT !.players = p, !.pot = 0, !.phase = "showdown", !.toAct = None]
  BY <1>5 DEF P!Pay
<1>7. DOMAIN p = P!Seated(t) /\ p \in [P!Seated(t) -> PlayerRecord]
  BY <1>3, <1>4
<1> HIDE DEF p
<1>8. u = [phase |-> "showdown", players |-> p, hand |-> t.hand, pot |-> 0,
           currentBet |-> t.currentBet, minRaise |-> t.minRaise, toAct |-> None,
           button |-> t.button, reveal |-> reveal]
  BY <1>2, <1>6
<1>9. P!Seated(u) = P!Seated(t) /\ u.players = p /\ u.hand = t.hand
  BY <1>7, <1>8 DEF P!Seated
<1>10. IsTable(u)
  BY <1>7, <1>8, <1>9 DEF IsTable
<1>11. P!InHandSeats(u) = P!InHandSeats(t)
  BY <1>4, <1>9, StacksAreFinite, SamePoker DEF P!InHandSeats, P!InHand
<1> QED BY <1>1, <1>4, <1>5, <1>8, <1>9, <1>10, <1>11 DEF IsPaid

\* A hand that ends at u, where the chips that are paid are the pot.
LEMMA PaidInFull ==
  ASSUME NEW t, TableIsFair(t), NEW u, IsTable(u),
         u.phase = "showdown", u.pot = 0, u.toAct = None,
         P!Seated(u) = P!Seated(t), P!InHandSeats(u) = P!InHandSeats(t),
         u.reveal => Cardinality(P!InHandSeats(t)) > 1,
         SumFunction([s \in P!Seated(u) |-> u.players[s].chips]) = Total(t)
  PROVE  Ends(t, u)
<1>1. Total(t) = START * Cardinality(P!Seated(t))
  BY DEF TableIsFair
<1>2. Total(t) \in Int
  <2>1. SumFunction([s \in P!Seated(t) |-> t.players[s].chips]) \in Int
    BY StacksAreFinite, SumType DEF TableIsFair
  <2> QED BY <2>1 DEF Total, TableIsFair, IsTable
<1>3. Total(u) = Total(t)
  BY <1>2 DEF Total
<1>4. u.phase \notin P!Streets
  BY DEF P!Streets
<1>5. TableIsFair(u)
  BY <1>1, <1>3, <1>4 DEF TableIsFair
<1> QED BY <1>5 DEF Ends

\* The last player in the hand gets the whole pot (awardFold).
LEMMA AwardFoldEnds ==
  ASSUME NEW t, TableIsFair(t), NEW w \in P!Seated(t)
  PROVE  Ends(t, P!AwardFold(t, w))
<1>0. IsTable(t) /\ t.pot \in Nat
  BY DEF TableIsFair, IsTable
<1> DEFINE share == [s \in {w} |-> t.pot]
<1>1. {w} \in SUBSET P!Seated(t) /\ share \in [{w} -> Nat] /\ FALSE \in BOOLEAN
  BY <1>0
<1>2. PICK u : u = P!Pay(Showing(t, FALSE), share)
  OBVIOUS
<1>2a. IsPaid(t, u, {w}, share, FALSE)
  <2> HIDE DEF share
  <2> QED BY <1>0, <1>1, <1>2, PayIsTable
<1>2b. /\ IsTable(u) /\ u.phase = "showdown" /\ u.reveal = FALSE /\ u.pot = 0 /\ u.toAct = None
       /\ P!Seated(u) = P!Seated(t)
       /\ P!InHandSeats(u) = P!InHandSeats(t)
       /\ \A s \in P!Seated(t) :
            u.players[s].chips = t.players[s].chips + (IF s \in {w} THEN share[s] ELSE 0)
  <2> HIDE DEF share
  <2> QED BY <1>2a DEF IsPaid
<1>3. u = P!AwardFold(t, w)
  BY <1>2 DEF P!AwardFold, Showing
<1> DEFINE f == [s \in P!Seated(t) |-> t.players[s].chips]
           e == [s \in P!Seated(t) |-> u.players[s].chips]
<1>4. f \in [P!Seated(t) -> Int] /\ e \in [P!Seated(t) -> Int] /\ IsFiniteSet(P!Seated(t))
  BY <1>0, <1>2b, StacksAreFinite
<1>5. e[w] = f[w] + t.pot /\ \A s \in P!Seated(t) \ {w} : e[s] = f[s]
  <2>1. e[w] = f[w] + t.pot
    BY <1>2b
  <2>2. ASSUME NEW s \in P!Seated(t) \ {w} PROVE e[s] = f[s]
    <3>1. e[s] = f[s] + 0 /\ f[s] \in Int
      BY <1>2b, <1>4
    <3> HIDE DEF e, f
    <3> QED BY <3>1
  <2> QED BY <2>1, <2>2
<1>6. SumFunction(e) = SumFunction(f) + e[w] - f[w]
  <2> HIDE DEF e, f
  <2> QED BY <1>4, <1>5, SumChanges
<1>7. SumFunction(f) \in Int /\ f[w] \in Int
  <2> HIDE DEF f
  <2> QED BY <1>4, SumType
<1>8. SumFunction(e) = SumFunction(f) + t.pot
  <2> HIDE DEF e, f
  <2> QED BY <1>0, <1>5, <1>6, <1>7
<1>9. SumFunction([s \in P!Seated(u) |-> u.players[s].chips]) = Total(t)
  BY <1>2b, <1>8 DEF Total
<1> QED BY <1>2b, <1>3, <1>9, PaidInFull

\* What is left after equal shares goes to one of the winners.
LEMMA SplitEnds ==
  ASSUME NEW t, TableIsFair(t), Cardinality(P!InHandSeats(t)) # 1,
         NEW W \in SUBSET P!InHandSeats(t), W # {}
  PROVE  Ends(t, P!Split(t, W))
<1>0. IsTable(t) /\ t.pot \in Nat
  BY DEF TableIsFair, IsTable
<1>1. /\ W \in SUBSET P!Seated(t) /\ W \subseteq ToSet(t.hand)
      /\ IsFiniteSet(P!InHandSeats(t)) /\ IsFiniteSet(W)
  BY <1>0, StacksAreFinite, FS_Subset
<1>2. Cardinality(W) \in Nat \ {0}
  BY <1>1, FS_CardinalityType, FS_EmptySet
<1>3. Cardinality(P!InHandSeats(t)) > 1
  <2>1. Cardinality(W) <= Cardinality(P!InHandSeats(t)) /\ Cardinality(P!InHandSeats(t)) \in Nat
    BY <1>1, FS_Subset, FS_CardinalityType
  <2> QED BY <2>1, <1>2
<1> DEFINE n == Cardinality(W)
           q == t.pot \div n
           r == t.pot % n
           Ind == {i \in 1 .. Len(t.hand) : t.hand[i] \in W}
           first == t.hand[P!SelectInSeq(t.hand, LAMBDA s : s \in W)]
           share == [s \in W |-> q + (IF s = first THEN r ELSE 0)]
<1>4. q \in Nat /\ r \in Nat /\ q * n + r = t.pot
  <2>1. \A k \in Nat \ {0}, m \in Nat : /\ m \div k \in Nat /\ m % k \in Nat
                                         /\ (m \div k) * k + (m % k) = m
    OBVIOUS
  <2> QED BY <1>0, <1>2, <2>1
<1>5. first \in W
  <2>1. t.hand \in Seq(P!Seated(t))
    BY <1>0 DEF IsTable
  <2>2. Len(t.hand) \in Nat /\ DOMAIN t.hand = 1 .. Len(t.hand)
    BY <2>1, LenProperties
  <2>3. Ind # {} /\ Ind \in SUBSET Nat
    BY <1>1, <2>2 DEF ToSet
  <2>4. Min(Ind) \in Ind
    BY <2>3, LeastIndex
  <2>5. P!SelectInSeq(t.hand, LAMBDA s : s \in W) = IF Ind # {} THEN Min(Ind) ELSE 0
    BY SamePoker DEF P!SelectInSeq
  <2>6. P!SelectInSeq(t.hand, LAMBDA s : s \in W) = Min(Ind)
    BY <2>3, <2>5
  <2> QED BY <2>4, <2>6
<1>6. share \in [W -> Nat] /\ TRUE \in BOOLEAN
  <2> HIDE DEF first, q, r
  <2> QED BY <1>4
<1>7. PICK u : u = P!Pay(Showing(t, TRUE), share)
  OBVIOUS
<1>7a. IsPaid(t, u, W, share, TRUE)
  <2> HIDE DEF share
  <2> QED BY <1>0, <1>1, <1>6, <1>7, PayIsTable
<1>7b. /\ IsTable(u) /\ u.phase = "showdown" /\ u.reveal = TRUE /\ u.pot = 0 /\ u.toAct = None
       /\ P!Seated(u) = P!Seated(t)
       /\ P!InHandSeats(u) = P!InHandSeats(t)
       /\ \A s \in P!Seated(t) :
            u.players[s].chips = t.players[s].chips + (IF s \in W THEN share[s] ELSE 0)
  <2> HIDE DEF share
  <2> QED BY <1>7a DEF IsPaid
<1>8. u = P!Split(t, W)
  BY <1>7, SamePoker DEF P!Split, Showing
<1> DEFINE f == [s \in P!Seated(t) |-> t.players[s].chips]
           e == [s \in P!Seated(t) |-> u.players[s].chips]
<1>9. f \in [P!Seated(t) -> Int] /\ e \in [P!Seated(t) -> Int] /\ IsFiniteSet(P!Seated(t))
  BY <1>0, <1>7b, StacksAreFinite
<1>10. ASSUME NEW s \in P!Seated(t)
       PROVE  e[s] = f[s] + (IF s \in W THEN q ELSE 0) + (IF s = first THEN r ELSE 0)
  <2>1. e[s] = f[s] + (IF s \in W THEN share[s] ELSE 0) /\ f[s] \in Int
    BY <1>7b, <1>9
  <2> HIDE DEF e, f, q, r, first
  <2>2. CASE s \in W
    <3>1. share[s] = q + (IF s = first THEN r ELSE 0)
      BY <2>2
    <3> HIDE DEF share
    <3> QED BY <2>1, <2>2, <3>1, <1>4
  <2>3. CASE s \notin W
    BY <2>1, <2>3, <1>5
  <2> QED BY <2>2, <2>3
<1>11. SumFunction(e) = SumFunction(f) + q * n + r
  <2> HIDE DEF e, f, q, r, first
  <2>1. q \in Int /\ r \in Int
    BY <1>4
  <2>2. Shares(e, f, W, first, q, r)
    BY <1>9, <1>10 DEF Shares
  <2>3. W \in SUBSET P!Seated(t)
    BY <1>1
  <2> HIDE DEF n, share, Ind
  <2>4. SumFunction(e) = SumFunction(f) + q * Cardinality(W) + r
    BY <1>5, <1>9, <2>1, <2>2, <2>3, SumShares
  <2> QED BY <2>4 DEF n
<1>12. SumFunction(f) \in Int
  <2> HIDE DEF f
  <2> QED BY <1>9, SumType
<1>13. SumFunction(e) = SumFunction(f) + t.pot
  <2>1. q * n \in Int
    <3> HIDE DEF n, q
    <3> QED BY <1>4, <1>2 DEF n
  <2> HIDE DEF e, f, q, r, n
  <2> QED BY <1>0, <1>4, <1>11, <1>12, <2>1
<1>14. SumFunction([s \in P!Seated(u) |-> u.players[s].chips]) = Total(t)
  BY <1>7b, <1>13 DEF Total
<1> QED BY <1>3, <1>7b, <1>8, <1>14, PaidInFull

\* However the hands rank, a showdown pays out the pot (doShowdown).
LEMMA DoShowdownEnds ==
  ASSUME NEW t, TableIsFair(t), Cardinality(P!InHandSeats(t)) # 1, NEW u \in P!DoShowdown(t)
  PROVE  Ends(t, u)
<1>1. PICK W \in (SUBSET P!InHandSeats(t)) \ {{}} : u = P!Split(t, W)
  BY DEF P!DoShowdown
<1> QED BY <1>1, SplitEnds

\* The table on its next street, where the first to act is looked for from b.
OnNextStreet(t, b) ==
  LET next == [P!ResetRound(t) EXCEPT !.phase = P!NextStreet[t.phase]] IN
  [next EXCEPT !.toAct = P!FirstActor(next, b)]

\* Going to the next street neither makes nor loses chips (nextStreet).
LEMMA NextStreetIsFair ==
  ASSUME NEW t, TableIsFair(t), t.phase \in P!Streets, t.phase # "river", NEW b,
         NEW u, u = OnNextStreet(t, b)
  PROVE  /\ TableIsFair(u) /\ u.phase # t.phase /\ u.phase \in P!Streets
         /\ P!InHandSeats(u) = P!InHandSeats(t) /\ P!Seated(u) = P!Seated(t)
<1>1. PICK r : r = P!ResetRound(t)
  OBVIOUS
<1>2. PICK ph : ph = P!NextStreet[t.phase]
  OBVIOUS
<1>3. ph \in P!Streets /\ ph # t.phase
  BY <1>2 DEF P!NextStreet, P!Streets
<1>4. /\ IsTable(r) /\ SameStacks(t, r) /\ r.currentBet = 0
      /\ \A s \in ToSet(t.hand) : r.players[s].bet = 0
  BY <1>1, ResetRoundKeepsStacks DEF TableIsFair
<1>5. PICK next : next = [r EXCEPT !.phase = ph]
  OBVIOUS
<1>6. next = [phase |-> ph, players |-> r.players, hand |-> r.hand, pot |-> r.pot,
              currentBet |-> r.currentBet, minRaise |-> r.minRaise, toAct |-> r.toAct,
              button |-> r.button, reveal |-> r.reveal]
  BY <1>4, <1>5 DEF IsTable
<1>7. P!Seated(next) = P!Seated(r)
  BY <1>6 DEF P!Seated
<1>8. IsTable(next)
  BY <1>3, <1>4, <1>6, <1>7 DEF IsTable
<1>9. PICK a : a = P!FirstActor(next, b)
  OBVIOUS
<1>10. a \in ToSet(r.hand) \cup {None}
  BY <1>6, <1>8, <1>9, FirstActorIsInHand
<1>11. u = [next EXCEPT !.toAct = a]
  BY <1>1, <1>2, <1>5, <1>9 DEF OnNextStreet
<1>12. u = [phase |-> ph, players |-> r.players, hand |-> r.hand, pot |-> r.pot,
              currentBet |-> r.currentBet, minRaise |-> r.minRaise, toAct |-> a,
              button |-> r.button, reveal |-> r.reveal]
  BY <1>6, <1>11
<1>13. P!Seated(u) = P!Seated(r)
  BY <1>12 DEF P!Seated
<1>14. IsTable(u)
  BY <1>3, <1>4, <1>10, <1>12, <1>13 DEF IsTable
<1>15. SameStacks(t, u)
  BY <1>4, <1>12, <1>13 DEF SameStacks
<1>16. Total(u) = Total(t) /\ P!InHandSeats(u) = P!InHandSeats(t) /\ P!Seated(u) = P!Seated(t)
  BY <1>15, SameStacksTotal DEF TableIsFair, SameStacks
<1>17. Covered(u)
  <2> SUFFICES ASSUME NEW s \in ToSet(u.hand)
               PROVE  /\ u.players[s].bet <= u.currentBet
                      /\ u.players[s].allIn <=> u.players[s].chips = 0
    BY DEF Covered
  <2>1. s \in ToSet(t.hand) /\ s \in P!Seated(t)
    BY <1>15, StacksAreFinite DEF SameStacks, TableIsFair
  <2>2. u.players[s].bet = 0 /\ u.currentBet = 0
    BY <2>1, <1>4, <1>12
  <2>3. /\ u.players[s].allIn = t.players[s].allIn
        /\ u.players[s].chips = t.players[s].chips
    BY <2>1, <1>15 DEF SameStacks
  <2>4. t.players[s].allIn <=> t.players[s].chips = 0
    BY <2>1 DEF TableIsFair, Covered
  <2> QED BY <2>2, <2>3, <2>4
<1>18. u.phase # "showdown"
  BY <1>3, <1>12 DEF P!Streets
<1>19. TableIsFair(u)
  BY <1>3, <1>12, <1>14, <1>16, <1>17, <1>18 DEF TableIsFair
<1> QED BY <1>3, <1>12, <1>16, <1>19

\* A new betting round keeps the invariant (resetRound).
LEMMA ResetRoundIsFair ==
  ASSUME NEW t, TableIsFair(t), t.phase \in P!Streets
  PROVE  /\ TableIsFair(P!ResetRound(t))
         /\ P!InHandSeats(P!ResetRound(t)) = P!InHandSeats(t)
         /\ P!Seated(P!ResetRound(t)) = P!Seated(t)
<1>1. PICK r : r = P!ResetRound(t)
  OBVIOUS
<1>2. /\ IsTable(r) /\ SameStacks(t, r) /\ r.currentBet = 0 /\ r.phase = t.phase
      /\ \A s \in ToSet(t.hand) : r.players[s].bet = 0
  BY <1>1, ResetRoundKeepsStacks DEF TableIsFair
<1>3. Total(r) = Total(t) /\ P!InHandSeats(r) = P!InHandSeats(t) /\ P!Seated(r) = P!Seated(t)
  BY <1>2, SameStacksTotal DEF TableIsFair, SameStacks
<1>4. Covered(r)
  <2> SUFFICES ASSUME NEW s \in ToSet(r.hand)
               PROVE  /\ r.players[s].bet <= r.currentBet
                      /\ r.players[s].allIn <=> r.players[s].chips = 0
    BY DEF Covered
  <2>1. s \in ToSet(t.hand) /\ s \in P!Seated(t)
    BY <1>2, StacksAreFinite DEF SameStacks, TableIsFair
  <2>2. r.players[s].bet = 0 /\ r.currentBet = 0
    BY <2>1, <1>2
  <2>3. /\ r.players[s].allIn = t.players[s].allIn
        /\ r.players[s].chips = t.players[s].chips
    BY <2>1, <1>2 DEF SameStacks
  <2>4. t.players[s].allIn <=> t.players[s].chips = 0
    BY <2>1 DEF TableIsFair, Covered
  <2> QED BY <2>2, <2>3, <2>4
<1>5. r.phase # "showdown"
  BY <1>2 DEF P!Streets
<1> QED BY <1>1, <1>2, <1>3, <1>4, <1>5 DEF TableIsFair

\* progress, once every player of the hand has answered.
LEMMA ProgressIsFair ==
  ASSUME NEW t, TableIsFair(t), t.phase \in P!Streets, Cardinality(P!InHandSeats(t)) # 1,
         NEW u \in P!Progress(t)
  PROVE  /\ TableIsFair(u)
         /\ P!InHandSeats(u) = P!InHandSeats(t) /\ P!Seated(u) = P!Seated(t)
<1>1. CASE t.phase = "river"
  <2>1. u \in P!DoShowdown(t)
    BY <1>1 DEF P!Progress
  <2> QED BY <2>1, DoShowdownEnds DEF Ends
<1>2. CASE u \in P!DoShowdown(P!ResetRound(t))
  <2>1. PICK r : r = P!ResetRound(t)
    OBVIOUS
  <2>2. TableIsFair(r) /\ P!InHandSeats(r) = P!InHandSeats(t) /\ P!Seated(r) = P!Seated(t)
    BY <2>1, ResetRoundIsFair
  <2>3. u \in P!DoShowdown(r)
    BY <1>2, <2>1
  <2>4. Ends(r, u)
    BY <2>2, <2>3, DoShowdownEnds
  <2> QED BY <2>2, <2>4 DEF Ends
<1>3. CASE t.phase # "river" /\ u \notin P!DoShowdown(P!ResetRound(t))
  <2>1. u = OnNextStreet(t, P!After(t.hand, t.button, 1))
    BY <1>3 DEF P!Progress, OnNextStreet
  <2> QED BY <1>3, <2>1, NextStreetIsFair
<1> QED BY <1>1, <1>2, <1>3

\* afterAction, on a table where a bet has been made: a street goes on while
\* somebody needs to act.
LEMMA AfterActionIsFair ==
  ASSUME NEW t, TableIsFair(t), t.phase \in P!Streets, NEW u \in P!AfterAction(t)
  PROVE  /\ TableIsFair(u)
         /\ P!InHandSeats(u) = P!InHandSeats(t) /\ P!Seated(u) = P!Seated(t)
         /\ u.phase # t.phase /\ Cardinality(P!InHandSeats(u)) > 1
              => \A s \in ToSet(t.hand) : ~P!NeedsToAct(t, s)
<1> DEFINE next == P!NextActor(t, t.toAct)
<1>0. IsTable(t)
  BY DEF TableIsFair
<1>1. CASE Cardinality(P!InHandSeats(t)) = 1
  <2>1. PICK w \in P!InHandSeats(t) : u = P!AwardFold(t, w)
    BY <1>1, SamePoker DEF P!AfterAction
  <2>2. w \in P!Seated(t)
    BY <1>0, StacksAreFinite
  <2>3. Ends(t, u)
    BY <2>1, <2>2, AwardFoldEnds
  <2> QED BY <1>1, <2>3 DEF Ends
<1>2. CASE Cardinality(P!InHandSeats(t)) # 1 /\ next # None
  <2>1. u = [t EXCEPT !.toAct = next]
    BY <1>2, SamePoker DEF P!AfterAction
  <2>2. next \in ToSet(t.hand)
    BY <1>0, <1>2, NextActorNeedsToAct
  <2>3. u = [phase |-> t.phase, players |-> t.players, hand |-> t.hand, pot |-> t.pot,
             currentBet |-> t.currentBet, minRaise |-> t.minRaise, toAct |-> next,
             button |-> t.button, reveal |-> t.reveal]
    <3> HIDE DEF next
    <3> QED BY <1>0, <2>1 DEF IsTable
  <2> HIDE DEF next
  <2>4. P!Seated(u) = P!Seated(t) /\ SameStacks(t, u)
    BY <2>3 DEF P!Seated, SameStacks
  <2>5. IsTable(u)
    BY <1>0, <2>2, <2>3, <2>4 DEF IsTable
  <2>6. Total(u) = Total(t) /\ P!InHandSeats(u) = P!InHandSeats(t)
    BY <1>0, <2>4, SameStacksTotal
  <2>7. Covered(u) /\ u.phase # "showdown"
    <3>1. Covered(t)
      BY DEF TableIsFair
    <3> QED BY <2>3, <3>1 DEF Covered, P!Streets
  <2>8. TableIsFair(u)
    BY <2>3, <2>4, <2>5, <2>6, <2>7 DEF TableIsFair
  <2> QED BY <2>3, <2>4, <2>6, <2>8
<1>3. CASE Cardinality(P!InHandSeats(t)) # 1 /\ next = None
  <2>1. u \in P!Progress(t)
    BY <1>3, SamePoker DEF P!AfterAction
  <2>2. \A s \in ToSet(t.hand) : ~P!NeedsToAct(t, s)
    BY <1>0, <1>3, NextActorNeedsToAct
  <2>3. TableIsFair(u) /\ P!InHandSeats(u) = P!InHandSeats(t) /\ P!Seated(u) = P!Seated(t)
    BY <1>3, <2>1, ProgressIsFair
  <2> QED BY <2>2, <2>3
<1> QED BY <1>1, <1>2, <1>3
-----------------------------------------------------------------------------
(* Poker: bets.                                                            *)

\* Table t where seat s has the player pr, and the pot is pot.
Replaced(t, s, pr, pot) ==
  [phase |-> t.phase, players |-> [t.players EXCEPT ![s] = pr], hand |-> t.hand, pot |-> pot,
   currentBet |-> t.currentBet, minRaise |-> t.minRaise, toAct |-> t.toAct,
   button |-> t.button, reveal |-> t.reveal]

\* All of table u but its players and its pot is that of t.
SameButPlayers(t, u) ==
  /\ u.phase = t.phase /\ u.hand = t.hand /\ u.currentBet = t.currentBet
  /\ u.toAct = t.toAct /\ u.reveal = t.reveal /\ P!Seated(u) = P!Seated(t)

\* What one player has less, the pot has more.
LEMMA PlayerPays ==
  ASSUME NEW t, IsTable(t), NEW s \in P!Seated(t), NEW pr \in PlayerRecord, NEW pot \in Nat,
         pr.chips + pot = t.players[s].chips + t.pot,
         NEW u, u = Replaced(t, s, pr, pot)
  PROVE  /\ IsTable(u) /\ Total(u) = Total(t) /\ SameButPlayers(t, u)
         /\ u.players[s] = pr /\ u.pot = pot
         /\ \A x \in P!Seated(t) \ {s} : u.players[x] = t.players[x]
<1>1. t.players \in [P!Seated(t) -> PlayerRecord]
  BY DEF IsTable
<1> DEFINE p == [t.players EXCEPT ![s] = pr]
<1>2. /\ p \in [P!Seated(t) -> PlayerRecord] /\ p[s] = pr
      /\ \A x \in P!Seated(t) \ {s} : p[x] = t.players[x]
  BY <1>1
<1> HIDE DEF p
<1>3. u = [phase |-> t.phase, players |-> p, hand |-> t.hand, pot |-> pot,
           currentBet |-> t.currentBet, minRaise |-> t.minRaise, toAct |-> t.toAct,
           button |-> t.button, reveal |-> t.reveal]
  BY DEF Replaced, p
<1>4. P!Seated(u) = P!Seated(t) /\ u.players = p
  BY <1>2, <1>3 DEF P!Seated
<1>5. IsTable(u)
  BY <1>2, <1>3, <1>4 DEF IsTable
<1>6. SameButPlayers(t, u)
  BY <1>3, <1>4 DEF SameButPlayers
<1> DEFINE f == [x \in P!Seated(t) |-> t.players[x].chips]
           e == [x \in P!Seated(t) |-> u.players[x].chips]
<1>7. f \in [P!Seated(t) -> Int] /\ e \in [P!Seated(t) -> Int] /\ IsFiniteSet(P!Seated(t))
  BY <1>4, <1>5, StacksAreFinite
<1>8. e[s] + pot = f[s] + t.pot /\ \A x \in P!Seated(t) \ {s} : e[x] = f[x]
  BY <1>2, <1>4
<1>9. SumFunction(e) = SumFunction(f) + e[s] - f[s]
  <2> HIDE DEF e, f
  <2> QED BY <1>7, <1>8, SumChanges
<1>10. SumFunction(f) \in Int /\ f[s] \in Int /\ e[s] \in Int /\ t.pot \in Int
  <2>1. t.pot \in Int
    BY DEF IsTable
  <2> HIDE DEF e, f
  <2> QED BY <1>7, <2>1, SumType
<1>11. SumFunction(e) + pot = SumFunction(f) + t.pot
  <2> HIDE DEF e, f
  <2> QED BY <1>8, <1>9, <1>10
<1>12. Total(u) = Total(t)
  BY <1>3, <1>4, <1>11 DEF Total
<1> QED BY <1>2, <1>3, <1>4, <1>5, <1>6, <1>12

\* At v only seat s of t has done something, though others may have to act again.
OthersKeep(t, v, s) ==
  /\ v.phase = t.phase /\ v.hand = t.hand /\ P!Seated(v) = P!Seated(t)
  /\ \A x \in ToSet(t.hand) \ {s} :
       /\ v.players[x].chips = t.players[x].chips /\ v.players[x].folded = t.players[x].folded
       /\ v.players[x].allIn = t.players[x].allIn /\ v.players[x].bet = t.players[x].bet
       /\ \/ v.players[x].acted = t.players[x].acted /\ v.currentBet = t.currentBet
          \/ P!CanActNow(v, x) => ~v.players[x].acted

\* What StreetsEndAnswered says of a step from table t to table u.
Answered(t, u) ==
  t.phase \in P!Streets /\ u.phase # t.phase /\ Cardinality(P!InHandSeats(u)) > 1
    => \A s \in P!InHandSeats(t) \ {t.toAct} :
         \/ t.players[s].allIn
         \/ t.players[s].acted /\ t.players[s].bet = t.currentBet

\* An action of the seat to act, and what follows from it, keep the invariant.
LEMMA ActionIsFair ==
  ASSUME NEW t, TableIsFair(t), t.phase \in P!Streets,
         NEW v, TableIsFair(v), OthersKeep(t, v, t.toAct), NEW u \in P!AfterAction(v)
  PROVE  TableIsFair(u) /\ Answered(t, u)
<1>1. v.phase \in P!Streets /\ v.phase = t.phase
  BY DEF OthersKeep
<1>2. /\ TableIsFair(u)
      /\ u.phase # v.phase /\ Cardinality(P!InHandSeats(u)) > 1
           => \A s \in ToSet(v.hand) : ~P!NeedsToAct(v, s)
  BY <1>1, AfterActionIsFair
<1>3. ASSUME u.phase # t.phase, Cardinality(P!InHandSeats(u)) > 1,
             NEW s \in P!InHandSeats(t) \ {t.toAct}, ~t.players[s].allIn
      PROVE  t.players[s].acted /\ t.players[s].bet = t.currentBet
  <2>1. s \in ToSet(t.hand) \ {t.toAct} /\ s \in P!Seated(t) /\ ~t.players[s].folded
    BY <1>3, StacksAreFinite DEF P!InHandSeats, TableIsFair
  <2>2. s \in ToSet(v.hand) /\ ~P!NeedsToAct(v, s)
    BY <1>1, <1>2, <1>3, <2>1 DEF OthersKeep
  <2>3. /\ v.players[s].chips = t.players[s].chips /\ v.players[s].folded = t.players[s].folded
        /\ v.players[s].allIn = t.players[s].allIn /\ v.players[s].bet = t.players[s].bet
        /\ \/ v.players[s].acted = t.players[s].acted /\ v.currentBet = t.currentBet
           \/ P!CanActNow(v, s) => ~v.players[s].acted
    BY <2>1 DEF OthersKeep
  <2>4. t.players[s] \in PlayerRecord /\ t.currentBet \in Nat
    BY <2>1 DEF TableIsFair, IsTable
  <2>5. t.players[s].bet <= t.currentBet /\ (t.players[s].allIn <=> t.players[s].chips = 0)
    BY <2>1 DEF TableIsFair, Covered
  <2>6. P!CanActNow(v, s)
    <3>1. v.players[s].chips > 0
      BY <1>3, <2>3, <2>4, <2>5 DEF PlayerRecord
    <3> QED BY <1>3, <2>1, <2>2, <2>3, <3>1, SamePoker DEF P!CanActNow, P!InHand
  <2>7. v.players[s].acted /\ ~(v.players[s].bet < v.currentBet)
    BY <2>2, <2>6 DEF P!NeedsToAct
  <2>8. t.players[s].acted /\ v.currentBet = t.currentBet
    BY <2>3, <2>6, <2>7
  <2> QED BY <2>3, <2>4, <2>5, <2>7, <2>8 DEF PlayerRecord
<1> QED BY <1>1, <1>2, <1>3 DEF Answered

-----------------------------------------------------------------------------
(* Poker: the actions of a player.                                         *)

\* Who may bet is in the hand, has chips and has bet no more than is asked for.
LEMMA MayBetInHand ==
  ASSUME TableIsFair(state), NEW s \in ToSet(SEATS), P!MayBet(s)
  PROVE  /\ s = state.toAct /\ s \in ToSet(state.hand) /\ s \in P!Seated(state)
         /\ state.phase \in P!Streets /\ IsTable(state) /\ state.players[s] \in PlayerRecord
         /\ state.players[s].bet <= state.currentBet /\ state.currentBet \in Nat
         /\ ~state.players[s].allIn /\ state.players[s].chips > 0
<1>1. IsTable(state)
  BY DEF TableIsFair
<1>2. s = state.toAct /\ s # None /\ state.phase \in P!Streets /\ ~state.players[s].allIn
  BY PokerAssumption DEF P!MayBet
<1>3. s \in ToSet(state.hand) /\ s \in P!Seated(state)
  BY <1>1, <1>2, StacksAreFinite DEF IsTable
<1>4. state.players[s] \in PlayerRecord /\ state.currentBet \in Nat
  BY <1>1, <1>3 DEF IsTable
<1>5. /\ state.players[s].bet <= state.currentBet
      /\ state.players[s].allIn <=> state.players[s].chips = 0
  BY <1>2, <1>3 DEF TableIsFair, Covered
<1>6. state.players[s].chips > 0
  BY <1>2, <1>4, <1>5 DEF PlayerRecord
<1> QED BY <1>1, <1>2, <1>3, <1>4, <1>5, <1>6

\* When the bet of s is covered, the table is as before.
LEMMA ChangeIsFair ==
  ASSUME TableIsFair(state), NEW s \in ToSet(SEATS), P!MayBet(s),
         NEW pr \in PlayerRecord, NEW pot \in Nat,
         pr.chips + pot = state.players[s].chips + state.pot,
         pr.bet <= state.currentBet, pr.allIn <=> pr.chips = 0,
         NEW v, v = Replaced(state, s, pr, pot)
  PROVE  TableIsFair(v) /\ OthersKeep(state, v, state.toAct)
<1>1. /\ s = state.toAct /\ s \in ToSet(state.hand) /\ s \in P!Seated(state)
      /\ state.phase \in P!Streets /\ IsTable(state)
  BY MayBetInHand
<1>2. /\ IsTable(v) /\ Total(v) = Total(state) /\ SameButPlayers(state, v)
      /\ v.players[s] = pr
      /\ \A x \in P!Seated(state) \ {s} : v.players[x] = state.players[x]
  BY <1>1, PlayerPays
<1>3. Covered(state) /\ Total(state) = START * Cardinality(P!Seated(state))
  BY <1>1 DEF TableIsFair
<1>4. Covered(v)
  <2> SUFFICES ASSUME NEW x \in ToSet(v.hand)
               PROVE  /\ v.players[x].bet <= v.currentBet
                      /\ v.players[x].allIn <=> v.players[x].chips = 0
    BY DEF Covered
  <2>1. x \in ToSet(state.hand) /\ x \in P!Seated(state) /\ v.currentBet = state.currentBet
    BY <1>1, <1>2, StacksAreFinite DEF SameButPlayers
  <2>2. CASE x = s
    BY <1>2, <2>1, <2>2
  <2>3. CASE x # s
    <3>1. v.players[x] = state.players[x]
      BY <1>2, <2>1, <2>3
    <3> QED BY <1>3, <2>1, <3>1 DEF Covered
  <2> QED BY <2>2, <2>3
<1>5. v.phase # "showdown" /\ v.phase = state.phase /\ v.hand = state.hand
      /\ v.currentBet = state.currentBet /\ P!Seated(v) = P!Seated(state)
  BY <1>1, <1>2 DEF SameButPlayers, P!Streets
<1>6. TableIsFair(v)
  BY <1>1, <1>2, <1>3, <1>4, <1>5 DEF TableIsFair
<1>7. ToSet(state.hand) \subseteq P!Seated(state)
  BY <1>1, StacksAreFinite
<1>8. OthersKeep(state, v, state.toAct)
  BY <1>1, <1>2, <1>5, <1>7 DEF OthersKeep
<1> QED BY <1>6, <1>8

\* A fold (applyAction, case fold).
LEMMA FoldStep ==
  ASSUME TableIsFair(state), NEW s \in ToSet(SEATS), P!Fold(s)
  PROVE  TableIsFair(state') /\ Answered(state, state')
<1>0. P!MayBet(s)
  BY DEF P!Fold
<1>1. /\ s \in P!Seated(state) /\ state.phase \in P!Streets /\ IsTable(state)
      /\ state.players[s] \in PlayerRecord /\ state.players[s].bet <= state.currentBet
      /\ ~state.players[s].allIn /\ state.players[s].chips > 0
  BY <1>0, MayBetInHand
<1>2. PICK v : v = [state EXCEPT !.players[s].folded = TRUE, !.players[s].acted = TRUE]
  OBVIOUS
<1>3. PICK pr : pr = [state.players[s] EXCEPT !.folded = TRUE, !.acted = TRUE]
  OBVIOUS
<1>4. v = Replaced(state, s, pr, state.pot)
  <2>1. state.players \in [P!Seated(state) -> PlayerRecord]
    BY <1>1 DEF IsTable
  <2>2. v.players = [state.players EXCEPT ![s].folded = TRUE, ![s].acted = TRUE]
    BY <1>1, <1>2 DEF IsTable
  <2>3. v.players = [state.players EXCEPT ![s] = pr]
    BY <1>1, <1>3, <2>1, <2>2
  <2>4. v = [phase |-> state.phase, players |-> v.players, hand |-> state.hand,
             pot |-> state.pot, currentBet |-> state.currentBet,
             minRaise |-> state.minRaise, toAct |-> state.toAct,
             button |-> state.button, reveal |-> state.reveal]
    BY <1>1, <1>2 DEF IsTable
  <2> QED BY <2>3, <2>4 DEF Replaced
<1>5. /\ pr \in PlayerRecord /\ state.pot \in Nat
      /\ pr.chips + state.pot = state.players[s].chips + state.pot
      /\ pr.bet <= state.currentBet /\ (pr.allIn <=> pr.chips = 0)
  <2>1. pr \in PlayerRecord /\ state.pot \in Nat
    BY <1>1, <1>3 DEF PlayerRecord, IsTable
  <2>2. /\ pr.chips = state.players[s].chips /\ pr.bet = state.players[s].bet
        /\ pr.allIn = state.players[s].allIn
    BY <1>1, <1>3 DEF PlayerRecord
  <2>3. ~pr.allIn /\ pr.chips # 0
    BY <1>1, <2>2
  <2> QED BY <1>1, <2>1, <2>2, <2>3
<1>6. TableIsFair(v) /\ OthersKeep(state, v, state.toAct)
  BY <1>0, <1>4, <1>5, ChangeIsFair
<1>7. state' \in P!AfterAction(v)
  BY <1>2 DEF P!Fold
<1> QED BY <1>1, <1>6, <1>7, ActionIsFair

\* A check (applyAction, case check).
LEMMA CheckStep ==
  ASSUME TableIsFair(state), NEW s \in ToSet(SEATS), P!Check(s)
  PROVE  TableIsFair(state') /\ Answered(state, state')
<1>0. P!MayBet(s)
  BY DEF P!Check
<1>1. /\ s \in P!Seated(state) /\ state.phase \in P!Streets /\ IsTable(state)
      /\ state.players[s] \in PlayerRecord /\ state.players[s].bet <= state.currentBet
      /\ ~state.players[s].allIn /\ state.players[s].chips > 0
  BY <1>0, MayBetInHand
<1>2. PICK v : v = [state EXCEPT !.players[s].acted = TRUE]
  OBVIOUS
<1>3. PICK pr : pr = [state.players[s] EXCEPT !.acted = TRUE]
  OBVIOUS
<1>4. v = Replaced(state, s, pr, state.pot)
  <2>1. state.players \in [P!Seated(state) -> PlayerRecord]
    BY <1>1 DEF IsTable
  <2>2. v.players = [state.players EXCEPT ![s].acted = TRUE]
    BY <1>1, <1>2 DEF IsTable
  <2>3. v.players = [state.players EXCEPT ![s] = pr]
    BY <1>1, <1>3, <2>1, <2>2
  <2>4. v = [phase |-> state.phase, players |-> v.players, hand |-> state.hand,
             pot |-> state.pot, currentBet |-> state.currentBet,
             minRaise |-> state.minRaise, toAct |-> state.toAct,
             button |-> state.button, reveal |-> state.reveal]
    BY <1>1, <1>2 DEF IsTable
  <2> QED BY <2>3, <2>4 DEF Replaced
<1>5. /\ pr \in PlayerRecord /\ state.pot \in Nat
      /\ pr.chips + state.pot = state.players[s].chips + state.pot
      /\ pr.bet <= state.currentBet /\ (pr.allIn <=> pr.chips = 0)
  <2>1. pr \in PlayerRecord /\ state.pot \in Nat
    BY <1>1, <1>3 DEF PlayerRecord, IsTable
  <2>2. /\ pr.chips = state.players[s].chips /\ pr.bet = state.players[s].bet
        /\ pr.allIn = state.players[s].allIn
    BY <1>1, <1>3 DEF PlayerRecord
  <2>3. ~pr.allIn /\ pr.chips # 0
    BY <1>1, <2>2
  <2> QED BY <1>1, <2>1, <2>2, <2>3
<1>6. TableIsFair(v) /\ OthersKeep(state, v, state.toAct)
  BY <1>0, <1>4, <1>5, ChangeIsFair
<1>7. state' \in P!AfterAction(v)
  BY <1>2 DEF P!Check
<1> QED BY <1>1, <1>6, <1>7, ActionIsFair

\* What a player bets goes from its chips to the pot, and a last chip makes it
\* all-in (bet).
LEMMA BetPays ==
  ASSUME TableIsFair(state), NEW s \in ToSet(SEATS), P!MayBet(s),
         NEW amount \in Nat, amount <= state.players[s].chips,
         NEW v, v = P!Bet(s, amount)
  PROVE  /\ IsTable(v) /\ Total(v) = Total(state) /\ SameButPlayers(state, v)
         /\ v.players[s].bet = state.players[s].bet + amount
         /\ v.players[s].allIn <=> v.players[s].chips = 0
         /\ \A x \in P!Seated(state) \ {s} : v.players[x] = state.players[x]
<1>1. /\ s \in P!Seated(state) /\ IsTable(state) /\ state.players[s] \in PlayerRecord
  BY MayBetInHand
<1>2. PICK pr : pr = [state.players[s] EXCEPT !.chips = @ - amount, !.bet = @ + amount,
                        !.allIn = (state.players[s].chips = amount), !.acted = TRUE]
  OBVIOUS
<1>3. PICK pot : pot = state.pot + amount
  OBVIOUS
<1>4. v = Replaced(state, s, pr, pot)
  <2>1. state.players \in [P!Seated(state) -> PlayerRecord]
    BY <1>1 DEF IsTable
  <2>0. v = [state EXCEPT !.players[s].chips = @ - amount,
                !.players[s].bet = @ + amount,
                !.players[s].allIn = (state.players[s].chips = amount),
                !.players[s].acted = TRUE,
                !.pot = @ + amount]
    BY DEF P!Bet
  <2>2. PICK c, b, all : /\ c = state.players[s].chips - amount
                         /\ b = state.players[s].bet + amount
                         /\ all = (state.players[s].chips = amount)
    OBVIOUS
  <2>5. v = [state EXCEPT !.players[s].chips = c, !.players[s].bet = b,
                          !.players[s].allIn = all, !.players[s].acted = TRUE,
                          !.pot = pot]
    BY <1>1, <1>3, <2>0, <2>1, <2>2 DEF IsTable, PlayerRecord
  <2>6. v.players = [state.players EXCEPT ![s].chips = c, ![s].bet = b,
                                          ![s].allIn = all, ![s].acted = TRUE]
    BY <1>1, <2>5 DEF IsTable
  <2>7. pr = [state.players[s] EXCEPT !.chips = c, !.bet = b, !.allIn = all, !.acted = TRUE]
    BY <1>2, <2>2
  <2>3. v.players = [state.players EXCEPT ![s] = pr]
    BY <1>1, <2>1, <2>6, <2>7
  <2>4. v = [phase |-> state.phase, players |-> v.players, hand |-> state.hand,
             pot |-> pot, currentBet |-> state.currentBet,
             minRaise |-> state.minRaise, toAct |-> state.toAct,
             button |-> state.button, reveal |-> state.reveal]
    BY <1>1, <1>3, <2>0 DEF IsTable
  <2> QED BY <2>3, <2>4 DEF Replaced
<1>5. /\ pr.chips = state.players[s].chips - amount /\ pr.bet = state.players[s].bet + amount
      /\ pr.allIn = (state.players[s].chips = amount)
      /\ pr.folded = state.players[s].folded /\ pr.acted = TRUE
  BY <1>1, <1>2 DEF PlayerRecord
<1>6. state.players[s].chips \in Nat /\ state.players[s].bet \in Nat /\ state.pot \in Nat
  BY <1>1 DEF PlayerRecord, IsTable
<1>7. pr \in PlayerRecord
  <2>1. state.players[s].chips - amount \in Nat /\ state.players[s].bet + amount \in Nat
    BY <1>6
  <2>2. (state.players[s].chips = amount) \in BOOLEAN
    OBVIOUS
  <2> QED BY <1>1, <1>2, <2>1, <2>2 DEF PlayerRecord
<1>8. pot \in Nat /\ pr.chips + pot = state.players[s].chips + state.pot
  BY <1>3, <1>5, <1>6
<1>9. pr.allIn <=> pr.chips = 0
  <2>1. (state.players[s].chips = amount) <=> pr.chips = 0
    BY <1>5, <1>6
  <2> QED BY <1>5, <2>1
<1>10. /\ IsTable(v) /\ Total(v) = Total(state) /\ SameButPlayers(state, v)
       /\ v.players[s] = pr
       /\ \A x \in P!Seated(state) \ {s} : v.players[x] = state.players[x]
  BY <1>1, <1>4, <1>7, <1>8, PlayerPays
<1> QED BY <1>5, <1>9, <1>10

\* When the bet of s does not exceed that of the table.
LEMMA BetIsFair ==
  ASSUME TableIsFair(state), NEW s \in ToSet(SEATS), P!MayBet(s),
         NEW amount \in Nat, amount <= state.players[s].chips,
         state.players[s].bet + amount <= state.currentBet,
         NEW u \in P!AfterAction(P!Bet(s, amount))
  PROVE  TableIsFair(u) /\ Answered(state, u)
<1>1. PICK v : v = P!Bet(s, amount)
  OBVIOUS
<1>2. /\ IsTable(v) /\ Total(v) = Total(state) /\ SameButPlayers(state, v)
      /\ v.players[s].bet = state.players[s].bet + amount
      /\ v.players[s].allIn <=> v.players[s].chips = 0
      /\ \A x \in P!Seated(state) \ {s} : v.players[x] = state.players[x]
  BY <1>1, BetPays
<1>3. /\ s = state.toAct /\ s \in ToSet(state.hand) /\ s \in P!Seated(state)
      /\ state.phase \in P!Streets /\ IsTable(state)
  BY MayBetInHand
<1>4. Covered(state) /\ Total(state) = START * Cardinality(P!Seated(state))
  BY <1>3 DEF TableIsFair
<1>5. ToSet(state.hand) \subseteq P!Seated(state)
  BY <1>3, StacksAreFinite
<1>6. v.phase # "showdown" /\ v.phase = state.phase /\ v.hand = state.hand
      /\ v.currentBet = state.currentBet /\ P!Seated(v) = P!Seated(state)
  BY <1>2, <1>3 DEF SameButPlayers, P!Streets
<1>7. Covered(v)
  <2> SUFFICES ASSUME NEW x \in ToSet(state.hand)
               PROVE  /\ v.players[x].bet <= state.currentBet
                      /\ v.players[x].allIn <=> v.players[x].chips = 0
    BY <1>6 DEF Covered
  <2>2. CASE x = s
    BY <1>2, <2>2
  <2>3. CASE x # s
    <3>1. v.players[x] = state.players[x]
      BY <1>2, <1>5, <2>3
    <3> QED BY <1>4, <3>1 DEF Covered
  <2> QED BY <2>2, <2>3
<1>8. TableIsFair(v)
  BY <1>2, <1>3, <1>4, <1>6, <1>7 DEF TableIsFair
<1>9. OthersKeep(state, v, state.toAct)
  BY <1>2, <1>3, <1>5, <1>6 DEF OthersKeep
<1> QED BY <1>1, <1>3, <1>8, <1>9, ActionIsFair

\* A call, of all that is asked for or of the last chips (applyAction, case
\* call).
LEMMA CallStep ==
  ASSUME TableIsFair(state), NEW s \in ToSet(SEATS), P!Call(s)
  PROVE  TableIsFair(state') /\ Answered(state, state')
<1> DEFINE need == state.currentBet - state.players[s].bet
           chips == state.players[s].chips
<1>1. P!MayBet(s) /\ need > 0 /\ state' \in P!AfterAction(P!Bet(s, Min({need, chips})))
  BY SamePoker DEF P!Call
<1>2. need \in Nat /\ chips \in Nat /\ state.players[s].bet \in Nat /\ state.currentBet \in Nat
  BY <1>1, MayBetInHand DEF PlayerRecord
<1>3. Min({need, chips}) \in {need, chips} /\ \A n \in {need, chips} : Min({need, chips}) <= n
  <2> HIDE DEF need, chips
  <2> QED BY <1>2 DEF Min
<1>4. PICK amount : amount = Min({need, chips})
  OBVIOUS
<1>5. amount \in Nat /\ amount <= chips /\ state.players[s].bet + amount <= state.currentBet
  BY <1>2, <1>3, <1>4
<1>6. state' \in P!AfterAction(P!Bet(s, amount))
  BY <1>1, <1>4
<1> QED BY <1>1, <1>5, <1>6, BetIsFair

\* The bet is raised to target: the others who can must act again.
Raised(v, s, target, minRaise) ==
  [v EXCEPT !.minRaise = minRaise,
            !.currentBet = target,
            !.players = [x \in P!Seated(v) |->
                           IF x # s /\ P!CanActNow(v, x)
                           THEN [v.players[x] EXCEPT !.acted = FALSE]
                           ELSE v.players[x]]]

\* A bet over the current one raises it, and everybody who can must answer.
LEMMA RaisedIsFair ==
  ASSUME TableIsFair(state), NEW s \in ToSet(SEATS), P!MayBet(s),
         NEW amount \in Nat, amount <= state.players[s].chips,
         NEW target \in Nat, target = state.players[s].bet + amount, target > state.currentBet,
         NEW minRaise \in Nat,
         NEW u \in P!AfterAction(Raised(P!Bet(s, amount), s, target, minRaise))
  PROVE  TableIsFair(u) /\ Answered(state, u)
<1>1. PICK v : v = P!Bet(s, amount)
  OBVIOUS
<1>2. /\ IsTable(v) /\ Total(v) = Total(state) /\ SameButPlayers(state, v)
      /\ v.players[s].bet = state.players[s].bet + amount
      /\ v.players[s].allIn <=> v.players[s].chips = 0
      /\ \A x \in P!Seated(state) \ {s} : v.players[x] = state.players[x]
  BY <1>1, BetPays
<1>3. /\ s = state.toAct /\ s \in ToSet(state.hand) /\ s \in P!Seated(state)
      /\ state.phase \in P!Streets /\ IsTable(state) /\ state.currentBet \in Nat
  BY MayBetInHand
<1>4. Covered(state) /\ Total(state) = START * Cardinality(P!Seated(state))
  BY <1>3 DEF TableIsFair
<1>5. ToSet(state.hand) \subseteq P!Seated(state)
  BY <1>3, StacksAreFinite
<1>6. v.phase = state.phase /\ v.hand = state.hand
      /\ v.currentBet = state.currentBet /\ P!Seated(v) = P!Seated(state)
  BY <1>2 DEF SameButPlayers
<1>7. PICK w : w = Raised(v, s, target, minRaise)
  OBVIOUS
<1> DEFINE p == [x \in P!Seated(v) |-> IF x # s /\ P!CanActNow(v, x)
                                       THEN [v.players[x] EXCEPT !.acted = FALSE]
                                       ELSE v.players[x]]
<1>8. ASSUME NEW x \in P!Seated(v)
      PROVE  /\ p[x] \in PlayerRecord
             /\ p[x].chips = v.players[x].chips /\ p[x].folded = v.players[x].folded
             /\ p[x].allIn = v.players[x].allIn /\ p[x].bet = v.players[x].bet
             /\ x # s /\ P!CanActNow(v, x) => ~p[x].acted
  <2>1. v.players[x] \in PlayerRecord
    BY <1>2 DEF IsTable
  <2>2. CASE x # s /\ P!CanActNow(v, x)
    <3>1. p[x] = [v.players[x] EXCEPT !.acted = FALSE]
      BY <2>2
    <3>2. /\ p[x] \in PlayerRecord
          /\ p[x].chips = v.players[x].chips /\ p[x].folded = v.players[x].folded
          /\ p[x].allIn = v.players[x].allIn /\ p[x].bet = v.players[x].bet
          /\ p[x].acted = FALSE
      <4> HIDE DEF p
      <4> QED BY <2>1, <3>1 DEF PlayerRecord
    <3> HIDE DEF p
    <3> QED BY <3>2
  <2>3. CASE ~(x # s /\ P!CanActNow(v, x))
    <3>1. p[x] = v.players[x]
      BY <2>3
    <3> HIDE DEF p
    <3> QED BY <2>1, <2>3, <3>1
  <2> QED BY <2>2, <2>3
<1>9. p \in [P!Seated(v) -> PlayerRecord]
  BY <1>8
<1>10. w = [v EXCEPT !.minRaise = minRaise, !.currentBet = target, !.players = p]
  BY <1>7 DEF Raised
<1> HIDE DEF p
<1>11. w = [phase |-> v.phase, players |-> p, hand |-> v.hand, pot |-> v.pot,
            currentBet |-> target, minRaise |-> minRaise, toAct |-> v.toAct,
            button |-> v.button, reveal |-> v.reveal]
  BY <1>2, <1>10 DEF IsTable
<1>12. P!Seated(w) = P!Seated(v) /\ w.players = p
  BY <1>9, <1>11 DEF P!Seated
<1>13. IsTable(w)
  BY <1>2, <1>9, <1>11, <1>12 DEF IsTable
<1>14. SameStacks(v, w)
  BY <1>8, <1>11, <1>12 DEF SameStacks
<1>15. Total(w) = Total(v)
  BY <1>2, <1>14, SameStacksTotal
<1>16. Covered(w)
  <2> SUFFICES ASSUME NEW x \in ToSet(state.hand)
               PROVE  /\ w.players[x].bet <= target
                      /\ w.players[x].allIn <=> w.players[x].chips = 0
    BY <1>6, <1>11 DEF Covered
  <2>1. /\ w.players[x].bet = v.players[x].bet /\ w.players[x].allIn = v.players[x].allIn
        /\ w.players[x].chips = v.players[x].chips
    BY <1>5, <1>6, <1>8, <1>12
  <2>2. CASE x = s
    BY <1>2, <2>1, <2>2
  <2>3. CASE x # s
    <3>1. v.players[x] = state.players[x]
      BY <1>2, <1>5, <2>3
    <3>2. state.players[x].bet <= state.currentBet /\ state.players[x].bet \in Nat
      BY <1>3, <1>4, <1>5 DEF Covered, IsTable, PlayerRecord
    <3>3. state.players[x].allIn <=> state.players[x].chips = 0
      BY <1>4 DEF Covered
    <3>4. w.players[x].bet <= target
      BY <1>3, <2>1, <3>1, <3>2
    <3> QED BY <2>1, <3>1, <3>3, <3>4
  <2> QED BY <2>2, <2>3
<1>17. w.phase # "showdown" /\ w.phase = state.phase /\ w.hand = state.hand
       /\ P!Seated(w) = P!Seated(state)
  BY <1>3, <1>6, <1>11, <1>12 DEF P!Streets
<1>18. TableIsFair(w)
  BY <1>2, <1>3, <1>4, <1>13, <1>15, <1>16, <1>17 DEF TableIsFair
<1>19. OthersKeep(state, w, state.toAct)
  <2> SUFFICES ASSUME NEW x \in ToSet(state.hand) \ {s}
       PROVE
       /\ w.players[x].chips = state.players[x].chips
       /\ w.players[x].folded = state.players[x].folded
       /\ w.players[x].allIn = state.players[x].allIn /\ w.players[x].bet = state.players[x].bet
       /\ P!CanActNow(w, x) => ~w.players[x].acted
    BY <1>3, <1>17 DEF OthersKeep
  <2>1. x \in P!Seated(state) \ {s} /\ v.players[x] = state.players[x]
    BY <1>2, <1>5
  <2>2. /\ w.players[x].chips = v.players[x].chips /\ w.players[x].folded = v.players[x].folded
        /\ w.players[x].allIn = v.players[x].allIn /\ w.players[x].bet = v.players[x].bet
        /\ P!CanActNow(v, x) => ~w.players[x].acted
    BY <1>6, <1>8, <1>12, <2>1
  <2>3. P!CanActNow(w, x) <=> P!CanActNow(v, x)
    BY <1>11, <2>2 DEF P!CanActNow, P!InHand
  <2> QED BY <2>1, <2>2, <2>3
<1>20. u \in P!AfterAction(w)
  BY <1>1, <1>7
<1> QED BY <1>3, <1>18, <1>19, <1>20, ActionIsFair

\* A raise, a full one or an all-in one (applyAction, case raise).
LEMMA RaiseStep ==
  ASSUME TableIsFair(state), NEW s \in ToSet(SEATS), NEW amount \in Nat, P!Raise(s, amount)
  PROVE  TableIsFair(state') /\ Answered(state, state')
<1> DEFINE chips == state.players[s].chips
           bet == state.players[s].bet
           allIn == amount - bet >= chips
           target == IF allIn THEN bet + chips ELSE amount
<1>1. P!MayBet(s) /\ amount > bet
  BY DEF P!Raise
<1>2. bet \in Nat /\ chips \in Nat /\ state.currentBet \in Nat
  BY <1>1, MayBetInHand DEF PlayerRecord
<1>3. PICK g : g = target
  OBVIOUS
<1>4. PICK more : more = g - bet
  OBVIOUS
<1>5. g \in Nat /\ more \in Nat /\ more <= chips /\ g = bet + more
  <2> HIDE DEF chips, bet
  <2> QED BY <1>1, <1>2, <1>3, <1>4
<1>6. CASE g <= state.currentBet
  <2>1. state' \in P!AfterAction(P!Bet(s, more))
    BY <1>3, <1>4, <1>6 DEF P!Raise
  <2> QED BY <1>1, <1>5, <1>6, <2>1, BetIsFair
<1>7. CASE ~(g <= state.currentBet)
  <2>1. state' \in P!AfterAction(Raised(P!Bet(s, more), s, g, g - state.currentBet))
    BY <1>3, <1>4, <1>7 DEF P!Raise, Raised
  <2>2. PICK m : m = g - state.currentBet
    OBVIOUS
  <2>3. m \in Nat /\ g > state.currentBet
    BY <1>2, <1>5, <1>7, <2>2
  <2> QED BY <1>1, <1>5, <2>1, <2>2, <2>3, RaisedIsFair
<1> QED BY <1>6, <1>7
-----------------------------------------------------------------------------
(* Poker: sitting down and starting a hand.                                *)

\* A player who sits down brings START chips (applyAction, case sit).
LEMMA SitStep ==
  ASSUME TableIsFair(state), NEW s \in ToSet(SEATS), P!Sit(s)
  PROVE  TableIsFair(state') /\ Answered(state, state')
<1>0. IsTable(state) /\ s \notin P!Seated(state)
  BY DEF TableIsFair, P!Sit
<1> DEFINE D == P!Seated(state)
           p == [x \in D \cup {s} |->
                   IF x = s THEN [chips |-> START, bet |-> 0, folded |-> FALSE,
                                  allIn |-> FALSE, acted |-> FALSE]
                   ELSE state.players[x]]
<1>1. p[s].chips = START /\ \A x \in D : p[x] = state.players[x]
  BY <1>0
<1>2. DOMAIN p = D \cup {s} /\ p \in [D \cup {s} -> PlayerRecord]
  BY <1>0, PokerAssumption DEF IsTable, PlayerRecord
<1>3. PICK u : u = state'
  OBVIOUS
<1>4. u = [state EXCEPT !.players = p]
  BY <1>3 DEF P!Sit
<1> HIDE DEF p
<1>5. u = [phase |-> state.phase, players |-> p, hand |-> state.hand, pot |-> state.pot,
           currentBet |-> state.currentBet, minRaise |-> state.minRaise, toAct |-> state.toAct,
           button |-> state.button, reveal |-> state.reveal]
  BY <1>0, <1>4 DEF IsTable
<1>6. P!Seated(u) = D \cup {s} /\ u.players = p
  BY <1>2, <1>5 DEF P!Seated
<1>7. ToSet(state.hand) \subseteq D /\ state.hand \in Seq(D) /\ IsFiniteSet(D)
  BY <1>0, StacksAreFinite DEF IsTable
<1>8. u.hand \in Seq(P!Seated(u))
  <2>1. D \subseteq P!Seated(u) /\ u.hand = state.hand
    BY <1>5, <1>6
  <2> HIDE DEF D
  <2> QED BY <1>7, <2>1
<1>9. IsTable(u)
  <2>1. P!Seated(u) \subseteq ToSet(SEATS)
    BY <1>0, <1>6 DEF IsTable
  <2> HIDE DEF D
  <2> QED BY <1>0, <1>2, <1>5, <1>6, <1>8, <2>1 DEF IsTable
<1>10. \A x \in ToSet(state.hand) : u.players[x] = state.players[x]
  BY <1>1, <1>6, <1>7
<1>11. P!InHandSeats(u) = P!InHandSeats(state)
  BY <1>5, <1>10, SamePoker DEF P!InHandSeats, P!InHand
<1>12. state.phase \in P!Streets => Covered(u)
  BY <1>5, <1>10 DEF TableIsFair, Covered
<1> DEFINE f == [x \in D |-> state.players[x].chips]
           e == [x \in D \cup {s} |-> u.players[x].chips]
<1>13. f \in [D -> Int] /\ e \in [D \cup {s} -> Int]
  BY <1>0, <1>6, <1>9, StacksAreFinite
<1>14. e[s] = START /\ \A x \in D : e[x] = f[x]
  BY <1>1, <1>6
<1>15. SumFunction(e) = SumFunction(f) + START
  <2> HIDE DEF e, f, D
  <2>1. s \notin D
    BY <1>0 DEF D
  <2>2. ExtendedBy(e, f, s)
    BY <1>13, <1>14 DEF ExtendedBy
  <2>3. PICK R : R = D \cup {s}
    OBVIOUS
  <2>4. IsFiniteSet(D) /\ f \in [D -> Int] /\ e \in [R -> Int]
    BY <1>7, <1>13, <2>3
  <2>5. SumFunction(e) = SumFunction(f) + e[s]
    BY <2>1, <2>2, <2>3, <2>4, SumExtends
  <2> QED BY <1>14, <2>5
<1>16. SumFunction(f) \in Int /\ state.pot \in Int
  <2>1. state.pot \in Int
    BY <1>0 DEF IsTable
  <2> HIDE DEF e, f, D
  <2> QED BY <1>7, <1>13, <2>1, SumType
<1>17. Total(u) = Total(state) + START
  <2>1. Total(u) = SumFunction(e) + state.pot
    BY <1>5, <1>6 DEF Total
  <2>2. Total(state) = SumFunction(f) + state.pot
    BY DEF Total
  <2> HIDE DEF e, f, D
  <2> QED BY <1>15, <1>16, <2>1, <2>2, PokerAssumption
<1>18. Cardinality(P!Seated(u)) = Cardinality(D) + 1 /\ Cardinality(D) \in Nat
  <2> HIDE DEF D
  <2>1. s \notin D
    BY <1>0 DEF D
  <2> QED BY <1>6, <1>7, <2>1, FS_AddElement, FS_CardinalityType
<1>19. Total(u) = START * Cardinality(P!Seated(u))
  <2>1. Total(state) = START * Cardinality(D)
    BY DEF TableIsFair
  <2>2. \A m \in Nat : START * (m + 1) = START * m + START
    BY PokerAssumption
  <2> HIDE DEF D
  <2> QED BY <1>17, <1>18, <2>1, <2>2
<1>20. u.phase = state.phase /\ u.pot = state.pot /\ u.toAct = state.toAct
       /\ u.reveal = state.reveal
  BY <1>5
<1>21. TableIsFair(u)
  BY <1>9, <1>11, <1>12, <1>19, <1>20 DEF TableIsFair
<1> QED BY <1>3, <1>20, <1>21 DEF Answered

\* Seats in the order of the table are some of the seats asked for.
LEMMA InOrderType ==
  ASSUME NEW S
  PROVE  P!InOrder(S) \in Seq(ToSet(SEATS) \cap S)
<1>1. P!InOrder(S) =
        FoldLeft(LAMBDA order, s : IF s \in S THEN Append(order, s) ELSE order, << >>, SEATS)
  BY DEF P!InOrder, P!FoldLeft, FoldLeft, P!MapThenFoldSet, MapThenFoldSet, P!Max, Max
<1>2. PICK r \in Seq(ToSet(SEATS) \cap S) :
        /\ r = FoldLeft(LAMBDA order, s : IF s \in S THEN Append(order, s) ELSE order,
                        << >>, SEATS)
        /\ \A x \in ToSet(SEATS) \cap S : x \in ToSet(r)
  BY FilterType, PokerAssumption
<1> QED BY <1>1, <1>2

\* While the blinds are posted.
BlindsCovered(t) ==
  \A s \in ToSet(t.hand) : /\ t.players[s].bet <= BB
                           /\ t.players[s].allIn <=> t.players[s].chips = 0

\* A blind goes from the chips of a player to the pot, and no further than the
\* big blind (postBlind).
LEMMA PostBlindKeeps ==
  ASSUME NEW t, IsTable(t), BlindsCovered(t), NEW s \in ToSet(t.hand), NEW amount \in 0 .. BB,
         NEW u, u = P!PostBlind(t, s, amount)
  PROVE  IsTable(u) /\ BlindsCovered(u) /\ Total(u) = Total(t) /\ SameButPlayers(t, u)
<1>1. s \in P!Seated(t) /\ ToSet(t.hand) \subseteq P!Seated(t)
  BY StacksAreFinite
<1>2. t.players \in [P!Seated(t) -> PlayerRecord] /\ t.players[s] \in PlayerRecord /\ t.pot \in Nat
  BY <1>1 DEF IsTable
<1>3. t.players[s].chips \in Nat /\ amount \in Nat /\ BB \in Nat
  BY <1>2, PokerAssumption DEF PlayerRecord
<1>4. PICK paid : paid = Min({amount, t.players[s].chips})
  OBVIOUS
<1>5. paid \in Nat /\ paid <= amount /\ paid <= t.players[s].chips
  BY <1>3, <1>4 DEF Min
<1>6. PICK c, all, pot : /\ c = t.players[s].chips - paid
                         /\ all = (t.players[s].chips = paid)
                         /\ pot = t.pot + paid
  OBVIOUS
<1>7. PICK pr : pr = [t.players[s] EXCEPT !.chips = c, !.bet = paid, !.allIn = all]
  OBVIOUS
<1>8. c \in Nat /\ all \in BOOLEAN /\ pot \in Nat /\ (all <=> c = 0)
      /\ c + pot = t.players[s].chips + t.pot
  <2>1. c \in Nat /\ pot \in Nat /\ c + pot = t.players[s].chips + t.pot
    BY <1>2, <1>3, <1>5, <1>6
  <2>2. (t.players[s].chips = paid) <=> c = 0
    BY <1>3, <1>5, <1>6
  <2>3. all \in BOOLEAN
    BY <1>6
  <2> QED BY <1>6, <2>1, <2>2, <2>3
<1>9. pr \in PlayerRecord /\ pr.chips = c /\ pr.bet = paid /\ pr.allIn = all
  BY <1>2, <1>5, <1>7, <1>8 DEF PlayerRecord
<1>10. u = Replaced(t, s, pr, pot)
  <2>1. u = [t EXCEPT !.players[s].chips = c, !.players[s].bet = paid,
                      !.players[s].allIn = all, !.pot = pot]
    BY <1>1, <1>2, <1>4, <1>6, SamePoker DEF P!PostBlind, IsTable, PlayerRecord
  <2>2. u.players = [t.players EXCEPT ![s].chips = c, ![s].bet = paid, ![s].allIn = all]
    BY <1>1, <2>1 DEF IsTable
  <2>3. u.players = [t.players EXCEPT ![s] = pr]
    BY <1>1, <1>2, <1>7, <2>2
  <2>4. u = [phase |-> t.phase, players |-> u.players, hand |-> t.hand, pot |-> pot,
             currentBet |-> t.currentBet, minRaise |-> t.minRaise, toAct |-> t.toAct,
             button |-> t.button, reveal |-> t.reveal]
    BY <2>1 DEF IsTable
  <2> QED BY <2>3, <2>4 DEF Replaced
<1>11. /\ IsTable(u) /\ Total(u) = Total(t) /\ SameButPlayers(t, u)
       /\ u.players[s] = pr
       /\ \A x \in P!Seated(t) \ {s} : u.players[x] = t.players[x]
  BY <1>1, <1>8, <1>9, <1>10, PlayerPays
<1>12. BlindsCovered(u)
  <2> SUFFICES ASSUME NEW x \in ToSet(t.hand)
               PROVE  /\ u.players[x].bet <= BB
                      /\ u.players[x].allIn <=> u.players[x].chips = 0
    BY <1>11 DEF BlindsCovered, SameButPlayers
  <2>1. CASE x = s
    BY <1>3, <1>5, <1>8, <1>9, <1>11, <2>1
  <2>2. CASE x # s
    <3>1. u.players[x] = t.players[x]
      BY <1>1, <1>11, <2>2
    <3> QED BY <3>1 DEF BlindsCovered
  <2> QED BY <2>1, <2>2
<1> QED BY <1>11, <1>12

\* The seats whose players can take part in a hand.
WithChips(t) == {s \in P!Seated(t) : t.players[s].chips > 0}

\* The participants of a hand, in order, have chips and are seated.
Participate(t, participants) ==
  /\ participants \in Seq(P!Seated(t))
  /\ \A s \in ToSet(participants) : t.players[s].chips > 0

\* No hand is played.
BetweenHands(t) == t.pot = 0 /\ t.toAct = None

\* A player who is dealt cards keeps its chips and has bet nothing.
LEMMA DealtPlayer ==
  ASSUME NEW q \in PlayerRecord
  PROVE  /\ P!Dealt(q) \in PlayerRecord /\ P!Dealt(q).chips = q.chips
         /\ P!Dealt(q).bet = 0 /\ ~P!Dealt(q).allIn
<1>1. PICK d : d = P!Dealt(q)
  OBVIOUS
<1>2. d = [q EXCEPT !.folded = FALSE, !.allIn = FALSE, !.bet = 0, !.acted = FALSE]
  BY <1>1 DEF P!Dealt
<1>3. d = [chips |-> q.chips, bet |-> 0, folded |-> FALSE, allIn |-> FALSE, acted |-> FALSE]
  BY <1>2 DEF PlayerRecord
<1>4. q.chips \in Nat
  BY DEF PlayerRecord
<1> QED BY <1>1, <1>3, <1>4 DEF PlayerRecord

\* The table once the participants have their cards.
Deals(t, participants, button) ==
  [t EXCEPT !.players = [s \in P!Seated(t) |-> IF s \in ToSet(participants)
                                               THEN P!Dealt(t.players[s])
                                               ELSE t.players[s]],
            !.pot = 0, !.hand = participants, !.button = button, !.reveal = FALSE]

\* Dealing moves no chips (startHand).
LEMMA DealsKeep ==
  ASSUME NEW t, IsTable(t), BetweenHands(t),
         NEW participants, Participate(t, participants),
         NEW button, NEW u, u = Deals(t, participants, button)
  PROVE  /\ IsTable(u) /\ BlindsCovered(u) /\ Total(u) = Total(t) /\ P!Seated(u) = P!Seated(t)
         /\ u.hand = participants /\ ~u.reveal
<1> DEFINE p == [s \in P!Seated(t) |-> IF s \in ToSet(participants)
                                       THEN P!Dealt(t.players[s])
                                       ELSE t.players[s]]
<1>1. \A s \in ToSet(participants) : s \in P!Seated(t) /\ t.players[s].chips > 0
  BY InHandAreSeated DEF Participate
<1>2. participants \in Seq(P!Seated(t))
  BY DEF Participate
<1>3. ASSUME NEW s \in P!Seated(t)
      PROVE  /\ p[s] \in PlayerRecord /\ p[s].chips = t.players[s].chips
             /\ s \in ToSet(participants) => p[s].bet = 0 /\ ~p[s].allIn /\ p[s].chips > 0
  <2>1. t.players[s] \in PlayerRecord
    BY DEF IsTable
  <2>2. CASE s \in ToSet(participants)
    <3>1. p[s] = P!Dealt(t.players[s])
      BY <2>2
    <3>2. t.players[s].chips > 0
      BY <1>1, <2>2
    <3> HIDE DEF p
    <3> QED BY <2>1, <3>1, <3>2, DealtPlayer
  <2>3. CASE s \notin ToSet(participants)
    <3>1. p[s] = t.players[s]
      BY <2>3
    <3> HIDE DEF p
    <3> QED BY <2>1, <2>3, <3>1
  <2> QED BY <2>2, <2>3
<1>4. DOMAIN p = P!Seated(t) /\ p \in [P!Seated(t) -> PlayerRecord]
  BY <1>3
<1>5. u = [t EXCEPT !.players = p, !.pot = 0, !.hand = participants, !.button = button,
                    !.reveal = FALSE]
  BY DEF Deals
<1> HIDE DEF p
<1>6. u = [phase |-> t.phase, players |-> p, hand |-> participants, pot |-> 0,
           currentBet |-> t.currentBet, minRaise |-> t.minRaise, toAct |-> None,
           button |-> button, reveal |-> FALSE]
  BY <1>5 DEF IsTable, BetweenHands
<1>7. P!Seated(u) = P!Seated(t) /\ u.players = p
  BY <1>4, <1>6 DEF P!Seated
<1>8. IsTable(u)
  <2>1. u = [phase |-> u.phase, players |-> u.players, hand |-> u.hand, pot |-> u.pot,
             currentBet |-> u.currentBet, minRaise |-> u.minRaise, toAct |-> u.toAct,
             button |-> u.button, reveal |-> u.reveal]
    BY <1>6
  <2>2. /\ u.phase = t.phase /\ u.hand = participants /\ u.pot = 0 /\ u.toAct = None
        /\ u.currentBet = t.currentBet /\ u.minRaise = t.minRaise /\ u.reveal = FALSE
    BY <1>6
  <2>3. u.players \in [P!Seated(u) -> PlayerRecord] /\ u.hand \in Seq(P!Seated(u))
    BY <1>2, <1>4, <1>7, <2>2
  <2>4. /\ t.phase \in P!Streets \cup {"waiting", "showdown"}
        /\ t.currentBet \in Nat /\ t.minRaise \in Nat
        /\ P!Seated(u) \subseteq ToSet(SEATS)
    BY <1>7 DEF IsTable
  <2>5. /\ u.phase \in P!Streets \cup {"waiting", "showdown"}
        /\ u.pot \in Nat /\ u.currentBet \in Nat /\ u.minRaise \in Nat
        /\ u.toAct \in ToSet(u.hand) \cup {None}
    BY <2>2, <2>4
  <2>6. u.reveal \in BOOLEAN
    BY <2>2
  <2> QED BY <2>1, <2>3, <2>4, <2>5, <2>6 DEF IsTable
<1>9. BlindsCovered(u)
  <2> SUFFICES ASSUME NEW s \in ToSet(participants)
               PROVE  /\ p[s].bet <= BB
                      /\ p[s].allIn <=> p[s].chips = 0
    BY <1>6, <1>7 DEF BlindsCovered
  <2>1. p[s].bet = 0 /\ ~p[s].allIn /\ p[s].chips > 0
    BY <1>1, <1>3
  <2> QED BY <2>1, PokerAssumption
<1>10. [s \in P!Seated(u) |-> u.players[s].chips] = [s \in P!Seated(t) |-> t.players[s].chips]
  BY <1>3, <1>7
<1>11. Total(u) = Total(t)
  <2>1. u.pot = t.pot
    BY <1>6 DEF BetweenHands
  <2> QED BY <1>10, <2>1 DEF Total
<1> QED BY <1>6, <1>7, <1>8, <1>9, <1>11

\* The table once the blinds are in.
Opens(t, first) ==
  LET opened == [t EXCEPT !.currentBet = BB, !.minRaise = BB, !.phase = "preflop"] IN
  [opened EXCEPT !.toAct = P!FirstActor(opened, first)]

\* With the blinds in, the first to act is asked for the big blind.
LEMMA OpensFair ==
  ASSUME NEW t, IsTable(t), BlindsCovered(t), ~t.reveal,
         Total(t) = START * Cardinality(P!Seated(t)), NEW first, NEW u, u = Opens(t, first)
  PROVE  TableIsFair(u)
<1>1. PICK opened : opened = [t EXCEPT !.currentBet = BB, !.minRaise = BB, !.phase = "preflop"]
  OBVIOUS
<1>2. opened = [phase |-> "preflop", players |-> t.players, hand |-> t.hand, pot |-> t.pot,
               currentBet |-> BB, minRaise |-> BB, toAct |-> t.toAct,
               button |-> t.button, reveal |-> t.reveal]
  BY <1>1 DEF IsTable
<1>3. P!Seated(opened) = P!Seated(t)
  BY <1>2 DEF P!Seated
<1>4. IsTable(opened)
  BY <1>2, <1>3, PokerAssumption DEF IsTable, P!Streets
<1>5. PICK a : a = P!FirstActor(opened, first)
  OBVIOUS
<1>6. a \in ToSet(t.hand) \cup {None}
  BY <1>2, <1>4, <1>5, FirstActorIsInHand
<1>7. u = [opened EXCEPT !.toAct = a]
  BY <1>1, <1>5 DEF Opens
<1>8. u = [phase |-> "preflop", players |-> t.players, hand |-> t.hand, pot |-> t.pot,
           currentBet |-> BB, minRaise |-> BB, toAct |-> a,
           button |-> t.button, reveal |-> t.reveal]
  BY <1>2, <1>7
<1>9. P!Seated(u) = P!Seated(t)
  BY <1>8 DEF P!Seated
<1>10. IsTable(u)
  BY <1>6, <1>8, <1>9, PokerAssumption DEF IsTable, P!Streets
<1>11. Covered(u)
  BY <1>8 DEF Covered, BlindsCovered
<1>12. Total(u) = Total(t)
  BY <1>8, <1>9 DEF Total
<1> QED BY <1>8, <1>9, <1>10, <1>11, <1>12 DEF TableIsFair, P!Streets

\* A hand starts with two or more players who have chips (startHand).
LEMMA StartHandFair ==
  ASSUME NEW t, TableIsFair(t), t.phase \notin P!Streets,
         NEW participants, Participate(t, participants),
         Len(participants) >= 2,
         NEW u, u = P!StartHand(t, participants)
  PROVE  TableIsFair(u)
<1>1. IsTable(t) /\ BetweenHands(t) /\ Total(t) = START * Cardinality(P!Seated(t))
  BY DEF TableIsFair, BetweenHands
<1>2. PICK button : button = P!After(participants, t.button, 1)
  OBVIOUS
<1>3. PICK sb : sb = IF Len(participants) = 2 THEN button ELSE P!After(participants, button, 1)
  OBVIOUS
<1>4. PICK bb : bb = P!After(participants, sb, 1)
  OBVIOUS
<1>5. sb \in ToSet(participants) /\ bb \in ToSet(participants)
  <2>0. participants \in Seq(P!Seated(t))
    BY DEF Participate
  <2>1. 1 \in 1 .. Len(participants)
    BY <2>0, LenProperties
  <2>2. \A s : P!After(participants, s, 1) \in ToSet(participants)
    BY <2>0, <2>1, AfterGoesRound
  <2> QED BY <1>2, <1>3, <1>4, <2>2
<1>6. PICK d : d = Deals(t, participants, button)
  OBVIOUS
<1>7. /\ IsTable(d) /\ BlindsCovered(d) /\ Total(d) = Total(t) /\ P!Seated(d) = P!Seated(t)
      /\ d.hand = participants /\ ~d.reveal
  BY <1>1, <1>6, DealsKeep
<1>8. SB \in 0 .. BB /\ BB \in 0 .. BB
  BY PokerAssumption
<1>9. PICK e : e = P!PostBlind(d, sb, SB)
  OBVIOUS
<1>10. IsTable(e) /\ BlindsCovered(e) /\ Total(e) = Total(d) /\ SameButPlayers(d, e)
  BY <1>5, <1>7, <1>8, <1>9, PostBlindKeeps
<1>11. PICK f : f = P!PostBlind(e, bb, BB)
  OBVIOUS
<1>12. bb \in ToSet(e.hand)
  BY <1>5, <1>7, <1>10 DEF SameButPlayers
<1>13. IsTable(f) /\ BlindsCovered(f) /\ Total(f) = Total(e) /\ SameButPlayers(e, f)
  BY <1>8, <1>10, <1>11, <1>12, PostBlindKeeps
<1>14. ~f.reveal /\ Total(f) = START * Cardinality(P!Seated(f))
  BY <1>1, <1>7, <1>10, <1>13 DEF SameButPlayers
<1>15. u = Opens(f, P!After(participants, bb, 1))
  BY <1>2, <1>3, <1>4, <1>6, <1>9, <1>11, SamePoker DEF P!StartHand, Opens, Deals
<1> QED BY <1>13, <1>14, <1>15, OpensFair

\* A hand is started, when none is played (applyAction, case start).
LEMMA StartStep ==
  ASSUME TableIsFair(state), P!Start
  PROVE  TableIsFair(state') /\ Answered(state, state')
<1> DEFINE participants == P!InOrder(WithChips(state))
<1>1. /\ state.phase \in {"waiting", "showdown"} /\ Len(participants) >= 2
      /\ state' = P!StartHand(state, participants)
  BY DEF P!Start, WithChips
<1>2. state.phase \notin P!Streets
  BY <1>1 DEF P!Streets
<1>3. Participate(state, participants)
  <2> DEFINE R == ToSet(SEATS) \cap WithChips(state)
  <2>1. R \subseteq P!Seated(state) /\ \A s \in R : state.players[s].chips > 0
    BY DEF WithChips
  <2>2. participants \in Seq(R)
    BY InOrderType
  <2> HIDE DEF participants, R
  <2>3. ToSet(participants) \subseteq R
    BY <2>2, InHandAreSeated
  <2>4. participants \in Seq(P!Seated(state))
    BY <2>1, <2>2
  <2> QED BY <2>1, <2>3, <2>4 DEF Participate
<1>4. TableIsFair(state')
  <2> HIDE DEF participants
  <2> QED BY <1>1, <1>2, <1>3, StartHandFair
<1> QED BY <1>2, <1>4 DEF Answered

\* What a table of poker keeps is kept by every step of the game.
LEMMA PokerNext ==
  ASSUME TableIsFair(state), [P!Next]_state
  PROVE  TableIsFair(state') /\ Answered(state, state')
<1>1. CASE UNCHANGED state
  BY <1>1 DEF Answered
<1>2. CASE P!Start
  BY <1>2, StartStep
<1>3. ASSUME NEW s \in ToSet(SEATS), P!Sit(s) \/ P!Act(s)
      PROVE  TableIsFair(state') /\ Answered(state, state')
  <2>1. CASE P!Sit(s)
    BY <2>1, SitStep
  <2>2. CASE P!Fold(s)
    BY <2>2, FoldStep
  <2>3. CASE P!Check(s)
    BY <2>3, CheckStep
  <2>4. CASE P!Call(s)
    BY <2>4, CallStep
  <2>5. ASSUME NEW amount \in 1 .. P!AllChips, P!Raise(s, amount)
        PROVE  TableIsFair(state') /\ Answered(state, state')
    <3>1. amount \in Nat
      OBVIOUS
    <3> QED BY <2>5, <3>1, RaiseStep
  <2> QED BY <1>3, <2>1, <2>2, <2>3, <2>4, <2>5 DEF P!Act
<1>4. \A s : s \in P!ToSet(SEATS) => s \in ToSet(SEATS)
  BY SamePoker
<1> QED BY <1>1, <1>2, <1>3, <1>4 DEF P!Next

\* The empty table.
LEMMA PokerInit ==
  ASSUME P!Init
  PROVE  TableIsFair(state)
<1>1. state = [phase |-> "waiting", players |-> << >>, hand |-> << >>, pot |-> 0,
               currentBet |-> 0, minRaise |-> BB, toAct |-> None, button |-> None,
               reveal |-> FALSE]
  BY DEF P!Init
<1>2. P!Seated(state) = {}
  BY <1>1 DEF P!Seated
<1>3. state.players \in [P!Seated(state) -> PlayerRecord]
  <2>1. << >> \in Seq(PlayerRecord)
    OBVIOUS
  <2>2. PICK n \in Nat : << >> \in [1 .. n -> PlayerRecord]
    BY <2>1, SeqDef
  <2> QED BY <1>1, <1>2, <2>2 DEF P!Seated
<1>4. state.hand \in Seq(P!Seated(state)) /\ ToSet(state.hand) = {}
  BY <1>1 DEF ToSet
<1>5. IsTable(state)
  BY <1>1, <1>2, <1>3, <1>4, PokerAssumption DEF IsTable
<1>6. Total(state) = 0
  <2> DEFINE f == [s \in P!Seated(state) |-> state.players[s].chips]
  <2>1. f \in [{} -> Int] /\ IsFiniteSet({})
    BY <1>2, FS_EmptySet
  <2> HIDE DEF f
  <2>2. PICK g : PartialSums(g, f, {}) /\ SumFunction(f) = g[{}]
    BY <2>1, SumIsPartialSum
  <2>3. SumFunction(f) = 0
    BY <2>2 DEF PartialSums, SumEquations
  <2> QED BY <1>1, <2>3 DEF Total, f
<1>7. START * Cardinality(P!Seated(state)) = 0
  BY <1>2, FS_EmptySet, PokerAssumption
<1> QED BY <1>1, <1>5, <1>6, <1>7 DEF TableIsFair, P!Streets

\* What the inductive invariant says of the properties of poker.
LEMMA FairTable ==
  ASSUME TableIsFair(state)
  PROVE  P!ChipsAreConserved /\ P!BetsAreCovered /\ P!OnlyTheShowdownShows
<1>1. IsTable(state)
  BY DEF TableIsFair
<1>2. P!ChipsAreConserved
  <2>1. Total(state) = START * Cardinality(P!Seated(state))
    BY DEF TableIsFair
  <2>2. \A s \in P!Seated(state) : state.players[s].chips >= 0
    BY <1>1 DEF IsTable, PlayerRecord
  <2> QED BY <2>1, <2>2, SamePoker DEF Total, P!ChipsAreConserved
<1>3. P!BetsAreCovered
  BY SamePoker DEF TableIsFair, Covered, P!BetsAreCovered, P!InHand
<1>4. P!OnlyTheShowdownShows
  <2> SUFFICES ASSUME NEW me \in P!Seated(state), NEW s \in P!View(state, me) \ {me}
               PROVE  /\ state.phase = "showdown" /\ s \in P!InHandSeats(state)
                      /\ Cardinality(P!InHandSeats(state)) > 1
    BY SamePoker DEF P!OnlyTheShowdownShows
  <2>1. state.phase = "showdown" /\ state.reveal /\ s \in P!InHandSeats(state)
    BY DEF P!View
  <2> QED BY <2>1 DEF TableIsFair
<1> QED BY <1>2, <1>3, <1>4

\* The inductive invariant of poker: what the table is made of, chips and pot add up
\* to what was brought, and bets are covered by what they were raised to.
THEOREM PokerIsFair == Spec => []TableIsFair(state)
<1>1. Init => TableIsFair(state)
  BY PokerInit DEF Init
<1>2. TableIsFair(state) /\ [Next]_vars => TableIsFair(state)'
  <2> SUFFICES ASSUME TableIsFair(state), [Next]_vars PROVE TableIsFair(state')
    BY DEF TableIsFair, IsTable, Covered, Total
  <2>1. [P!Next]_state
    BY DEF Next, vars, InBlackjack, InPoker, InTicTacToe
  <2> QED BY <2>1, PokerNext
<1> QED BY <1>1, <1>2, PTL DEF Spec

\* A street of poker ends only once everybody else has answered or is all-in
\* (poker.ts, nextActor, afterAction and progress).
THEOREM StreetsEnd == Spec => StreetsEndAnswered
<1> DEFINE Step == state.phase \in P!Streets /\ state'.phase # state.phase /\ P!Cardinality(P!InHandSeats(state')) > 1
       => \A s \in P!InHandSeats(state) \ {state.toAct} :
            \/ state.players[s].allIn
            \/ state.players[s].acted /\ state.players[s].bet = state.currentBet
<1>1. TableIsFair(state) /\ [Next]_vars => [Step]_state
  <2> SUFFICES ASSUME TableIsFair(state), [Next]_vars PROVE Step
    OBVIOUS
  <2>1. [P!Next]_state
    BY DEF Next, vars, InBlackjack, InPoker, InTicTacToe
  <2>2. Answered(state, state')
    BY <2>1, PokerNext
  <2> QED BY <2>2, SamePoker DEF Answered
<1> QED BY <1>1, PokerIsFair, PTL DEF Spec, StreetsEndAnswered, P!StreetsEndAnswered
-----------------------------------------------------------------------------
(* Blackjack: whose turn it is.                                            *)

\* The operators that the instance of Blackjack has are those of this module.
LEMMA SameBlackjack ==
  /\ \A S : B!Min(S) = Min(S)
  /\ \A seq : B!ToSet(seq) = ToSet(seq)
  /\ \A seats, s, k : B!After(seats, s, k) = P!After(seats, s, k)
<1>1. \A S : B!Min(S) = Min(S)
  BY DEF B!Min, Min
<1>2. \A seq : B!ToSet(seq) = ToSet(seq)
  BY DEF B!ToSet, ToSet
<1>3. \A seats, s, k : B!After(seats, s, k) = P!After(seats, s, k)
  BY DEF B!After, P!After, B!SelectInSeq, P!SelectInSeq, B!Min, P!Min
<1> QED BY <1>1, <1>2, <1>3

\* A hand of blackjack, and the box of a seat with its hands.
HandRecord == [cards : [CARDS -> Nat], bet : Nat, done : BOOLEAN, busted : BOOLEAN,
               fromSplit : BOOLEAN, net : Int]
BoxRecord == [chips : Nat, bet : Nat, hands : Seq(HandRecord), active : Nat]

\* The table of blackjack as an object.
IsBoard(t) ==
  /\ t = [phase |-> t.phase, players |-> t.players, dealer |-> t.dealer,
          dealerReveal |-> t.dealerReveal, hand |-> t.hand, toAct |-> t.toAct,
          results |-> t.results]
  /\ B!Seated(t) \subseteq ToSet(TABLE)
  /\ t.players \in [B!Seated(t) -> BoxRecord]
  /\ t.hand \in Seq(B!Seated(t))

\* The hands of a seat are hands, and finitely many.
LEMMA HandsAreRecords ==
  ASSUME NEW t, IsBoard(t), NEW s \in B!Seated(t)
  PROVE  /\ t.players[s] \in BoxRecord
         /\ B!Hands(t, s) \in Seq(HandRecord)
         /\ IsFiniteSet(DOMAIN B!Hands(t, s)) /\ DOMAIN B!Hands(t, s) \subseteq Nat \ {0}
         /\ \A i \in DOMAIN B!Hands(t, s) : B!Hands(t, s)[i] \in HandRecord
         /\ ToSet(t.hand) \subseteq B!Seated(t) /\ ToSet(t.hand) \subseteq ToSet(TABLE)
<1>1. t.players[s] \in BoxRecord /\ B!Hands(t, s) \in Seq(HandRecord)
  BY DEF IsBoard, BoxRecord, B!Hands
<1>2. PICK hands : hands = B!Hands(t, s)
  OBVIOUS
<1>3. /\ DOMAIN hands = 1 .. Len(hands) /\ Len(hands) \in Nat
      /\ \A i \in DOMAIN hands : hands[i] \in HandRecord
  BY <1>1, <1>2, LenProperties, ElementOfSeq
<1>4. IsFiniteSet(DOMAIN hands) /\ DOMAIN hands \subseteq Nat \ {0}
  <2>1. \A n \in Nat : IsFiniteSet(1 .. n) /\ 1 .. n \subseteq Nat \ {0}
    BY FS_Interval
  <2> QED BY <1>3, <2>1
<1>5. ToSet(t.hand) \subseteq B!Seated(t) /\ ToSet(t.hand) \subseteq ToSet(TABLE)
  BY InHandAreSeated DEF IsBoard
<1> QED BY <1>1, <1>2, <1>3, <1>4, <1>5

\* The hand that play is focused on is one of the seat.
LEMMA FirstLiveHandIsLive ==
  ASSUME NEW t, IsBoard(t), NEW s \in B!Seated(t), B!FirstLiveHand(t, s) # 0
  PROVE  B!FirstLiveHand(t, s) \in DOMAIN B!Hands(t, s)
<1> DEFINE live == {i \in DOMAIN B!Hands(t, s) : ~B!Hands(t, s)[i].done}
<1>1. B!FirstLiveHand(t, s) = IF live = {} THEN 0 ELSE Min(live)
  BY SameBlackjack DEF B!FirstLiveHand
<1>2. live \in SUBSET Nat /\ live \subseteq DOMAIN B!Hands(t, s)
  BY HandsAreRecords
<1> HIDE DEF live
<1>3. live # {} => Min(live) \in live
  BY <1>2, LeastIndex
<1> QED BY <1>1, <1>2, <1>3

\* nextActor names a seat with a hand still in play, or none.
LEMMA NextBoxIsLive ==
  ASSUME NEW t, IsBoard(t), NEW s, B!NextActor(t, s) # None
  PROVE  /\ B!NextActor(t, s) \in ToSet(t.hand)
         /\ B!FirstLiveHand(t, B!NextActor(t, s)) # 0
<1> DEFINE playing == {k \in 1 .. Len(t.hand) : B!FirstLiveHand(t, B!After(t.hand, s, k)) # 0}
           next == B!After(t.hand, s, Min(playing))
<1>1. B!NextActor(t, s) = IF playing = {} THEN None ELSE next
  BY SameBlackjack DEF B!NextActor
<1>2. playing # {} /\ playing \in SUBSET Nat /\ B!NextActor(t, s) = next
  BY <1>1
<1>3. Min(playing) \in playing
  <2> HIDE DEF playing
  <2> QED BY <1>2, LeastIndex
<1>4. next \in ToSet(t.hand)
  <2>1. Min(playing) \in 1 .. Len(t.hand)
    BY <1>3
  <2>2. t.hand \in Seq(B!Seated(t))
    BY DEF IsBoard
  <2> HIDE DEF playing
  <2> QED BY <2>1, <2>2, AfterGoesRound, SameBlackjack
<1>5. B!FirstLiveHand(t, next) # 0
  BY <1>3
<1> QED BY <1>2, <1>4, <1>5

-----------------------------------------------------------------------------
(* Blackjack: sums over the hands of a seat.                               *)

\* What Resolve adds up for a seat is the sum of what its hands are paid.
LEMMA SumOfPays ==
  ASSUME NEW S, IsFiniteSet(S), NEW pay \in [S -> Int]
  PROVE  B!MapThenSumSet(LAMBDA i : pay[i], S) = SumFunction(pay)
<1>1. PICK h : PartialSums(h, pay, S) /\ SumFunction(pay) = h[S]
  BY SumIsPartialSum
<1>2. h = [s \in SUBSET S |-> IF s = {} THEN 0
             ELSE pay[CHOOSE x \in s : TRUE] + h[s \ {CHOOSE x \in s : TRUE}]]
  BY <1>1 DEF PartialSums, SumEquations
<1> DEFINE iter == CHOOSE g : g = [s \in SUBSET S |-> IF s = {} THEN 0
             ELSE pay[CHOOSE x \in s : TRUE] + g[s \ {CHOOSE x \in s : TRUE}]]
<1>3. B!MapThenSumSet(LAMBDA i : pay[i], S) = iter[S]
  BY DEF B!MapThenSumSet, B!MapThenFoldSet
<1>4. iter = [s \in SUBSET S |-> IF s = {} THEN 0
             ELSE pay[CHOOSE x \in s : TRUE] + iter[s \ {CHOOSE x \in s : TRUE}]]
  BY <1>2
<1> HIDE DEF iter
<1>5. SumEquations(iter, pay, S)
  BY <1>4 DEF SumEquations
<1>6. iter[S] = h[S]
  BY <1>1, <1>5, PartialSumsUnique
<1> QED BY <1>1, <1>3, <1>6

\* Bets on the hands of a seat, and what they have won.
Bets(t, s) == [i \in DOMAIN B!Hands(t, s) |-> B!Hands(t, s)[i].bet]
Nets(t, s) == [i \in DOMAIN B!Hands(t, s) |-> B!Hands(t, s)[i].net]

\* Bets and winnings of a seat are numbers.
LEMMA BetsType ==
  ASSUME NEW t, IsBoard(t), NEW s \in B!Seated(t)
  PROVE  /\ IsFiniteSet(DOMAIN B!Hands(t, s))
         /\ Bets(t, s) \in [DOMAIN B!Hands(t, s) -> Int]
         /\ Nets(t, s) \in [DOMAIN B!Hands(t, s) -> Int]
<1>1. \A i \in DOMAIN B!Hands(t, s) : B!Hands(t, s)[i] \in HandRecord
  BY HandsAreRecords
<1>2. \A i \in DOMAIN B!Hands(t, s) : B!Hands(t, s)[i].bet \in Int /\ B!Hands(t, s)[i].net \in Int
  BY <1>1 DEF HandRecord
<1> QED BY <1>2, HandsAreRecords DEF Bets, Nets

\* The stake of a seat in a round is the sum of the bets on its hands.
LEMMA StakeIsSum ==
  ASSUME NEW t, IsBoard(t), NEW s \in B!Seated(t)
  PROVE  B!MapThenSumSet(LAMBDA i : B!Hands(t, s)[i].bet, DOMAIN B!Hands(t, s))
           = SumFunction(Bets(t, s))
<1> DEFINE S == DOMAIN B!Hands(t, s)
<1>0. Bets(t, s) \in [S -> Int] /\ IsFiniteSet(S)
  BY BetsType
<1>1. PICK h : PartialSums(h, Bets(t, s), S) /\ SumFunction(Bets(t, s)) = h[S]
  BY <1>0, SumIsPartialSum
<1>2. h = [z \in SUBSET S |-> IF z = {} THEN 0
             ELSE B!Hands(t, s)[CHOOSE x \in z : TRUE].bet + h[z \ {CHOOSE x \in z : TRUE}]]
  <2>1. \A z \in SUBSET S : z # {} => Bets(t, s)[CHOOSE x \in z : TRUE]
                                       = B!Hands(t, s)[CHOOSE x \in z : TRUE].bet
    BY DEF Bets
  <2> QED BY <1>1, <2>1 DEF PartialSums, SumEquations
<1> DEFINE iter == CHOOSE g : g = [z \in SUBSET S |-> IF z = {} THEN 0
             ELSE B!Hands(t, s)[CHOOSE x \in z : TRUE].bet + g[z \ {CHOOSE x \in z : TRUE}]]
<1>3. B!MapThenSumSet(LAMBDA i : B!Hands(t, s)[i].bet, DOMAIN B!Hands(t, s)) = iter[S]
  BY DEF B!MapThenSumSet, B!MapThenFoldSet
<1>4. iter = [z \in SUBSET S |-> IF z = {} THEN 0
             ELSE B!Hands(t, s)[CHOOSE x \in z : TRUE].bet + iter[z \ {CHOOSE x \in z : TRUE}]]
  BY <1>2
<1> HIDE DEF iter
<1>5. SumEquations(iter, Bets(t, s), S)
  BY <1>4 DEF Bets, SumEquations
<1>6. iter[S] = h[S]
  BY <1>0, <1>1, <1>5, PartialSumsUnique
<1> QED BY <1>1, <1>3, <1>6

\* What a seat has won is the sum of what its hands have won.
LEMMA WonIsSum ==
  ASSUME NEW t, IsBoard(t), NEW s \in B!Seated(t)
  PROVE  B!Won(t, s) = SumFunction(Nets(t, s))
<1> DEFINE S == DOMAIN B!Hands(t, s)
<1>0. Nets(t, s) \in [S -> Int] /\ IsFiniteSet(S)
  BY BetsType
<1>1. PICK h : PartialSums(h, Nets(t, s), S) /\ SumFunction(Nets(t, s)) = h[S]
  BY <1>0, SumIsPartialSum
<1>2. h = [z \in SUBSET S |-> IF z = {} THEN 0
             ELSE B!Hands(t, s)[CHOOSE x \in z : TRUE].net + h[z \ {CHOOSE x \in z : TRUE}]]
  <2>1. \A z \in SUBSET S : z # {} => Nets(t, s)[CHOOSE x \in z : TRUE]
                                       = B!Hands(t, s)[CHOOSE x \in z : TRUE].net
    BY DEF Nets
  <2> QED BY <1>1, <2>1 DEF PartialSums, SumEquations
<1> DEFINE iter == CHOOSE g : g = [z \in SUBSET S |-> IF z = {} THEN 0
             ELSE B!Hands(t, s)[CHOOSE x \in z : TRUE].net + g[z \ {CHOOSE x \in z : TRUE}]]
<1>3. B!Won(t, s) = iter[S]
  BY DEF B!Won, B!MapThenSumSet, B!MapThenFoldSet
<1>4. iter = [z \in SUBSET S |-> IF z = {} THEN 0
             ELSE B!Hands(t, s)[CHOOSE x \in z : TRUE].net + iter[z \ {CHOOSE x \in z : TRUE}]]
  BY <1>2
<1> HIDE DEF iter
<1>5. SumEquations(iter, Nets(t, s), S)
  BY <1>4 DEF Nets, SumEquations
<1>6. iter[S] = h[S]
  BY <1>0, <1>1, <1>5, PartialSumsUnique
<1> QED BY <1>1, <1>3, <1>6

\* Sums of numbers that are not negative.
LEMMA SumNat ==
  ASSUME NEW S, IsFiniteSet(S), NEW f \in [S -> Int], \A x \in S : f[x] \in Nat
  PROVE  SumFunction(f) \in Nat
<1>1. PICK g : PartialSums(g, f, S) /\ SumFunction(f) = g[S]
  BY SumIsPartialSum
<1> DEFINE Q == {A \in SUBSET S : g[A] \in Nat}
<1>2. ASSUME NEW A \in SUBSET S, \A x \in A : A \ {x} \in Q
      PROVE  A \in Q
  <2>1. CASE A = {}
    BY <1>1, <2>1 DEF PartialSums, SumEquations
  <2>2. CASE A # {}
    <3>1. PICK x \in A : x = CHOOSE y \in A : TRUE
      BY <2>2
    <3>2. g[A \ {x}] \in Nat /\ f[x] \in Nat
      BY <1>2
    <3>3. g[A] = f[x] + g[A \ {x}]
      BY <1>1, <2>2, <3>1 DEF PartialSums, SumEquations
    <3> QED BY <3>2, <3>3
  <2> QED BY <2>1, <2>2
<1> HIDE DEF Q
<1>3. S \in Q
  BY <1>2, SubsetInduction
<1> QED BY <1>1, <1>3 DEF Q

\* The sum of a difference.
LEMMA SumDifference ==
  ASSUME NEW S, IsFiniteSet(S), NEW f \in [S -> Int], NEW e \in [S -> Int]
  PROVE  SumFunction([x \in S |-> f[x] - e[x]]) = SumFunction(f) - SumFunction(e)
<1> DEFINE d == [x \in S |-> f[x] - e[x]]
<1>0. d \in [S -> Int] /\ \A x \in S : d[x] = f[x] - e[x]
  OBVIOUS
<1> HIDE DEF d
<1>1. PICK g : PartialSums(g, f, S) /\ SumFunction(f) = g[S]
  BY SumIsPartialSum
<1>2. PICK h : PartialSums(h, e, S) /\ SumFunction(e) = h[S]
  BY SumIsPartialSum
<1>3. PICK k : PartialSums(k, d, S) /\ SumFunction(d) = k[S]
  BY <1>0, SumIsPartialSum
<1> DEFINE Q == {A \in SUBSET S : k[A] = g[A] - h[A]}
<1>4. ASSUME NEW A \in SUBSET S, \A x \in A : A \ {x} \in Q
      PROVE  A \in Q
  <2>1. CASE A = {}
    BY <1>1, <1>2, <1>3, <2>1 DEF PartialSums, SumEquations
  <2>2. CASE A # {}
    <3>1. PICK x \in A : x = CHOOSE y \in A : TRUE
      BY <2>2
    <3>2. k[A \ {x}] = g[A \ {x}] - h[A \ {x}]
      BY <1>4
    <3>3. g[A] = f[x] + g[A \ {x}] /\ h[A] = e[x] + h[A \ {x}] /\ k[A] = d[x] + k[A \ {x}]
      BY <1>1, <1>2, <1>3, <2>2, <3>1 DEF PartialSums, SumEquations
    <3>4. g[A \ {x}] \in Int /\ h[A \ {x}] \in Int /\ f[x] \in Int /\ e[x] \in Int
      BY <1>1, <1>2 DEF PartialSums
    <3> QED BY <1>0, <3>2, <3>3, <3>4
  <2> QED BY <2>1, <2>2
<1> HIDE DEF Q
<1>5. S \in Q
  BY <1>4, SubsetInduction
<1> QED BY <1>1, <1>2, <1>3, <1>5 DEF Q, d

\* The n + 1 numbers of e are the n numbers of f with b put in after place a.
PutIn(e, f, a, b, n) ==
  /\ f \in [1 .. n -> Int] /\ e \in [1 .. n + 1 -> Int]
  /\ \A i \in 1 .. a : e[i] = f[i]
  /\ e[a + 1] = b
  /\ \A i \in a + 2 .. n + 1 : e[i] = f[i - 1]

\* One element adds its value to every set it is in.
Additive(g, f, S) == \A A \in SUBSET S : \A x \in A : g[A] = f[x] + g[A \ {x}]

\* Partial sums add one element after another, in any order.
LEMMA PartialSumsAreAdditive ==
  ASSUME NEW S, IsFiniteSet(S), NEW f \in [S -> Int], NEW g, PartialSums(g, f, S)
  PROVE  Additive(g, f, S)
<1> SUFFICES ASSUME NEW A \in SUBSET S, NEW x \in A
             PROVE  g[A] = f[x] + g[A \ {x}]
  BY DEF Additive
<1> QED BY PartialSumAdds

\* A number more in a sequence adds itself to the sum.
LEMMA SumPutsIn ==
  ASSUME NEW n \in Nat, NEW a \in 1 .. n, NEW b \in Int, NEW f, NEW e, PutIn(e, f, a, b, n)
  PROVE  SumFunction(e) = SumFunction(f) + b
<1> DEFINE Up(m) == 1 .. m
<1>a. /\ IsFiniteSet(Up(n)) /\ IsFiniteSet(Up(n + 1))
      /\ f \in [Up(n) -> Int] /\ e \in [Up(n + 1) -> Int]
  <2>1. \A m \in Nat : IsFiniteSet(1 .. m)
    BY FS_Interval
  <2> QED BY <2>1 DEF PutIn
<1>b. \A m \in Nat \ {0} : m \in Up(m) /\ Up(m) \ {m} = Up(m - 1)
  OBVIOUS
<1>c. /\ \A m \in 0 .. n : Up(m) \in SUBSET Up(n)
      /\ \A m \in 0 .. n + 1 : Up(m) \in SUBSET Up(n + 1)
  OBVIOUS
<1>d. \A m \in 1 .. n : m \in Up(n)
  OBVIOUS
<1>e. \A x \in Up(a) : e[x] = f[x]
  BY DEF PutIn
<1>f. e[a + 1] = b /\ \A i \in a + 2 .. n + 1 : e[i] = f[i - 1]
  BY DEF PutIn
<1> HIDE DEF Up
<1>1. PICK g : PartialSums(g, f, Up(n)) /\ SumFunction(f) = g[Up(n)]
  BY <1>a, SumIsPartialSum
<1>2. PICK h : PartialSums(h, e, Up(n + 1)) /\ SumFunction(e) = h[Up(n + 1)]
  BY <1>a, SumIsPartialSum
<1>g. Additive(g, f, Up(n))
  BY <1>a, <1>1, PartialSumsAreAdditive
<1>h. Additive(h, e, Up(n + 1))
  BY <1>a, <1>2, PartialSumsAreAdditive
<1>3. ASSUME NEW m \in 1 .. n
      PROVE  g[Up(m)] = f[m] + g[Up(m - 1)] /\ g[Up(m - 1)] \in Int /\ f[m] \in Int
  <2>1. m \in Nat \ {0} /\ m - 1 \in 0 .. n /\ m \in 0 .. n
    OBVIOUS
  <2>2. m \in Up(m) /\ Up(m) \in SUBSET Up(n) /\ Up(m - 1) \in SUBSET Up(n)
        /\ Up(m) \ {m} = Up(m - 1)
    BY <1>b, <1>c, <2>1
  <2>3. g[Up(m)] = f[m] + g[Up(m) \ {m}]
    BY <1>g, <2>2 DEF Additive
  <2>4. g[Up(m - 1)] \in Int
    BY <1>1, <2>2 DEF PartialSums
  <2>5. f[m] \in Int
    BY <1>a, <1>d
  <2> QED BY <2>2, <2>3, <2>4, <2>5
<1>4. ASSUME NEW m \in 1 .. n + 1
      PROVE  h[Up(m)] = e[m] + h[Up(m - 1)]
  <2>1. m \in Nat \ {0} /\ m \in 0 .. n + 1
    OBVIOUS
  <2>2. m \in Up(m) /\ Up(m) \in SUBSET Up(n + 1) /\ Up(m) \ {m} = Up(m - 1)
    BY <1>b, <1>c, <2>1
  <2>3. h[Up(m)] = e[m] + h[Up(m) \ {m}]
    BY <1>h, <2>2 DEF Additive
  <2> QED BY <2>2, <2>3
<1>5. h[Up(a)] = g[Up(a)]
  <2>1. Up(a) \subseteq Up(n) /\ Up(a) \subseteq Up(n + 1)
    <3>1. a \in 0 .. n /\ a \in 0 .. n + 1
      OBVIOUS
    <3> QED BY <1>c, <3>1
  <2> QED BY <1>a, <1>e, <1>1, <1>2, <2>1, PartialSumsAgree
<1> DEFINE Q == {A \in SUBSET Up(n + 1) :
                   \A m \in a + 1 .. n + 1 : A = Up(m) => h[A] = g[Up(m - 1)] + b}
<1>6. ASSUME NEW A \in SUBSET Up(n + 1), \A x \in A : A \ {x} \in Q
      PROVE  A \in Q
  <2> SUFFICES ASSUME NEW m \in a + 1 .. n + 1, A = Up(m)
               PROVE  h[Up(m)] = g[Up(m - 1)] + b
    OBVIOUS
  <2>1. m \in 1 .. n + 1 /\ m - 1 \in 1 .. n
    OBVIOUS
  <2>2. h[Up(m)] = e[m] + h[Up(m - 1)]
    BY <1>4, <2>1
  <2>3. PICK k : k = m - 1
    OBVIOUS
  <2>4. g[Up(k)] = f[k] + g[Up(k - 1)] /\ g[Up(k - 1)] \in Int /\ f[k] \in Int
    BY <1>3, <2>1, <2>3
  <2>5. CASE m = a + 1
    <3>1. e[m] = b /\ k = a
      BY <1>f, <2>3, <2>5
    <3>2. h[Up(k)] = g[Up(k)]
      BY <1>5, <3>1
    <3> HIDE DEF Q
    <3> QED BY <2>2, <2>3, <2>4, <3>1, <3>2
  <2>6. CASE m # a + 1
    <3>1. k \in a + 1 .. n + 1 /\ m \in a + 2 .. n + 1
      BY <2>3, <2>6
    <3>2. e[m] = f[k]
      BY <1>f, <2>3, <3>1
    <3>3. m \in A /\ A \ {m} = Up(k)
      <4>1. m \in Nat \ {0}
        BY <2>1
      <4> QED BY <1>b, <2>3, <4>1
    <3>4. Up(k) \in Q
      BY <1>6, <3>3
    <3>5. h[Up(k)] = g[Up(k - 1)] + b
      BY <3>1, <3>4
    <3> HIDE DEF Q
    <3> QED BY <2>2, <2>3, <2>4, <3>2, <3>5
  <2> QED BY <2>5, <2>6
<1> HIDE DEF Q
<1>7. Up(n + 1) \in Q
  BY <1>a, <1>6, SubsetInduction
<1>8. n + 1 \in a + 1 .. n + 1 /\ (n + 1) - 1 = n
  OBVIOUS
<1>9. h[Up(n + 1)] = g[Up((n + 1) - 1)] + b
  BY <1>7, <1>8 DEF Q
<1> QED BY <1>1, <1>2, <1>8, <1>9

\* g is f with amount more at a.
ChangedAt(g, f, S, a, amount) ==
  g[a] = f[a] + amount /\ \A x \in S \ {a} : g[x] = f[x]

\* A sum where one element has changed.
LEMMA SumChangesAt ==
  ASSUME NEW S, IsFiniteSet(S), NEW f \in [S -> Int], NEW g \in [S -> Int],
         NEW a, a \in S, NEW amount \in Int, ChangedAt(g, f, S, a, amount)
  PROVE  SumFunction(g) = SumFunction(f) + amount
<1>1. SumFunction(g) = SumFunction(f) + g[a] - f[a]
  BY SumChanges DEF ChangedAt
<1>2. SumFunction(f) \in Int /\ f[a] \in Int
  BY SumType
<1> QED BY <1>1, <1>2 DEF ChangedAt

-----------------------------------------------------------------------------
(* Blackjack: what a hand is worth.                                        *)

\* A hand with one card more is a hand.
LEMMA DrawnCards ==
  ASSUME NEW cards \in [CARDS -> Nat], NEW c \in CARDS
  PROVE  B!With(cards, c) \in [CARDS -> Nat]
BY DEF B!With

\* What a card counts when no ace counts 11.
Low(c) == IF c = B!Ace THEN 1 ELSE c
Points(cards) == [c \in CARDS |-> cards[c] * Low(c)]

\* There are finitely many card values, and each counts one to ten.
LEMMA CardsCount ==
  /\ IsFiniteSet(CARDS)
  /\ \A c \in CARDS : c \in Int /\ Low(c) \in 1 .. 10
<1>1. CARDS \subseteq 2 .. 11
  BY BlackjackAssumption
<1>2. IsFiniteSet(2 .. 11)
  <2>1. \A a, b \in Int : IsFiniteSet(a .. b)
    BY FS_Interval
  <2>2. PICK a \in Int, b \in Int : a = 2 /\ b = 11
    OBVIOUS
  <2>3. IsFiniteSet(a .. b)
    BY <2>1
  <2> QED BY <2>2, <2>3
<1>3. IsFiniteSet(CARDS)
  BY <1>1, <1>2, FS_Subset
<1>4. \A c \in CARDS : c \in Int /\ Low(c) \in 1 .. 10
  BY <1>1 DEF Low, B!Ace
<1> QED BY <1>3, <1>4

\* So many cards of one value count no less than there are of them.
LEMMA CardsOfOne ==
  ASSUME NEW n \in Nat, NEW c \in CARDS
  PROVE  n * Low(c) \in Nat /\ n * Low(c) >= n /\ (n + 1) * Low(c) = n * Low(c) + Low(c)
<1>1. PICK w \in 1 .. 10 : w = Low(c)
  BY CardsCount
<1>2. n * w \in Nat /\ n * w >= n /\ (n + 1) * w = n * w + w
  OBVIOUS
<1> QED BY <1>1, <1>2

LEMMA PointsType ==
  ASSUME NEW cards \in [CARDS -> Nat]
  PROVE  /\ Points(cards) \in [CARDS -> Int]
         /\ \A c \in CARDS : Points(cards)[c] \in Nat /\ Points(cards)[c] >= cards[c]
                             /\ Points(cards)[c] = cards[c] * Low(c)
<1>1. ASSUME NEW c \in CARDS PROVE cards[c] * Low(c) \in Nat /\ cards[c] * Low(c) >= cards[c]
  BY CardsOfOne
<1> QED BY <1>1 DEF Points

\* The hard total of a hand is the sum of what its cards count.
LEMMA HardIsSum ==
  ASSUME NEW cards \in [CARDS -> Nat]
  PROVE  B!Hard(cards) = SumFunction(Points(cards))
<1>0. Points(cards) \in [CARDS -> Int] /\ IsFiniteSet(CARDS)
  BY PointsType, CardsCount
<1>1. PICK h : PartialSums(h, Points(cards), CARDS) /\ SumFunction(Points(cards)) = h[CARDS]
  BY <1>0, SumIsPartialSum
<1> DEFINE Of(c) == cards[c] * (IF c = B!Ace THEN 1 ELSE c)
<1>a. \A z \in SUBSET CARDS : z # {} => Points(cards)[CHOOSE x \in z : TRUE] = Of(CHOOSE x \in z : TRUE)
  BY DEF Points, Low
<1> HIDE DEF Of
<1>2. h = [z \in SUBSET CARDS |-> IF z = {} THEN 0
             ELSE Of(CHOOSE x \in z : TRUE) + h[z \ {CHOOSE x \in z : TRUE}]]
  BY <1>1, <1>a DEF PartialSums, SumEquations
<1> DEFINE iter == CHOOSE g : g = [z \in SUBSET CARDS |-> IF z = {} THEN 0
             ELSE Of(CHOOSE x \in z : TRUE) + g[z \ {CHOOSE x \in z : TRUE}]]
<1>3. B!Hard(cards) = iter[CARDS]
  BY Zenon DEF B!Hard, B!MapThenSumSet, B!MapThenFoldSet, Of
<1>4. iter = [z \in SUBSET CARDS |-> IF z = {} THEN 0
             ELSE Of(CHOOSE x \in z : TRUE) + iter[z \ {CHOOSE x \in z : TRUE}]]
  BY <1>2
<1> HIDE DEF iter
<1>5. SumEquations(iter, Points(cards), CARDS)
  BY <1>4, <1>a DEF SumEquations
<1>6. iter[CARDS] = h[CARDS]
  BY <1>0, <1>1, <1>5, PartialSumsUnique
<1> QED BY <1>1, <1>3, <1>6

\* One of them is no more than the sum of numbers that are not negative.
LEMMA SumIsAtLeast ==
  ASSUME NEW S, IsFiniteSet(S), NEW f \in [S -> Int], \A x \in S : f[x] \in Nat, NEW a \in S
  PROVE  SumFunction(f) >= f[a] /\ SumFunction(f) \in Nat
<1> DEFINE rest == [f EXCEPT ![a] = 0]
<1>1. rest \in [S -> Int] /\ \A x \in S : rest[x] \in Nat
  OBVIOUS
<1>2. ChangedAt(f, rest, S, a, f[a])
  BY DEF ChangedAt
<1> HIDE DEF rest
<1>3. SumFunction(f) = SumFunction(rest) + f[a]
  BY <1>1, <1>2, SumChangesAt
<1>4. SumFunction(rest) \in Nat
  BY <1>1, SumNat
<1>5. f[a] \in Nat
  OBVIOUS
<1> QED BY <1>3, <1>4, <1>5

\* The hard total is a number, and counts every ace once.
LEMMA HardType ==
  ASSUME NEW cards \in [CARDS -> Nat]
  PROVE  B!Hard(cards) \in Nat /\ (B!Ace \in CARDS => B!Hard(cards) >= cards[B!Ace])
<1>1. PICK f : f = Points(cards)
  OBVIOUS
<1>2. f \in [CARDS -> Int] /\ IsFiniteSet(CARDS)
  BY <1>1, PointsType, CardsCount
<1>3. \A c \in CARDS : f[c] \in Nat
  BY <1>1, PointsType
<1>4. SumFunction(f) \in Nat
  BY <1>2, <1>3, SumNat
<1>5. ASSUME B!Ace \in CARDS PROVE SumFunction(f) >= cards[B!Ace]
  <2>1. SumFunction(f) >= f[B!Ace]
    BY <1>2, <1>3, <1>5, SumIsAtLeast
  <2>2. f[B!Ace] >= cards[B!Ace] /\ f[B!Ace] \in Nat /\ cards[B!Ace] \in Nat
    BY <1>1, <1>5, PointsType
  <2> QED BY <1>4, <2>1, <2>2
<1> QED BY <1>1, <1>4, <1>5, HardIsSum

\* A card more adds what it counts.
LEMMA HardWith ==
  ASSUME NEW cards \in [CARDS -> Nat], NEW c \in CARDS
  PROVE  B!Hard(B!With(cards, c)) = B!Hard(cards) + Low(c)
<1>1. PICK more \in [CARDS -> Nat] : more = B!With(cards, c)
  BY DrawnCards
<1>2. more[c] = cards[c] + 1 /\ \A x \in CARDS \ {c} : more[x] = cards[x]
  BY <1>1 DEF B!With
<1>3. PICK f : f = Points(cards)
  OBVIOUS
<1>4. PICK g : g = Points(more)
  OBVIOUS
<1>5. f \in [CARDS -> Int] /\ g \in [CARDS -> Int] /\ IsFiniteSet(CARDS) /\ Low(c) \in Int
  BY <1>3, <1>4, PointsType, CardsCount
<1>6. ChangedAt(g, f, CARDS, c, Low(c))
  <2>1. g[c] = f[c] + Low(c)
    <3>1. f[c] = cards[c] * Low(c) /\ g[c] = (cards[c] + 1) * Low(c)
      BY <1>2, <1>3, <1>4, PointsType
    <3>2. cards[c] \in Nat
      OBVIOUS
    <3>3. (cards[c] + 1) * Low(c) = cards[c] * Low(c) + Low(c)
      BY <3>2, CardsOfOne
    <3> QED BY <3>1, <3>3
  <2>2. \A x \in CARDS \ {c} : g[x] = f[x]
    BY <1>2, <1>3, <1>4 DEF Points
  <2> QED BY <2>1, <2>2 DEF ChangedAt
<1>7. SumFunction(g) = SumFunction(f) + Low(c)
  BY <1>5, <1>6, SumChangesAt
<1> QED BY <1>1, <1>3, <1>4, <1>7, HardIsSum

\* Two cards never bust.
LEMMA TwoNeverBust ==
  ASSUME NEW c \in CARDS, NEW d \in CARDS
  PROVE  ~(B!HandValue(B!Two(c, d)) > 21)
<1>1. PICK zero \in [CARDS -> Nat] : zero = [x \in CARDS |-> 0]
  OBVIOUS
<1>2. B!Hard(zero) = 0
  <2>1. PICK f : f = Points(zero)
    OBVIOUS
  <2>2. f \in [CARDS -> Int] /\ IsFiniteSet(CARDS)
    BY <2>1, PointsType, CardsCount
  <2>3. \A x \in CARDS : f[x] = 0
    <3>1. \A x \in CARDS : Low(x) \in Int
      BY CardsCount
    <3> QED BY <1>1, <2>1, <3>1 DEF Points
  <2>4. f = [x \in CARDS |-> f[x] - f[x]]
    BY <2>2, <2>3
  <2>5. SumFunction([x \in CARDS |-> f[x] - f[x]]) = SumFunction(f) - SumFunction(f)
    BY <2>2, SumDifference
  <2>6. SumFunction(f) \in Int
    BY <2>2, SumType
  <2>7. SumFunction(f) = SumFunction(f) - SumFunction(f)
    BY <2>4, <2>5
  <2>8. B!Hard(zero) = SumFunction(f)
    BY <2>1, HardIsSum
  <2> QED BY <2>6, <2>7, <2>8
<1>3. PICK one \in [CARDS -> Nat] : one = B!With(zero, c)
  BY DrawnCards
<1>4. B!Hard(one) = Low(c)
  BY <1>2, <1>3, HardWith, CardsCount
<1>5. PICK two \in [CARDS -> Nat] : two = B!With(one, d)
  BY DrawnCards
<1>6. B!Hard(two) = Low(c) + Low(d)
  BY <1>4, <1>5, HardWith
<1>7. B!Two(c, d) = two
  BY <1>1, <1>3, <1>5 DEF B!Two
<1>8. B!Hard(two) \in 2 .. 20
  BY <1>6, CardsCount
<1> QED BY <1>7, <1>8 DEF B!HandValue

\* The code's value of a hand is its best total, and its rank follows from it
\* (handValue).
LEMMA RankOfHand ==
  ASSUME NEW cards \in [CARDS -> Nat], NEW split \in BOOLEAN
  PROVE  /\ B!HandValue(cards) \in Nat
         /\ B!Rank(cards, split) = IF B!HandValue(cards) > 21 THEN -1
                                   ELSE IF B!IsBlackjack(cards) /\ ~split THEN 22
                                   ELSE B!HandValue(cards)
<1>1. PICK aces : aces = IF B!Ace \in CARDS THEN cards[B!Ace] ELSE 0
  OBVIOUS
<1>2. PICK hard \in Nat : hard = B!Hard(cards)
  BY HardType
<1>3. aces \in Nat /\ hard >= aces
  BY <1>1, <1>2, HardType
<1>4. PICK value : value = IF aces > 0 /\ hard + 10 <= 21 THEN hard + 10 ELSE hard
  OBVIOUS
<1>5. B!HandValue(cards) = value
  BY <1>1, <1>2, <1>4 DEF B!HandValue
<1>6. PICK fit : fit = {n \in {hard + 10 * k : k \in 0 .. aces} : n <= 21}
  OBVIOUS
<1>7. fit = {n \in B!Totals(cards) : n <= 21}
  BY <1>1, <1>2, <1>6 DEF B!Totals
<1>8. value \in Nat /\ (value > 21 <=> fit = {})
      /\ (value <= 21 => value \in fit /\ \A n \in fit : n <= value)
  <2>1. value \in {hard, hard + 10} /\ value \in Nat /\ value >= hard
    BY <1>4
  <2>2. ASSUME NEW n \in fit PROVE n \in Nat /\ hard <= n /\ n <= value /\ value <= 21
    <3>1. PICK k \in 0 .. aces : n = hard + 10 * k /\ n <= 21
      BY <1>6
    <3>2. CASE k = 0
      BY <1>3, <1>4, <3>1, <3>2
    <3>3. CASE k = 1
      BY <1>3, <1>4, <3>1, <3>3
    <3>4. CASE k > 1
      <4>1. hard >= 2 /\ 10 * k >= 20
        BY <1>3, <3>1, <3>4
      <4> QED BY <3>1, <4>1
    <3> QED BY <1>3, <3>2, <3>3, <3>4
  <2>3. ASSUME value <= 21 PROVE value \in fit
    <3>1. CASE aces > 0 /\ hard + 10 <= 21
      <4>1. 1 \in 0 .. aces /\ value = hard + 10 * 1
        BY <1>3, <1>4, <3>1
      <4> QED BY <1>6, <2>3, <4>1
    <3>2. CASE ~(aces > 0 /\ hard + 10 <= 21)
      <4>1. 0 \in 0 .. aces /\ value = hard + 10 * 0
        BY <1>3, <1>4, <3>2
      <4> QED BY <1>6, <2>3, <4>1
    <3> QED BY <3>1, <3>2
  <2> QED BY <2>1, <2>2, <2>3
<1>9. ASSUME value <= 21 PROVE B!Max(fit) = value
  <2>1. value \in fit /\ \A n \in fit : n <= value
    BY <1>8, <1>9
  <2>2. \A n \in fit : n \in Int
    BY <1>6
  <2>3. PICK best : best = B!Max(fit)
    OBVIOUS
  <2>4. best \in fit /\ \A y \in fit : best >= y
    <3>1. value \in fit /\ \A y \in fit : value >= y
      BY <2>1, <2>2
    <3> QED BY <2>3, <3>1 DEF B!Max
  <2> QED BY <2>1, <2>2, <2>3, <2>4
<1>10. 21 \in fit <=> value = 21
  BY <1>8
<1>11. B!Rank(cards, split) =
         CASE fit = {} -> -1
           [] B!Count(cards) = 2 /\ 21 \in fit /\ ~split -> 22
           [] OTHER -> B!Max(fit)
  BY <1>7 DEF B!Rank
<1>12. B!IsBlackjack(cards) <=> B!Count(cards) = 2 /\ value = 21
  BY <1>5 DEF B!IsBlackjack
<1> HIDE DEF B!IsBlackjack
<1>13. CASE value > 21
  BY <1>5, <1>8, <1>11, <1>13
<1>14. CASE ~(value > 21)
  <2>1. fit # {} /\ B!Max(fit) = value
    BY <1>8, <1>9, <1>14
  <2> QED BY <1>5, <1>8, <1>10, <1>11, <1>12, <1>14, <2>1
<1> QED BY <1>13, <1>14

-----------------------------------------------------------------------------
(* Blackjack: what a hand is paid.                                         *)

\* While a round is played a hand has won nothing and says whether it is busted.
Unpaid(h) == h.net = 0 /\ (h.busted <=> B!HandValue(h.cards) > 21)

\* Cardinality is the same in the instance of Blackjack.
LEMMA SameCount == \A S : B!Cardinality(S) = Cardinality(S)
BY DEF B!Cardinality, Cardinality

\* The dealer's cards can be counted.
LEMMA BagType ==
  ASSUME NEW dealer \in Seq(CARDS)
  PROVE  B!Bag(dealer) \in [CARDS -> Nat]
<1>1. DOMAIN dealer = 1 .. Len(dealer) /\ Len(dealer) \in Nat
  BY LenProperties
<1>2. IsFiniteSet(DOMAIN dealer)
  <2>1. \A n \in Nat : IsFiniteSet(1 .. n)
    BY FS_Interval
  <2> QED BY <1>1, <2>1
<1>3. ASSUME NEW c \in CARDS
      PROVE  B!Cardinality({i \in DOMAIN dealer : dealer[i] = c}) \in Nat
  <2>1. {i \in DOMAIN dealer : dealer[i] = c} \subseteq DOMAIN dealer
    OBVIOUS
  <2>2. Cardinality({i \in DOMAIN dealer : dealer[i] = c}) \in Nat
    BY <1>2, <2>1, FS_Subset, FS_CardinalityType
  <2> QED BY <2>2, SameCount
<1> QED BY <1>3 DEF B!Bag

\* What the dealer ends with is a sequence of cards.
LEMMA DealerType ==
  ASSUME NEW t, t.dealer \in CARDS \X CARDS, NEW d \in B!DealerHands(t)
  PROVE  d \in Seq(CARDS)
<1>1. PICK up \in CARDS, hole \in CARDS : t.dealer = <<up, hole>>
  OBVIOUS
<1>2. t.dealer \in Seq(CARDS)
  BY <1>1
<1>3. CASE d = t.dealer
  BY <1>2, <1>3
<1>4. CASE d # t.dealer
  <2>1. d \in B!DealerEnds[t.dealer]
    BY <1>4 DEF B!DealerHands
  <2>2. PICK draws \in B!BoundedSeq(CARDS, MaxDraws) : d = t.dealer \o draws
    BY <2>1 DEF B!DealerEnds
  <2>3. PICK n \in 0 .. MaxDraws : draws \in [1 .. n -> CARDS]
    BY <2>2 DEF B!BoundedSeq, B!SeqOf
  <2>4. n \in Nat
    BY <2>3, BlackjackAssumption
  <2>5. draws \in Seq(CARDS)
    BY <2>3, <2>4, SeqDef
  <2> QED BY <1>2, <2>2, <2>5, ConcatProperties
<1> QED BY <1>3, <1>4

\* The rank of a hand by its value, natural being 1 for a natural.
RankIs(rank, value, natural) ==
  /\ rank = IF value > 21 THEN -1 ELSE IF natural = 1 THEN 22 ELSE value
  /\ natural = 1 => value = 21

\* What payout gives by the tests that it makes, and what the ranks ask for.
PayIs(pay, a, b, natural, other, bet, bonus) ==
  pay = IF a > 21 THEN 0
        ELSE IF natural = 1 /\ other # 1 THEN bonus
        ELSE IF other = 1 /\ natural # 1 THEN 0
        ELSE IF b > 21 \/ a > b THEN bet * 2
        ELSE IF a = b THEN bet
        ELSE 0
ByRank(pay, bet, bonus, mine, theirs) ==
  /\ pay \in Nat /\ mine \in Int /\ theirs \in Int /\ theirs >= -1
  /\ (mine = -1 \/ mine < theirs) => pay = 0
  /\ (mine # -1 /\ mine = theirs) => pay = bet
  /\ mine > theirs => pay = IF mine = 22 THEN bonus ELSE bet * 2

\* The order of the tests of payout is that of the ranks.
LEMMA RanksDecide ==
  ASSUME NEW a \in Nat, NEW b \in Nat, NEW natural \in Nat, NEW other \in Nat,
         NEW bet \in Nat, NEW bonus \in Nat,
         NEW mine, RankIs(mine, a, natural), NEW theirs, RankIs(theirs, b, other),
         NEW pay, PayIs(pay, a, b, natural, other, bet, bonus)
  PROVE  ByRank(pay, bet, bonus, mine, theirs)
<1> USE DEF RankIs, PayIs
<1>1. mine \in Int /\ theirs \in Int /\ theirs >= -1
  OBVIOUS
<1>2. pay \in Nat
  OBVIOUS
<1>3. (mine = -1 \/ mine < theirs) => pay = 0
  OBVIOUS
<1>4. (mine # -1 /\ mine = theirs) => pay = bet
  OBVIOUS
<1>5. mine > theirs => pay = IF mine = 22 THEN bonus ELSE bet * 2
  OBVIOUS
<1> QED BY <1>1, <1>2, <1>3, <1>4, <1>5 DEF ByRank

\* A payout is made by rank: nothing to a bust or a lower rank, the bet back for a
\* tie, 3 to 2 to a natural and even money to what else is higher
\* (playDealerAndResolve).
LEMMA PayoutIsFair ==
  ASSUME NEW h \in HandRecord, Unpaid(h), NEW dealer \in Seq(CARDS),
         NEW mine, mine = B!Rank(h.cards, h.fromSplit),
         NEW theirs, theirs = B!Rank(B!Bag(dealer), FALSE),
         NEW pay, pay = B!Payout(h, dealer), NEW bet \in Nat, bet = h.bet,
         NEW bonus \in Nat, bonus = (bet * 5) \div 2
  PROVE  ByRank(pay, bet, bonus, mine, theirs)
<1>1. /\ h.bet \in Nat /\ h.cards \in [CARDS -> Nat] /\ h.fromSplit \in BOOLEAN
      /\ h.busted \in BOOLEAN /\ B!Bag(dealer) \in [CARDS -> Nat]
  BY BagType DEF HandRecord
<1>2. PICK a \in Nat : a = B!HandValue(h.cards)
  BY <1>1, RankOfHand
<1>3. PICK b \in Nat : b = B!HandValue(B!Bag(dealer))
  BY <1>1, RankOfHand
<1>4. PICK natural \in {0, 1} : natural = 1 <=> B!IsBlackjack(h.cards) /\ ~h.fromSplit
  OBVIOUS
<1>5. PICK other \in {0, 1} : other = 1 <=> B!IsBlackjack(B!Bag(dealer))
  OBVIOUS
<1>6. (natural = 1 => a = 21) /\ (other = 1 => b = 21)
  BY <1>2, <1>3, <1>4, <1>5 DEF B!IsBlackjack
<1>7. RankIs(mine, a, natural)
  <2>1. mine = IF a > 21 THEN -1 ELSE IF B!IsBlackjack(h.cards) /\ ~h.fromSplit THEN 22 ELSE a
    BY <1>1, <1>2, RankOfHand
  <2> QED BY <1>4, <1>6, <2>1 DEF RankIs
<1>8. RankIs(theirs, b, other)
  <2>1. PICK no \in BOOLEAN : no = FALSE
    OBVIOUS
  <2>2. theirs = B!Rank(B!Bag(dealer), no)
    BY <2>1
  <2>3. theirs = IF b > 21 THEN -1 ELSE IF B!IsBlackjack(B!Bag(dealer)) /\ ~no THEN 22 ELSE b
    BY <1>1, <1>3, <2>2, RankOfHand
  <2> QED BY <1>5, <1>6, <2>1, <2>3 DEF RankIs
<1>9. h.busted <=> a > 21
  BY <1>2 DEF Unpaid
<1>10. PayIs(pay, a, b, natural, other, bet, bonus)
  <2>1. PICK two \in Nat : two = bet * 2
    OBVIOUS
  <2>2. pay = IF h.busted THEN 0
              ELSE IF (B!IsBlackjack(h.cards) /\ ~h.fromSplit) /\ ~B!IsBlackjack(B!Bag(dealer))
              THEN bonus
              ELSE IF B!IsBlackjack(B!Bag(dealer)) /\ ~(B!IsBlackjack(h.cards) /\ ~h.fromSplit)
              THEN 0
              ELSE IF b > 21 \/ a > b THEN two
              ELSE IF a = b THEN bet
              ELSE 0
    BY <1>2, <1>3, <2>1 DEF B!Payout
  <2> QED BY <1>4, <1>5, <1>9, <2>1, <2>2 DEF PayIs
<1>11. a \in Nat /\ b \in Nat /\ natural \in Nat /\ other \in Nat /\ bet \in Nat /\ bonus \in Nat
  OBVIOUS
<1> HIDE DEF RankIs, PayIs, ByRank
<1>12. ASSUME NEW m, m = mine, NEW t, t = theirs, NEW p, p = pay PROVE ByRank(p, bet, bonus, m, t)
  <2>1. RankIs(m, a, natural)
    BY <1>7, <1>12
  <2>2. RankIs(t, b, other)
    BY <1>8, <1>12
  <2>3. PayIs(p, a, b, natural, other, bet, bonus)
    BY <1>10, <1>12
  <2> QED BY <1>11, <2>1, <2>2, <2>3, RanksDecide
<1> QED BY <1>12

\* A payout is a number of chips.
LEMMA PayoutIsNumber ==
  ASSUME NEW h \in HandRecord, Unpaid(h), NEW dealer \in Seq(CARDS)
  PROVE  B!Payout(h, dealer) \in Nat
<1>1. PICK mine : mine = B!Rank(h.cards, h.fromSplit)
  OBVIOUS
<1>2. PICK theirs : theirs = B!Rank(B!Bag(dealer), FALSE)
  OBVIOUS
<1>3. PICK pay : pay = B!Payout(h, dealer)
  OBVIOUS
<1>4. PICK bet \in Nat : bet = h.bet
  BY DEF HandRecord
<1>5. PICK bonus \in Nat : bonus = (bet * 5) \div 2
  OBVIOUS
<1>6. ByRank(pay, bet, bonus, mine, theirs)
  BY <1>1, <1>2, <1>3, <1>4, <1>5, PayoutIsFair
<1> QED BY <1>3, <1>6 DEF ByRank

\* A hand that was paid was paid by the rules.
LEMMA SettledIsFair ==
  ASSUME NEW h \in HandRecord, Unpaid(h), NEW dealer \in Seq(CARDS), NEW e,
         e = [h EXCEPT !.net = B!Payout(h, dealer) - h.bet]
  PROVE  /\ e \in HandRecord /\ B!PaidByTheRules(e, dealer) /\ e.bet = h.bet
         /\ e.net = B!Payout(h, dealer) - h.bet
<1>1. PICK mine : mine = B!Rank(h.cards, h.fromSplit)
  OBVIOUS
<1>2. PICK theirs : theirs = B!Rank(B!Bag(dealer), FALSE)
  OBVIOUS
<1>3. PICK pay : pay = B!Payout(h, dealer)
  OBVIOUS
<1>4. PICK bet \in Nat : bet = h.bet
  BY DEF HandRecord
<1>5. PICK bonus \in Nat : bonus = (bet * 5) \div 2
  OBVIOUS
<1>6. ByRank(pay, bet, bonus, mine, theirs)
  BY <1>1, <1>2, <1>3, <1>4, <1>5, PayoutIsFair
<1>7. PICK net \in Int : net = pay - bet
  BY <1>6 DEF ByRank
<1>8. /\ e \in HandRecord /\ e.net = net /\ e.bet = bet /\ e.cards = h.cards
      /\ e.fromSplit = h.fromSplit
  <2>1. e = [h EXCEPT !.net = net]
    BY <1>3, <1>4, <1>7
  <2> QED BY <1>4, <2>1 DEF HandRecord
<1>9. /\ (mine = -1 \/ mine < theirs) => net = -bet
      /\ (mine # -1 /\ mine = theirs) => net = 0
      /\ mine > theirs => net = IF mine = 22 THEN (3 * bet) \div 2 ELSE bet
  <2>1. bonus - bet = (3 * bet) \div 2
    BY <1>5
  <2>2. mine > theirs => net = IF mine = 22 THEN bonus - bet ELSE bet
    BY <1>6, <1>7 DEF ByRank
  <2> QED BY <1>6, <1>7, <2>1, <2>2 DEF ByRank
<1>10. B!PaidByTheRules(e, dealer)
  <2>1. mine = B!Rank(e.cards, e.fromSplit)
    BY <1>1, <1>8
  <2>2. \/ ~(B!Rank(e.cards, e.fromSplit) = -1
              \/ B!Rank(e.cards, e.fromSplit) < B!Rank(B!Bag(dealer), FALSE))
        \/ e.net = -e.bet
    BY <1>2, <1>8, <1>9, <2>1
  <2>3. \/ ~(B!Rank(e.cards, e.fromSplit) # -1
              /\ B!Rank(e.cards, e.fromSplit) = B!Rank(B!Bag(dealer), FALSE))
        \/ e.net = 0
    BY <1>2, <1>8, <1>9, <2>1
  <2>4. \/ ~(B!Rank(e.cards, e.fromSplit) > B!Rank(B!Bag(dealer), FALSE))
        \/ e.net = IF B!Rank(e.cards, e.fromSplit) = 22 THEN (3 * e.bet) \div 2 ELSE e.bet
    <3>1. PICK half : half = (3 * bet) \div 2
      OBVIOUS
    <3>2. mine > theirs => e.net = IF mine = 22 THEN half ELSE bet
      BY <1>8, <1>9, <3>1
    <3>3. half = (3 * e.bet) \div 2 /\ bet = e.bet
      BY <1>8, <3>1
    <3> DEFINE Higher(m, n) == \/ ~(m > n)
                               \/ e.net = IF m = 22 THEN (3 * e.bet) \div 2 ELSE e.bet
    <3>4. Higher(mine, theirs)
      BY ONLY <3>2, <3>3, Zenon
    <3> HIDE DEF Higher
    <3>5. Higher(B!Rank(e.cards, e.fromSplit), B!Rank(B!Bag(dealer), FALSE))
      BY <1>2, <2>1, <3>4
    <3> QED BY Zenon, <3>5 DEF Higher
  <2> QED BY <2>2, <2>3, <2>4, Zenon DEF B!PaidByTheRules
<1> QED BY <1>3, <1>4, <1>7, <1>8, <1>10

-----------------------------------------------------------------------------
(* Blackjack: the invariant.                                               *)

\* While a round is played nothing is won, every hand says whether it is busted,
\* only those who bet hold cards and the dealer holds two.
InRound(t) ==
  /\ IsBoard(t) /\ t.phase = "playing" /\ ~t.dealerReveal /\ t.dealer \in CARDS \X CARDS
  /\ \A s \in B!Seated(t) \ ToSet(t.hand) : t.players[s].hands = << >>
  /\ \A s \in B!Seated(t) : \A i \in DOMAIN B!Hands(t, s) : Unpaid(B!Hands(t, s)[i])

\* The invariant of blackjack.
BoardIsFair(t) ==
  /\ IsBoard(t)
  /\ t.phase \in {"waiting", "betting", "playing", "done"}
  /\ t.phase = "done" =>
       \A s \in B!Seated(t) : \A i \in DOMAIN B!Hands(t, s) :
         B!PaidByTheRules(B!Hands(t, s)[i], t.dealer)
  /\ t.phase = "waiting" => B!Seated(t) = {}
  /\ t.phase = "betting" => \A s \in B!Seated(t) : t.players[s].hands = << >>
  /\ t.phase = "playing" => /\ InRound(t) /\ t.toAct \in ToSet(t.hand)
                            /\ t.players[t.toAct].active \in DOMAIN B!Hands(t, t.toAct)

-----------------------------------------------------------------------------
(* Blackjack: a box is replaced.                                           *)

\* The same of a box, what its seat owns, and a box of which nothing is
\* settled.
BetsOf(hands) == [i \in DOMAIN hands |-> hands[i].bet]
BoxWealth(box) == box.chips + SumFunction(BetsOf(box.hands))
Fresh(box) == \A i \in DOMAIN box.hands : Unpaid(box.hands[i])

\* u is t with the box of s replaced and the turn given to act.
Placed(u, t, s, box, act) ==
  u = [phase |-> t.phase, players |-> [t.players EXCEPT ![s] = box], dealer |-> t.dealer,
       dealerReveal |-> t.dealerReveal, hand |-> t.hand, toAct |-> act,
       results |-> t.results]

\* Nothing changed hands between t and u but what the end of the round settles.
Settles(u, t) ==
  /\ B!Seated(t) \subseteq B!Seated(u)
  /\ \A s \in B!Seated(t) :
       B!Wealth(u, s) = B!Wealth(t, s)
         + (IF t.phase # "done" /\ u.phase = "done" THEN B!Won(u, s) ELSE 0)

\* A table with another box for one seat is a table.
LEMMA PlacedType ==
  ASSUME NEW t, IsBoard(t), NEW s \in B!Seated(t), NEW box \in BoxRecord, NEW act,
         NEW u, Placed(u, t, s, box, act)
  PROVE  /\ IsBoard(u) /\ B!Seated(u) = B!Seated(t)
         /\ u.players[s] = box
         /\ \A x \in B!Seated(t) \ {s} : u.players[x] = t.players[x]
         /\ u.phase = t.phase /\ u.hand = t.hand /\ u.toAct = act
         /\ u.dealerReveal = t.dealerReveal /\ u.dealer = t.dealer
<1>1. PICK players : players = [t.players EXCEPT ![s] = box]
  OBVIOUS
<1>2. u = [phase |-> t.phase, players |-> players, dealer |-> t.dealer,
           dealerReveal |-> t.dealerReveal, hand |-> t.hand, toAct |-> act,
           results |-> t.results]
  BY <1>1 DEF Placed
<1>3. t.players \in [B!Seated(t) -> BoxRecord]
  BY DEF IsBoard
<1>4. /\ players \in [B!Seated(t) -> BoxRecord] /\ players[s] = box
      /\ \A x \in B!Seated(t) \ {s} : players[x] = t.players[x]
  BY <1>1, <1>3
<1>5. /\ u.phase = t.phase /\ u.hand = t.hand /\ u.toAct = act /\ u.players = players
      /\ u.dealerReveal = t.dealerReveal /\ u.dealer = t.dealer /\ u.results = t.results
  BY <1>2
<1>6. B!Seated(u) = B!Seated(t)
  BY <1>4, <1>5 DEF B!Seated
<1>7. IsBoard(u)
  BY <1>2, <1>4, <1>5, <1>6 DEF IsBoard
<1> QED BY <1>4, <1>5, <1>6, <1>7

\* The round goes on when one seat has played, and nothing is won by it.
LEMMA RoundGoesOn ==
  ASSUME NEW t, InRound(t), NEW s \in ToSet(t.hand), NEW box \in BoxRecord, Fresh(box),
         NEW act, NEW u, Placed(u, t, s, box, act)
  PROVE  InRound(u)
<1>0. IsBoard(t)
  BY DEF InRound
<1>1. s \in B!Seated(t)
  BY <1>0, InHandAreSeated DEF IsBoard
<1>2. /\ IsBoard(u) /\ B!Seated(u) = B!Seated(t)
      /\ u.players[s] = box
      /\ \A x \in B!Seated(t) \ {s} : u.players[x] = t.players[x]
      /\ u.phase = t.phase /\ u.hand = t.hand /\ u.dealerReveal = t.dealerReveal
      /\ u.dealer = t.dealer
  BY <1>0, <1>1, PlacedType
<1>3. u.phase = "playing" /\ ~u.dealerReveal /\ u.dealer \in CARDS \X CARDS
  BY <1>2 DEF InRound
<1>4. ASSUME NEW x \in B!Seated(u) \ ToSet(u.hand) PROVE u.players[x].hands = << >>
  BY <1>2, <1>4 DEF InRound
<1>5. ASSUME NEW x \in B!Seated(u), NEW i \in DOMAIN B!Hands(u, x)
      PROVE  Unpaid(B!Hands(u, x)[i])
  <2>1. CASE x = s
    BY <1>2, <2>1 DEF Fresh, B!Hands
  <2>2. CASE x # s
    BY <1>2, <2>2 DEF InRound, B!Hands
  <2> QED BY <2>1, <2>2
<1> QED BY <1>2, <1>3, <1>4, <1>5 DEF InRound

\* A round in which an active hand is to act keeps the invariant.
LEMMA RoundIsFair ==
  ASSUME NEW u, InRound(u), u.toAct \in ToSet(u.hand),
         u.players[u.toAct].active \in DOMAIN B!Hands(u, u.toAct)
  PROVE  BoardIsFair(u)
<1>1. IsBoard(u) /\ u.phase = "playing"
  BY DEF InRound
<1> QED BY <1>1 DEF BoardIsFair

\* In a round a seat owns its chips and the bets on its hands.
LEMMA WealthInRound ==
  ASSUME NEW t, IsBoard(t), t.phase = "playing", NEW s \in B!Seated(t)
  PROVE  /\ B!Wealth(t, s) = BoxWealth(t.players[s])
         /\ BoxWealth(t.players[s]) \in Int
<1>1. B!StakeOf(t, s) = SumFunction(Bets(t, s))
  BY StakeIsSum DEF B!StakeOf
<1>2. Bets(t, s) = BetsOf(t.players[s].hands)
  BY DEF Bets, BetsOf, B!Hands
<1>3. SumFunction(Bets(t, s)) \in Int
  BY BetsType, SumType
<1>4. t.players[s].chips \in Int
  BY HandsAreRecords DEF BoxRecord
<1> QED BY <1>1, <1>2, <1>3, <1>4 DEF B!Wealth, BoxWealth

\* A round is played on with no chip made or lost.
LEMMA WealthIsKept ==
  ASSUME NEW t, InRound(t), NEW s \in ToSet(t.hand), NEW box \in BoxRecord,
         BoxWealth(box) = BoxWealth(t.players[s]),
         NEW act, NEW u, Placed(u, t, s, box, act)
  PROVE  B!Seated(u) = B!Seated(t) /\ \A x \in B!Seated(t) : B!Wealth(u, x) = B!Wealth(t, x)
<1>0. IsBoard(t) /\ t.phase = "playing"
  BY DEF InRound
<1>1. s \in B!Seated(t)
  BY <1>0, InHandAreSeated DEF IsBoard
<1>2. /\ IsBoard(u) /\ B!Seated(u) = B!Seated(t)
      /\ u.players[s] = box
      /\ \A x \in B!Seated(t) \ {s} : u.players[x] = t.players[x]
      /\ u.phase = t.phase
  BY <1>0, <1>1, PlacedType
<1>3. ASSUME NEW x \in B!Seated(t) PROVE B!Wealth(u, x) = B!Wealth(t, x)
  <2>1. B!Wealth(u, x) = BoxWealth(u.players[x]) /\ B!Wealth(t, x) = BoxWealth(t.players[x])
    BY <1>0, <1>2, WealthInRound
  <2>2. BoxWealth(u.players[x]) = BoxWealth(t.players[x])
    BY <1>2
  <2> QED BY <2>1, <2>2
<1> QED BY <1>2, <1>3

-----------------------------------------------------------------------------
(* Blackjack: the turn goes on (focus, afterAction).                       *)

\* Focusing on a seat changes whose turn it is and which hand is active.
LEMMA FocusPlaces ==
  ASSUME NEW t, IsBoard(t), NEW s \in B!Seated(t), NEW k, k = B!FirstLiveHand(t, s),
         NEW box, box = [t.players[s] EXCEPT !.active = k]
  PROVE  Placed(B!Focus(t, s), t, s, box, s)
<1>1. PICK u : u = B!Focus(t, s)
  OBVIOUS
<1>2. u = [t EXCEPT !.toAct = s, !.players[s].active = k]
  BY <1>1 DEF B!Focus
<1>3. u.players = [t.players EXCEPT ![s].active = k]
  BY <1>2 DEF IsBoard
<1>4. u.players = [t.players EXCEPT ![s] = box]
  BY <1>3 DEF IsBoard
<1>5. u = [phase |-> t.phase, players |-> u.players, dealer |-> t.dealer,
           dealerReveal |-> t.dealerReveal, hand |-> t.hand, toAct |-> s,
           results |-> t.results]
  BY <1>2 DEF IsBoard
<1> QED BY <1>1, <1>4, <1>5 DEF Placed

\* The turn passes to a hand that is still played (focus).
LEMMA FocusIsFair ==
  ASSUME NEW t, InRound(t), NEW s \in ToSet(t.hand), B!FirstLiveHand(t, s) # 0,
         NEW u, u = B!Focus(t, s)
  PROVE  BoardIsFair(u) /\ Settles(u, t)
<1>0. IsBoard(t) /\ t.phase = "playing"
  BY DEF InRound
<1>1. s \in B!Seated(t)
  BY <1>0, InHandAreSeated DEF IsBoard
<1>2. PICK k : k = B!FirstLiveHand(t, s)
  OBVIOUS
<1>3. k \in DOMAIN B!Hands(t, s) /\ k \in Nat
  <2>1. k \in DOMAIN B!Hands(t, s)
    BY <1>0, <1>1, <1>2, FirstLiveHandIsLive
  <2>2. DOMAIN B!Hands(t, s) \subseteq Nat \ {0}
    BY <1>0, <1>1, HandsAreRecords
  <2> QED BY <2>1, <2>2
<1>4. PICK box : box = [t.players[s] EXCEPT !.active = k]
  OBVIOUS
<1>5. /\ box \in BoxRecord /\ box.hands = t.players[s].hands
      /\ box.chips = t.players[s].chips /\ box.active = k
  <2>1. t.players[s] \in BoxRecord
    BY <1>0, <1>1, HandsAreRecords
  <2> QED BY <1>3, <1>4, <2>1 DEF BoxRecord
<1>6. Fresh(box)
  BY <1>1, <1>5 DEF InRound, Fresh, B!Hands
<1>7. Placed(u, t, s, box, s)
  BY <1>0, <1>1, <1>2, <1>4, FocusPlaces
<1>8. InRound(u)
  BY <1>5, <1>6, <1>7, RoundGoesOn
<1>9. BoxWealth(box) = BoxWealth(t.players[s])
  BY <1>5 DEF BoxWealth
<1>10. /\ B!Seated(u) = B!Seated(t)
       /\ \A x \in B!Seated(t) : B!Wealth(u, x) = B!Wealth(t, x)
  BY <1>5, <1>7, <1>9, WealthIsKept
<1>11. /\ u.players[s] = box /\ u.phase = t.phase /\ u.hand = t.hand /\ u.toAct = s
  BY <1>0, <1>1, <1>5, <1>7, PlacedType
<1>12. BoardIsFair(u)
  <2>1. u.toAct \in ToSet(u.hand) /\ u.players[u.toAct].active \in DOMAIN B!Hands(u, u.toAct)
    BY <1>3, <1>5, <1>11 DEF B!Hands
  <2> QED BY <1>8, <2>1, RoundIsFair
<1>13. ASSUME NEW x \in B!Seated(t) PROVE B!Wealth(t, x) \in Int
  BY <1>0, WealthInRound
<1> QED BY <1>0, <1>10, <1>11, <1>12, <1>13 DEF Settles
-----------------------------------------------------------------------------
(* Blackjack: the end of a round (playDealerAndResolve).                   *)

\* What the hands of a box have won, and what the dealer pays for them.
NetsOf(hands) == [i \in DOMAIN hands |-> hands[i].net]
PaysOf(hands, dealer) == [i \in DOMAIN hands |-> B!Payout(hands[i], dealer)]

\* e is the box of a seat that is paid.
IsSettled(e, box, dealer) ==
  LET pay == PaysOf(box.hands, dealer) IN
  e = [box EXCEPT
         !.chips = @ + B!MapThenSumSet(LAMBDA i : pay[i], DOMAIN pay),
         !.hands = [i \in DOMAIN pay |->
                      [box.hands[i] EXCEPT !.net = pay[i] - box.hands[i].bet]]]

\* The hands of a box and their bets.
LEMMA BoxHands ==
  ASSUME NEW box \in BoxRecord
  PROVE  /\ box.chips \in Nat /\ box.hands \in Seq(HandRecord)
         /\ IsFiniteSet(DOMAIN box.hands) /\ DOMAIN box.hands = 1 .. Len(box.hands)
         /\ \A i \in DOMAIN box.hands : box.hands[i] \in HandRecord /\ box.hands[i].bet \in Nat
<1>1. box.chips \in Nat /\ box.hands \in Seq(HandRecord)
  BY DEF BoxRecord
<1>2. PICK hands : hands = box.hands
  OBVIOUS
<1>3. /\ DOMAIN hands = 1 .. Len(hands) /\ Len(hands) \in Nat
      /\ \A i \in DOMAIN hands : hands[i] \in HandRecord
  BY <1>1, <1>2, LenProperties, ElementOfSeq
<1>4. IsFiniteSet(DOMAIN hands)
  <2>1. \A n \in Nat : IsFiniteSet(1 .. n)
    BY FS_Interval
  <2> QED BY <1>3, <2>1
<1>5. \A i \in DOMAIN hands : hands[i].bet \in Nat
  BY <1>3 DEF HandRecord
<1> QED BY <1>1, <1>2, <1>3, <1>4, <1>5

\* A seat that is paid owns what it owned and what its hands have won.
LEMMA SettledBox ==
  ASSUME NEW box \in BoxRecord, Fresh(box), NEW dealer \in Seq(CARDS), NEW e,
         IsSettled(e, box, dealer)
  PROVE  /\ e \in BoxRecord
         /\ \A i \in DOMAIN e.hands : B!PaidByTheRules(e.hands[i], dealer)
         /\ e.chips = BoxWealth(box) + SumFunction(NetsOf(e.hands))
<1>1. /\ box.chips \in Nat /\ box.hands \in Seq(HandRecord)
      /\ IsFiniteSet(DOMAIN box.hands) /\ DOMAIN box.hands = 1 .. Len(box.hands)
      /\ \A i \in DOMAIN box.hands : box.hands[i] \in HandRecord /\ box.hands[i].bet \in Nat
  BY BoxHands
<1>2. PICK S : S = DOMAIN box.hands
  OBVIOUS
<1>3. PICK pay : pay = PaysOf(box.hands, dealer)
  OBVIOUS
<1>4. pay \in [S -> Nat] /\ \A i \in S : pay[i] = B!Payout(box.hands[i], dealer)
  <2>1. ASSUME NEW i \in S PROVE B!Payout(box.hands[i], dealer) \in Nat
    <3>1. PICK h \in HandRecord : h = box.hands[i]
      BY <1>1, <1>2
    <3>2. Unpaid(h)
      BY <1>2, <3>1 DEF Fresh
    <3> QED BY <3>1, <3>2, PayoutIsNumber
  <2> QED BY <1>2, <1>3, <2>1 DEF PaysOf
<1>5. pay \in [S -> Int] /\ DOMAIN pay = S /\ IsFiniteSet(S)
  BY <1>1, <1>2, <1>4
<1>6. B!MapThenSumSet(LAMBDA i : pay[i], DOMAIN pay) = SumFunction(pay)
  BY <1>5, SumOfPays
<1>7. SumFunction(pay) \in Nat
  BY <1>4, <1>5, SumNat
<1>8. PICK hands : hands = [i \in S |-> [box.hands[i] EXCEPT !.net = pay[i] - box.hands[i].bet]]
  OBVIOUS
<1>9. PICK sum \in Nat : sum = SumFunction(pay)
  BY <1>7
<1>10. e = [box EXCEPT !.chips = @ + sum, !.hands = hands]
  <2>1. e = [box EXCEPT
               !.chips = @ + B!MapThenSumSet(LAMBDA i : pay[i], DOMAIN pay),
               !.hands = [i \in DOMAIN pay |->
                            [box.hands[i] EXCEPT !.net = pay[i] - box.hands[i].bet]]]
    BY <1>3 DEF IsSettled, B!MapThenSumSet, B!MapThenFoldSet
  <2> QED BY <2>1, <1>5, <1>6, <1>8, <1>9
<1>11. ASSUME NEW i \in S
       PROVE  /\ hands[i] \in HandRecord /\ B!PaidByTheRules(hands[i], dealer)
              /\ hands[i].net = pay[i] - box.hands[i].bet
  <2>1. PICK h \in HandRecord : h = box.hands[i]
    BY <1>1, <1>2
  <2>2. hands[i] = [h EXCEPT !.net = B!Payout(h, dealer) - h.bet]
    BY <1>4, <1>8, <2>1
  <2>3. Unpaid(h)
    BY <1>2, <2>1 DEF Fresh
  <2>4. /\ hands[i] \in HandRecord /\ B!PaidByTheRules(hands[i], dealer)
        /\ hands[i].net = B!Payout(h, dealer) - h.bet
    BY <2>2, <2>3, SettledIsFair
  <2> QED BY <1>4, <2>1, <2>4
<1>12. hands \in Seq(HandRecord) /\ DOMAIN hands = S
  <2>1. S = 1 .. Len(box.hands) /\ Len(box.hands) \in Nat
    BY <1>1, <1>2, LenProperties
  <2>2. DOMAIN hands = S
    BY <1>8
  <2>3. hands \in [1 .. Len(box.hands) -> HandRecord]
    BY <1>8, <1>11, <2>1
  <2> QED BY <2>1, <2>2, <2>3, SeqDef
<1>13. e \in BoxRecord /\ e.hands = hands /\ e.chips = box.chips + sum
  <2>1. box.chips + sum \in Nat
    BY <1>1
  <2> QED BY <1>10, <1>12, <2>1 DEF BoxRecord
<1>14. SumFunction(NetsOf(hands)) = sum - SumFunction(BetsOf(box.hands))
  <2>1. PICK bets : bets = BetsOf(box.hands)
    OBVIOUS
  <2>2. bets \in [S -> Int] /\ \A i \in S : bets[i] = box.hands[i].bet
    BY <1>1, <1>2, <2>1 DEF BetsOf
  <2>3. NetsOf(hands) = [i \in S |-> pay[i] - bets[i]]
    BY <1>11, <1>12, <2>2 DEF NetsOf
  <2>4. SumFunction([i \in S |-> pay[i] - bets[i]]) = SumFunction(pay) - SumFunction(bets)
    BY <1>5, <2>2, SumDifference
  <2> QED BY <1>9, <2>1, <2>3, <2>4
<1>15. SumFunction(BetsOf(box.hands)) \in Int
  <2>1. BetsOf(box.hands) \in [S -> Int]
    BY <1>1, <1>2 DEF BetsOf
  <2> QED BY <1>5, <2>1, SumType
<1> QED BY <1>1, <1>11, <1>12, <1>13, <1>14, <1>15 DEF BoxWealth

\* A seat without hands has staked and won nothing.
LEMMA EmptyBox ==
  ASSUME NEW box \in BoxRecord, box.hands = << >>
  PROVE  /\ SumFunction(BetsOf(box.hands)) = 0 /\ SumFunction(NetsOf(box.hands)) = 0
         /\ DOMAIN box.hands = {}
<1>1. DOMAIN box.hands = {}
  <2>1. DOMAIN box.hands = 1 .. Len(box.hands) /\ Len(box.hands) = 0
    BY BoxHands, EmptySeq
  <2> QED BY <2>1
<1>2. \A f : f \in [{} -> Int] => SumFunction(f) = 0
  <2> SUFFICES ASSUME NEW f \in [{} -> Int] PROVE SumFunction(f) = 0
    OBVIOUS
  <2>1. IsFiniteSet({})
    BY FS_EmptySet
  <2>2. PICK g : PartialSums(g, f, {}) /\ SumFunction(f) = g[{}]
    BY <2>1, SumIsPartialSum
  <2> QED BY <2>2 DEF PartialSums, SumEquations
<1>3. BetsOf(box.hands) \in [{} -> Int] /\ NetsOf(box.hands) \in [{} -> Int]
  BY <1>1 DEF BetsOf, NetsOf
<1> QED BY <1>1, <1>2, <1>3

\* The end of a round pays every hand once (playDealerAndResolve).
LEMMA ResolveIsFair ==
  ASSUME NEW t, InRound(t), NEW dealer \in Seq(CARDS), NEW u, u = B!Resolve(t, dealer)
  PROVE  BoardIsFair(u) /\ Settles(u, t)
<1>0. IsBoard(t) /\ t.phase = "playing" /\ t.players \in [B!Seated(t) -> BoxRecord]
  BY DEF InRound, IsBoard
<1>1. PICK players : players =
        [s \in B!Seated(t) |->
           IF s \in ToSet(t.hand)
           THEN LET pay == PaysOf(t.players[s].hands, dealer) IN
                [t.players[s] EXCEPT
                   !.chips = @ + B!MapThenSumSet(LAMBDA i : pay[i], DOMAIN pay),
                   !.hands = [i \in DOMAIN pay |->
                                [t.players[s].hands[i] EXCEPT
                                   !.net = pay[i] - t.players[s].hands[i].bet]]]
           ELSE t.players[s]]
  OBVIOUS
<1>2. u = [t EXCEPT !.players = players, !.dealer = dealer, !.dealerReveal = TRUE,
                    !.results = B!HandValue(B!Bag(dealer)), !.phase = "done", !.toAct = None]
  BY <1>1, SameBlackjack DEF B!Resolve, PaysOf, B!Hands
<1>3. PICK results : results = B!HandValue(B!Bag(dealer))
  OBVIOUS
<1>4. u = [phase |-> "done", players |-> players, dealer |-> dealer, dealerReveal |-> TRUE,
           hand |-> t.hand, toAct |-> None, results |-> results]
  BY <1>0, <1>2, <1>3 DEF IsBoard
<1>5. \A s \in ToSet(t.hand) \cap B!Seated(t) : IsSettled(players[s], t.players[s], dealer)
  BY <1>1 DEF IsSettled
<1>6. \A s \in B!Seated(t) \ ToSet(t.hand) : players[s] = t.players[s]
  BY <1>1
<1>7. DOMAIN players = B!Seated(t)
  BY <1>1
<1>8. ASSUME NEW s \in B!Seated(t)
      PROVE  /\ players[s] \in BoxRecord
             /\ \A i \in DOMAIN players[s].hands : B!PaidByTheRules(players[s].hands[i], dealer)
             /\ players[s].chips = BoxWealth(t.players[s]) + SumFunction(NetsOf(players[s].hands))
  <2>1. t.players[s] \in BoxRecord
    BY <1>0
  <2>2. CASE s \in ToSet(t.hand)
    <3>1. Fresh(t.players[s])
      BY DEF InRound, Fresh, B!Hands
    <3>2. IsSettled(players[s], t.players[s], dealer)
      BY <1>5, <2>2
    <3> QED BY <2>1, <3>1, <3>2, SettledBox
  <2>3. CASE s \notin ToSet(t.hand)
    <3>1. players[s] = t.players[s] /\ t.players[s].hands = << >>
      BY <1>6, <2>3 DEF InRound
    <3>2. t.players[s].chips \in Nat
      BY <2>1, BoxHands
    <3> QED BY <2>1, <3>1, <3>2, EmptyBox DEF BoxWealth
  <2> QED BY <2>2, <2>3
<1>9. players = [s \in B!Seated(t) |-> players[s]]
  BY <1>1
<1>10. players \in [B!Seated(t) -> BoxRecord]
  BY <1>8, <1>9
<1>11. /\ u.phase = "done" /\ u.players = players /\ u.dealer = dealer
       /\ u.dealerReveal = TRUE /\ u.hand = t.hand /\ u.toAct = None /\ u.results = results
  BY <1>4
<1>12. B!Seated(u) = B!Seated(t)
  BY <1>7, <1>11 DEF B!Seated
<1>13. IsBoard(u)
  <2>1. u = [phase |-> u.phase, players |-> u.players, dealer |-> u.dealer,
             dealerReveal |-> u.dealerReveal, hand |-> u.hand, toAct |-> u.toAct,
             results |-> u.results]
    BY <1>4
  <2>2. B!Seated(t) \subseteq ToSet(TABLE) /\ t.hand \in Seq(B!Seated(t))
    BY <1>0 DEF IsBoard
  <2> QED BY <2>1, <2>2, <1>10, <1>11, <1>12 DEF IsBoard
<1>14. BoardIsFair(u)
  <2>1. ASSUME NEW s \in B!Seated(u), NEW i \in DOMAIN B!Hands(u, s)
        PROVE  B!PaidByTheRules(B!Hands(u, s)[i], u.dealer)
    BY <1>8, <1>11, <1>12 DEF B!Hands
  <2> QED BY <1>11, <1>13, <2>1 DEF BoardIsFair
<1>15. ASSUME NEW s \in B!Seated(t) PROVE B!Wealth(u, s) = B!Wealth(t, s) + B!Won(u, s)
  <2>1. B!Wealth(t, s) = BoxWealth(t.players[s]) /\ BoxWealth(t.players[s]) \in Int
    BY <1>0, WealthInRound
  <2>2. B!Won(u, s) = SumFunction(NetsOf(players[s].hands))
    <3>1. Nets(u, s) = NetsOf(players[s].hands)
      BY <1>11 DEF Nets, NetsOf, B!Hands
    <3> QED BY <1>12, <1>13, <3>1, WonIsSum
  <2>3. B!StakeOf(u, s) = 0
    BY <1>11 DEF B!StakeOf
  <2>4. players[s].chips \in Nat
    BY <1>8, BoxHands
  <2> QED BY <1>8, <1>11, <2>1, <2>2, <2>3, <2>4 DEF B!Wealth
<1> QED BY <1>0, <1>11, <1>12, <1>14, <1>15 DEF Settles

\* The game goes on with a seat that has a hand to play, or the round ends.
MayGoOn(t, next) ==
  next = None \/ (next \in ToSet(t.hand) /\ B!FirstLiveHand(t, next) # 0)

\* Play goes on with a seat that has a hand to play, or the round ends.
LEMMA PlayOnIsFair ==
  ASSUME NEW t, InRound(t), NEW next, MayGoOn(t, next),
         NEW u \in B!PlayOn(t, next)
  PROVE  BoardIsFair(u) /\ Settles(u, t)
<1>1. CASE next # None
  <2>1. u = B!Focus(t, next)
    BY <1>1 DEF B!PlayOn
  <2>2. next \in ToSet(t.hand) /\ B!FirstLiveHand(t, next) # 0
    BY <1>1 DEF MayGoOn
  <2> QED BY <2>1, <2>2, FocusIsFair
<1>2. CASE next = None
  <2>1. PICK dealer \in B!DealerHands(t) : u = B!Resolve(t, dealer)
    BY <1>2 DEF B!PlayOn
  <2>2. dealer \in Seq(CARDS)
    BY DealerType DEF InRound
  <2> QED BY <2>1, <2>2, ResolveIsFair
<1> QED BY <1>1, <1>2

\* After an action the seat goes on, the next one does, or the round ends
\* (afterAction).
LEMMA RoundGoesOnFairly ==
  ASSUME NEW t, InRound(t), t.toAct \in ToSet(t.hand), NEW u \in B!AfterAction(t)
  PROVE  BoardIsFair(u) /\ Settles(u, t)
<1>0. IsBoard(t)
  BY DEF InRound
<1>1. CASE B!FirstLiveHand(t, t.toAct) # 0
  <2>1. u \in B!PlayOn(t, t.toAct) /\ MayGoOn(t, t.toAct)
    BY <1>1 DEF B!AfterAction, MayGoOn
  <2> QED BY <2>1, PlayOnIsFair
<1>2. CASE B!FirstLiveHand(t, t.toAct) = 0
  <2>1. u \in B!PlayOn(t, B!NextActor(t, t.toAct))
    BY <1>2 DEF B!AfterAction
  <2>2. MayGoOn(t, B!NextActor(t, t.toAct))
    BY <1>0, NextBoxIsLive DEF MayGoOn
  <2> QED BY <2>1, <2>2, PlayOnIsFair
<1> QED BY <1>1, <1>2
-----------------------------------------------------------------------------
(* Blackjack: between the rounds.                                          *)

\* A sequence of some is a sequence of more.
LEMMA SeqOfMore ==
  ASSUME NEW S, NEW R, S \subseteq R, NEW seq \in Seq(S)
  PROVE  seq \in Seq(R)
<1>1. PICK n \in Nat : seq \in [1 .. n -> S]
  BY SeqDef
<1>2. seq \in [1 .. n -> R]
  BY <1>1
<1> QED BY <1>2, SeqDef

\* The seats dealt to are those that have bet, all of them.
LEMMA BettersInOrder ==
  ASSUME NEW S, S \subseteq ToSet(TABLE)
  PROVE  B!InOrder(S) \in Seq(S) /\ S \subseteq ToSet(B!InOrder(S))
<1>1. B!InOrder(S) = FoldLeft(LAMBDA order, s : IF s \in S THEN Append(order, s) ELSE order,
                              << >>, TABLE)
  BY DEF B!InOrder, B!FoldLeft, FoldLeft, B!MapThenFoldSet, MapThenFoldSet, B!Max, Max
<1>2. PICK D : D = ToSet(TABLE) /\ TABLE \in Seq(D) /\ D \cap S = S
  BY BlackjackAssumption
<1>3. PICK r \in Seq(D \cap S) :
        /\ r = FoldLeft(LAMBDA order, s : IF s \in S THEN Append(order, s) ELSE order,
                        << >>, TABLE)
        /\ \A x \in ToSet(TABLE) \cap S : x \in ToSet(r)
  BY <1>2, FilterType
<1>4. B!InOrder(S) = r
  BY <1>1, <1>3
<1> QED BY <1>2, <1>3, <1>4

\* Between rounds a seat owns its chips, and its bet while bets are taken.
LEMMA WealthBetweenRounds ==
  ASSUME NEW t, IsBoard(t), t.phase # "playing", NEW s \in B!Seated(t)
  PROVE  /\ B!Wealth(t, s) \in Int
         /\ B!Wealth(t, s) = t.players[s].chips
              + (IF t.phase = "betting" THEN t.players[s].bet ELSE 0)
<1>1. B!StakeOf(t, s) = IF t.phase = "betting" THEN t.players[s].bet ELSE 0
  <2>1. CASE t.phase = "betting"
    BY <2>1 DEF B!StakeOf
  <2>2. CASE t.phase # "betting"
    BY <2>2 DEF B!StakeOf
  <2> QED BY <2>1, <2>2
<1>2. t.players[s].chips \in Int /\ t.players[s].bet \in Int
  <2>1. t.players[s] \in BoxRecord
    BY HandsAreRecords
  <2> QED BY <2>1 DEF BoxRecord
<1> QED BY <1>1, <1>2 DEF B!Wealth

\* What a seat owns is a number of chips.
LEMMA WealthIsNumber ==
  ASSUME NEW t, IsBoard(t), NEW s \in B!Seated(t)
  PROVE  B!Wealth(t, s) \in Int
<1>1. CASE t.phase = "playing"
  BY <1>1, WealthInRound
<1>2. CASE t.phase # "playing"
  BY <1>2, WealthBetweenRounds
<1> QED BY <1>1, <1>2

\* A player sits down (applyAction, case sit).
LEMMA SitIsFair ==
  ASSUME BoardIsFair(table), NEW s \in ToSet(TABLE), B!Sit(s)
  PROVE  BoardIsFair(table') /\ Settles(table', table)
<1>0. IsBoard(table) /\ table.players \in [B!Seated(table) -> BoxRecord]
  BY DEF BoardIsFair, IsBoard
<1>1. PICK players : players =
        [x \in B!Seated(table) \cup {s} |->
           IF x = s THEN [chips |-> START, bet |-> 0, hands |-> << >>, active |-> 1]
           ELSE table.players[x]]
  OBVIOUS
<1>2. PICK phase : phase = IF table.phase = "waiting" THEN "betting" ELSE table.phase
  OBVIOUS
<1>3. s \notin B!Seated(table) /\ table' = [table EXCEPT !.players = players, !.phase = phase]
  BY <1>0, <1>1, <1>2 DEF B!Sit, IsBoard
<1>4. table' = [phase |-> phase, players |-> players, dealer |-> table.dealer,
                dealerReveal |-> table.dealerReveal, hand |-> table.hand,
                toAct |-> table.toAct, results |-> table.results]
  BY <1>0, <1>3 DEF IsBoard
<1>5. PICK u : u = table'
  OBVIOUS
<1>6. /\ u.phase = phase /\ u.players = players /\ u.dealer = table.dealer
      /\ u.dealerReveal = table.dealerReveal /\ u.hand = table.hand
      /\ u.toAct = table.toAct /\ u.results = table.results
  BY <1>4, <1>5
<1>7. /\ players[s].chips \in Nat /\ players[s] \in BoxRecord /\ players[s].hands = << >>
  <2>1. START \in Nat
    BY PokerAssumption
  <2>2. << >> \in Seq(HandRecord)
    BY EmptySeq
  <2>3. players[s] = [chips |-> START, bet |-> 0, hands |-> << >>, active |-> 1]
    BY <1>1
  <2> QED BY <2>1, <2>2, <2>3 DEF BoxRecord
<1>8. \A x \in B!Seated(table) : players[x] = table.players[x]
  BY <1>1, <1>3
<1>9. B!Seated(u) = B!Seated(table) \cup {s}
  BY <1>1, <1>6 DEF B!Seated
<1>10. players \in [B!Seated(u) -> BoxRecord]
  <2>1. players = [x \in B!Seated(u) |-> players[x]]
    BY <1>1, <1>9
  <2>2. \A x \in B!Seated(u) : players[x] \in BoxRecord
    BY <1>0, <1>7, <1>8, <1>9
  <2> QED BY <2>1, <2>2
<1>11. IsBoard(u)
  <2>1. u = [phase |-> u.phase, players |-> u.players, dealer |-> u.dealer,
             dealerReveal |-> u.dealerReveal, hand |-> u.hand, toAct |-> u.toAct,
             results |-> u.results]
    BY <1>4, <1>5
  <2>2. B!Seated(table) \subseteq ToSet(TABLE) /\ table.hand \in Seq(B!Seated(table))
    BY <1>0 DEF IsBoard
  <2>3. u.hand \in Seq(B!Seated(u))
    BY <1>6, <1>9, <2>2, SeqOfMore
  <2> QED BY <2>1, <2>2, <2>3, <1>6, <1>9, <1>10 DEF IsBoard
<1>12. DOMAIN players[s].hands = {}
  BY <1>7, EmptyBox
<1>13. ASSUME NEW x \in B!Seated(u), NEW i \in DOMAIN B!Hands(u, x)
       PROVE  /\ x \in B!Seated(table) /\ i \in DOMAIN B!Hands(table, x)
              /\ B!Hands(u, x)[i] = B!Hands(table, x)[i]
  <2>1. x # s
    BY <1>6, <1>12, <1>13 DEF B!Hands
  <2> QED BY <2>1, <1>6, <1>8, <1>9, <1>13 DEF B!Hands
<1>14. phase \in {"betting", "playing", "done"} /\ (phase = "betting" => table.phase \in {"waiting", "betting"})
  BY <1>2 DEF BoardIsFair
<1>15. ASSUME phase = "playing"
       PROVE  /\ InRound(u) /\ u.toAct \in ToSet(u.hand)
              /\ u.players[u.toAct].active \in DOMAIN B!Hands(u, u.toAct)
  <2>1. /\ table.phase = "playing" /\ InRound(table) /\ table.toAct \in ToSet(table.hand)
        /\ table.players[table.toAct].active \in DOMAIN B!Hands(table, table.toAct)
    BY <1>2, <1>15 DEF BoardIsFair
  <2>2. table.toAct \in B!Seated(table)
    BY <1>0, <2>1, InHandAreSeated DEF IsBoard
  <2>3. /\ u.toAct \in ToSet(u.hand)
        /\ u.players[u.toAct].active \in DOMAIN B!Hands(u, u.toAct)
    BY <1>6, <1>8, <2>1, <2>2 DEF B!Hands
  <2>4. ASSUME NEW x \in B!Seated(u) \ ToSet(u.hand) PROVE u.players[x].hands = << >>
    BY <1>6, <1>7, <1>8, <1>9, <2>1, <2>4 DEF InRound
  <2>5. ASSUME NEW x \in B!Seated(u), NEW i \in DOMAIN B!Hands(u, x)
        PROVE  Unpaid(B!Hands(u, x)[i])
    BY <1>13, <2>1 DEF InRound
  <2>6. u.phase = "playing" /\ ~u.dealerReveal /\ u.dealer \in CARDS \X CARDS
    BY <1>6, <1>15, <2>1 DEF InRound
  <2>7. InRound(u)
    BY <1>11, <2>4, <2>5, <2>6 DEF InRound
  <2> QED BY <2>3, <2>7
<1>16. ASSUME phase = "betting", NEW x \in B!Seated(u) PROVE u.players[x].hands = << >>
  <2>1. CASE x = s
    BY <1>6, <1>7, <2>1
  <2>2. CASE x # s
    <3>1. x \in B!Seated(table) /\ u.players[x] = table.players[x]
      BY <1>6, <1>8, <1>9, <2>2
    <3> QED BY <1>14, <1>16, <3>1 DEF BoardIsFair
  <2> QED BY <2>1, <2>2
<1>17. BoardIsFair(u)
  <2>1. ASSUME u.phase = "done", NEW x \in B!Seated(u), NEW i \in DOMAIN B!Hands(u, x)
        PROVE  B!PaidByTheRules(B!Hands(u, x)[i], u.dealer)
    <3>1. table.phase = "done" /\ u.dealer = table.dealer
      BY <1>2, <1>6, <2>1
    <3> QED BY <1>13, <3>1 DEF BoardIsFair
  <2> QED BY <1>6, <1>11, <1>14, <1>15, <1>16, <2>1 DEF BoardIsFair
<1>18. ASSUME NEW x \in B!Seated(table) PROVE B!Wealth(u, x) = B!Wealth(table, x)
  <2>1. table.phase # "waiting" /\ u.phase = table.phase
    BY <1>2, <1>6 DEF BoardIsFair
  <2>2. x \in B!Seated(u) /\ u.players[x] = table.players[x]
    BY <1>6, <1>8, <1>9
  <2>3. CASE table.phase = "playing"
    BY <1>0, <1>11, <2>1, <2>2, <2>3, WealthInRound
  <2>4. CASE table.phase # "playing"
    BY <1>0, <1>11, <2>1, <2>2, <2>4, WealthBetweenRounds
  <2> QED BY <2>3, <2>4
<1>19. Settles(u, table)
  <2>1. ~(table.phase # "done" /\ u.phase = "done")
    BY <1>2, <1>6
  <2>2. \A x \in B!Seated(table) : B!Wealth(table, x) \in Int
    BY <1>0, WealthIsNumber
  <2> QED BY <1>9, <1>18, <2>1, <2>2 DEF Settles
<1> QED BY <1>5, <1>17, <1>19

\* u is made of these parts.
Made(u, phase, players, dealer, reveal, hand, toAct, results) ==
  u = [phase |-> phase, players |-> players, dealer |-> dealer, dealerReveal |-> reveal,
       hand |-> hand, toAct |-> toAct, results |-> results]

\* A table made of its parts.
LEMMA MadeBoard ==
  ASSUME NEW D, D \subseteq ToSet(TABLE), NEW players \in [D -> BoxRecord],
         NEW hand \in Seq(D), NEW phase, NEW dealer, NEW reveal, NEW toAct, NEW results,
         NEW u, Made(u, phase, players, dealer, reveal, hand, toAct, results)
  PROVE  /\ IsBoard(u) /\ B!Seated(u) = D
         /\ u.phase = phase /\ u.players = players /\ u.dealer = dealer
         /\ u.dealerReveal = reveal /\ u.hand = hand /\ u.toAct = toAct
<1>1. u = [phase |-> phase, players |-> players, dealer |-> dealer, dealerReveal |-> reveal,
           hand |-> hand, toAct |-> toAct, results |-> results]
  BY DEF Made
<1>2. /\ u.phase = phase /\ u.players = players /\ u.dealer = dealer
      /\ u.dealerReveal = reveal /\ u.hand = hand /\ u.toAct = toAct /\ u.results = results
  BY <1>1
<1>3. B!Seated(u) = D
  BY <1>2 DEF B!Seated
<1>4. u = [phase |-> u.phase, players |-> u.players, dealer |-> u.dealer,
           dealerReveal |-> u.dealerReveal, hand |-> u.hand, toAct |-> u.toAct,
           results |-> u.results]
  BY <1>1, <1>2
<1>5. IsBoard(u)
  BY <1>2, <1>3, <1>4 DEF IsBoard
<1> QED BY <1>2, <1>3, <1>5

\* While bets are taken nobody has a hand.
LEMMA BettingIsFair ==
  ASSUME NEW u, IsBoard(u), u.phase = "betting",
         \A s \in B!Seated(u) : u.players[s].hands = << >>
  PROVE  BoardIsFair(u)
BY DEF BoardIsFair

\* A new round clears the hands and takes no chips (applyAction, case
\* newRound).
LEMMA NewRoundIsFair ==
  ASSUME BoardIsFair(table), B!NewRound
  PROVE  BoardIsFair(table') /\ Settles(table', table)
<1>0. /\ IsBoard(table) /\ table.players \in [B!Seated(table) -> BoxRecord]
      /\ B!Seated(table) \subseteq ToSet(TABLE)
  BY DEF BoardIsFair, IsBoard
<1>1. PICK players : players =
        [s \in B!Seated(table) |->
           [table.players[s] EXCEPT !.bet = 0, !.hands = << >>, !.active = 1]]
  OBVIOUS
<1>2. PICK u : u = table'
  OBVIOUS
<1>3. /\ table.phase = "done"
      /\ u = [table EXCEPT !.players = players, !.dealer = << >>, !.dealerReveal = FALSE,
                           !.hand = << >>, !.results = None, !.phase = "betting",
                           !.toAct = None]
  BY <1>1, <1>2 DEF B!NewRound
<1>4. Made(u, "betting", players, << >>, FALSE, << >>, None, None)
  BY <1>0, <1>3 DEF IsBoard, Made
<1>5. ASSUME NEW s \in B!Seated(table)
      PROVE  /\ players[s] \in BoxRecord /\ players[s].chips = table.players[s].chips
             /\ players[s].bet = 0 /\ players[s].hands = << >>
  <2>1. PICK box \in BoxRecord : box = table.players[s]
    BY <1>0
  <2>2. PICK none \in Seq(HandRecord) : none = << >>
    BY EmptySeq
  <2>3. PICK new : new = players[s]
    OBVIOUS
  <2>4. new = [box EXCEPT !.bet = 0, !.hands = none, !.active = 1]
    BY <1>1, <2>1, <2>2, <2>3
  <2>5. new = [chips |-> box.chips, bet |-> 0, hands |-> none, active |-> 1]
    BY <2>4 DEF BoxRecord
  <2>6. new.chips = box.chips /\ new.bet = 0 /\ new.hands = none
    BY <2>5
  <2>7. new \in BoxRecord
    <3>1. box.chips \in Nat
      BY DEF BoxRecord
    <3> QED BY <2>5, <3>1 DEF BoxRecord
  <2> QED BY <2>1, <2>2, <2>3, <2>6, <2>7
<1>6. players \in [B!Seated(table) -> BoxRecord]
  <2>1. players = [s \in B!Seated(table) |-> players[s]]
    BY <1>1
  <2> QED BY <1>5, <2>1
<1>7. PICK none \in Seq(B!Seated(table)) : none = << >>
  BY EmptySeq
<1>r. PICK reveal : reveal = FALSE
  OBVIOUS
<1>8. IsBoard(u) /\ B!Seated(u) = B!Seated(table) /\ u.phase = "betting" /\ u.players = players
  <2>1. Made(u, "betting", players, none, reveal, none, None, None)
    BY <1>4, <1>7, <1>r
  <2> QED BY <1>0, <1>6, <2>1, MadeBoard
<1>9. BoardIsFair(u)
  <2>1. \A s \in B!Seated(u) : u.players[s].hands = << >>
    BY <1>5, <1>8
  <2> QED BY <1>8, <2>1, BettingIsFair
<1>10. ASSUME NEW s \in B!Seated(table)
       PROVE  B!Wealth(u, s) = B!Wealth(table, s) /\ B!Wealth(table, s) \in Int
  <2>1. B!Wealth(u, s) = players[s].chips + players[s].bet
    BY <1>8, WealthBetweenRounds
  <2>2. B!Wealth(table, s) = table.players[s].chips + 0 /\ B!Wealth(table, s) \in Int
    BY <1>0, <1>3, WealthBetweenRounds
  <2> QED BY <1>5, <2>1, <2>2
<1> QED BY <1>2, <1>3, <1>8, <1>9, <1>10 DEF Settles

\* A bet goes from the chips of the seat to its stake (applyAction, case bet).
LEMMA BetIsKept ==
  ASSUME BoardIsFair(table), NEW s \in ToSet(TABLE), NEW amount, B!Bet(s, amount)
  PROVE  BoardIsFair(table') /\ Settles(table', table)
<1>0. /\ IsBoard(table) /\ table.players \in [B!Seated(table) -> BoxRecord]
  BY DEF BoardIsFair, IsBoard
<1>1. /\ table.phase = "betting" /\ s \in B!Seated(table) /\ table.players[s].bet = 0
      /\ amount \in MIN_BET .. table.players[s].chips
  BY DEF B!Bet
<1>2. PICK old \in BoxRecord : old = table.players[s]
  BY <1>0, <1>1
<1>3. old.chips \in Nat /\ amount \in Nat /\ old.chips - amount \in Nat
  <2>1. MIN_BET \in Nat
    BY BlackjackAssumption, PokerAssumption
  <2>2. old.chips \in Nat
    BY DEF BoxRecord
  <2> QED BY <1>1, <1>2, <2>1, <2>2
<1>4. PICK box : box = [old EXCEPT !.chips = old.chips - amount, !.bet = amount]
  OBVIOUS
<1>5. /\ box \in BoxRecord /\ box.chips = old.chips - amount /\ box.bet = amount
      /\ box.hands = old.hands
  BY <1>3, <1>4 DEF BoxRecord
<1>6. PICK u : u = table'
  OBVIOUS
<1>7. Placed(u, table, s, box, table.toAct)
  <2>1. PICK c : c = old.chips - amount
    OBVIOUS
  <2>2. u = [table EXCEPT !.players[s].chips = c, !.players[s].bet = amount]
    BY <1>0, <1>1, <1>2, <1>6, <2>1 DEF B!Bet, IsBoard
  <2>3. u.players = [table.players EXCEPT ![s].chips = c, ![s].bet = amount]
    BY <1>0, <2>2 DEF IsBoard
  <2>4. u.players = [table.players EXCEPT ![s] = box]
    BY <1>0, <1>1, <1>2, <1>4, <2>1, <2>3
  <2>5. u = [phase |-> table.phase, players |-> u.players, dealer |-> table.dealer,
             dealerReveal |-> table.dealerReveal, hand |-> table.hand, toAct |-> table.toAct,
             results |-> table.results]
    BY <1>0, <2>2 DEF IsBoard
  <2> QED BY <2>4, <2>5 DEF Placed
<1>8. /\ IsBoard(u) /\ B!Seated(u) = B!Seated(table) /\ u.phase = "betting"
      /\ u.players[s] = box
      /\ \A x \in B!Seated(table) \ {s} : u.players[x] = table.players[x]
  BY <1>0, <1>1, <1>5, <1>7, PlacedType
<1>9. BoardIsFair(u)
  <2>1. \A x \in B!Seated(table) : table.players[x].hands = << >>
    BY <1>1 DEF BoardIsFair
  <2>2. \A x \in B!Seated(u) : u.players[x].hands = << >>
    BY <1>1, <1>2, <1>5, <1>8, <2>1
  <2> QED BY <1>8, <2>2, BettingIsFair
<1>10. ASSUME NEW x \in B!Seated(table)
       PROVE  B!Wealth(u, x) = B!Wealth(table, x) /\ B!Wealth(table, x) \in Int
  <2>1. B!Wealth(u, x) = u.players[x].chips + u.players[x].bet
    BY <1>8, WealthBetweenRounds
  <2>2. /\ B!Wealth(table, x) = table.players[x].chips + table.players[x].bet
        /\ B!Wealth(table, x) \in Int
    BY <1>0, <1>1, WealthBetweenRounds
  <2>3. CASE x = s
    BY <1>1, <1>2, <1>3, <1>5, <1>8, <2>1, <2>2, <2>3
  <2>4. CASE x # s
    BY <1>8, <2>1, <2>2, <2>4
  <2> QED BY <2>3, <2>4
<1> QED BY <1>6, <1>8, <1>9, <1>10 DEF Settles
-----------------------------------------------------------------------------
(* Blackjack: a round is dealt.                                            *)

\* The sum over one element.
LEMMA SumOfOne ==
  ASSUME NEW a, NEW S, S = {a}, NEW f \in [S -> Int]
  PROVE  SumFunction(f) = f[a]
<1>1. IsFiniteSet(S)
  BY FS_Singleton
<1>2. PICK g : PartialSums(g, f, S) /\ SumFunction(f) = g[S]
  BY <1>1, SumIsPartialSum
<1>3. Additive(g, f, S) /\ a \in S
  BY <1>1, <1>2, PartialSumsAreAdditive
<1>4. g[S] = f[a] + g[S \ {a}]
  BY <1>3 DEF Additive
<1>5. PICK rest : rest = S \ {a}
  OBVIOUS
<1>6. rest = {}
  BY <1>5
<1>7. g[rest] = 0 /\ f[a] \in Int
  BY <1>2, <1>3, <1>6 DEF PartialSums, SumEquations
<1> QED BY <1>2, <1>4, <1>5, <1>7

\* Two cards make a hand.
LEMMA TwoCards ==
  ASSUME NEW c \in CARDS, NEW d \in CARDS
  PROVE  B!Two(c, d) \in [CARDS -> Nat]
<1>1. [x \in CARDS |-> 0] \in [CARDS -> Nat]
  OBVIOUS
<1> QED BY <1>1, DrawnCards DEF B!Two

\* h is a new hand.
IsMade(h, cards, bet, split, done) ==
  h = [B!MakeHand(cards, bet, split) EXCEPT !.done = done]

\* A new hand has won nothing and has the bet it was made with (makeHand).
LEMMA HandIsMade ==
  ASSUME NEW cards \in [CARDS -> Nat], NEW bet \in Nat, NEW split \in BOOLEAN,
         NEW done \in BOOLEAN, NEW h, IsMade(h, cards, bet, split, done),
         ~(B!HandValue(cards) > 21)
  PROVE  h \in HandRecord /\ Unpaid(h) /\ h.bet = bet
<1>1. PICK busted \in BOOLEAN : busted = FALSE
  OBVIOUS
<1>2. PICK net \in Int : net = 0
  OBVIOUS
<1>3. h = [cards |-> cards, bet |-> bet, done |-> done, busted |-> busted,
           fromSplit |-> split, net |-> net]
  BY <1>1, <1>2 DEF B!MakeHand, IsMade
<1>4. h \in HandRecord
  BY <1>3 DEF HandRecord
<1>5. h.net = net /\ h.bet = bet /\ h.cards = cards /\ h.busted = busted
  BY <1>3
<1>6. Unpaid(h)
  BY <1>1, <1>2, <1>5 DEF Unpaid
<1> QED BY <1>4, <1>5, <1>6

\* e is the box of a seat that is dealt these cards.
IsDealt(e, box, cards) ==
  e = [box EXCEPT
         !.hands = <<[B!MakeHand(cards, box.bet, FALSE) EXCEPT !.done = B!IsBlackjack(cards)]>>,
         !.active = 1]

\* The bet of a seat becomes the bet on its first hand.
LEMMA DealtBox ==
  ASSUME NEW box \in BoxRecord, NEW cards \in [CARDS -> Nat], ~(B!HandValue(cards) > 21),
         NEW e, IsDealt(e, box, cards)
  PROVE  e \in BoxRecord /\ Fresh(e) /\ BoxWealth(e) = box.chips + box.bet
<1>1. PICK done \in BOOLEAN : done = B!IsBlackjack(cards)
  BY DEF B!IsBlackjack
<1>2. box.bet \in Nat /\ box.chips \in Nat
  BY DEF BoxRecord
<1>3. PICK h : h = [B!MakeHand(cards, box.bet, FALSE) EXCEPT !.done = done]
  OBVIOUS
<1>4. h \in HandRecord /\ Unpaid(h) /\ h.bet = box.bet
  <2>1. PICK split \in BOOLEAN : split = FALSE
    OBVIOUS
  <2>2. IsMade(h, cards, box.bet, split, done)
    BY <1>3, <2>1 DEF IsMade
  <2> QED BY <1>2, <2>2, HandIsMade
<1>5. PICK hands : hands = <<h>>
  OBVIOUS
<1>6. hands \in Seq(HandRecord) /\ DOMAIN hands = {1} /\ hands[1] = h
  <2>1. Len(hands) = 1 /\ hands \in Seq(HandRecord) /\ hands[1] = h
    BY <1>4, <1>5
  <2>2. DOMAIN hands = 1 .. 1
    BY <2>1, LenProperties
  <2> QED BY <2>1, <2>2
<1>7. e = [chips |-> box.chips, bet |-> box.bet, hands |-> hands, active |-> 1]
  <2>1. e = [box EXCEPT !.hands = hands, !.active = 1]
    BY <1>1, <1>3, <1>5 DEF IsDealt
  <2> QED BY <2>1 DEF BoxRecord
<1>8. e.hands = hands /\ e.chips = box.chips
  BY <1>7
<1>9. e \in BoxRecord
  BY <1>2, <1>6, <1>7 DEF BoxRecord
<1>10. SumFunction(BetsOf(hands)) = box.bet
  <2>1. PICK f : f = BetsOf(hands)
    OBVIOUS
  <2>2. f \in [{1} -> Int] /\ f[1] = box.bet
    BY <1>2, <1>4, <1>6, <2>1 DEF BetsOf
  <2> QED BY <2>1, <2>2, SumOfOne
<1>11. Fresh(e)
  BY <1>4, <1>6, <1>8 DEF Fresh
<1> QED BY <1>8, <1>9, <1>10, <1>11 DEF BoxWealth

\* The players, and the table, once cards are dealt.
DealtPlayers(cards) ==
  [s \in B!Seated(table) |->
     IF s \in DOMAIN cards
     THEN [table.players[s] EXCEPT
             !.hands = <<[B!MakeHand(cards[s], table.players[s].bet, FALSE)
                            EXCEPT !.done = B!IsBlackjack(cards[s])]>>,
             !.active = 1]
     ELSE table.players[s]]
DealtTable(betters, cards, up, hole) ==
  [table EXCEPT !.players = DealtPlayers(cards), !.hand = betters, !.dealer = <<up, hole>>,
                !.dealerReveal = FALSE, !.results = None, !.phase = "playing"]

\* A round is dealt to those who have bet (deal).
LEMMA DealIsFair ==
  ASSUME BoardIsFair(table), B!Deal
  PROVE  BoardIsFair(table') /\ Settles(table', table)
<1>0. /\ IsBoard(table) /\ table.players \in [B!Seated(table) -> BoxRecord]
      /\ B!Seated(table) \subseteq ToSet(TABLE)
  BY DEF BoardIsFair, IsBoard
<1>1. PICK betters : betters = B!InOrder({s \in B!Seated(table) : table.players[s].bet > 0})
  OBVIOUS
<1>2. /\ betters \in Seq(B!Seated(table)) /\ ToSet(betters) \subseteq B!Seated(table)
      /\ \A s \in B!Seated(table) \ ToSet(betters) : table.players[s].bet = 0
  <2> DEFINE S == {s \in B!Seated(table) : table.players[s].bet > 0}
  <2>1. S \subseteq ToSet(TABLE) /\ S \subseteq B!Seated(table)
    BY <1>0
  <2>2. betters = B!InOrder(S)
    BY <1>1
  <2> HIDE DEF S
  <2>3. betters \in Seq(S) /\ S \subseteq ToSet(betters)
    BY <2>1, <2>2, BettersInOrder
  <2>4. betters \in Seq(B!Seated(table))
    BY <2>1, <2>3, SeqOfMore
  <2>5. ToSet(betters) \subseteq B!Seated(table)
    BY <2>4, ElementOfSeq DEF ToSet
  <2>6. ASSUME NEW s \in B!Seated(table) \ ToSet(betters) PROVE table.players[s].bet = 0
    <3>1. s \notin S
      BY <2>3, <2>6
    <3>2. ~(table.players[s].bet > 0)
      BY <2>6, <3>1 DEF S
    <3>3. table.players[s].bet \in Nat
      BY <1>0 DEF BoxRecord
    <3> QED BY <3>2, <3>3
  <2> QED BY <2>4, <2>5, <2>6
<1>3. /\ table.phase = "betting"
      /\ \A s \in B!Seated(table) : table.players[s].hands = << >>
  BY DEF BoardIsFair, B!Deal
<1>4. PICK up \in CARDS, hole \in CARDS,
           cards \in [ToSet(betters) -> B!FirstTwo] :
        table' \in B!PlayOn(DealtTable(betters, cards, up, hole),
                           B!NextActor(DealtTable(betters, cards, up, hole), None))
  BY <1>1, SameBlackjack DEF B!Deal, DealtTable, DealtPlayers
<1>t. PICK t : t = DealtTable(betters, cards, up, hole)
  OBVIOUS
<1>u. table' \in B!PlayOn(t, B!NextActor(t, None))
  BY <1>4, <1>t
<1>5. PICK players : players = DealtPlayers(cards)
  OBVIOUS
<1>6. /\ DOMAIN cards = ToSet(betters)
      /\ \A s \in ToSet(betters) : cards[s] \in [CARDS -> Nat] /\ ~(B!HandValue(cards[s]) > 21)
  <2>1. ASSUME NEW two \in B!FirstTwo PROVE two \in [CARDS -> Nat] /\ ~(B!HandValue(two) > 21)
    <3>1. PICK c \in CARDS, d \in CARDS : two = B!Two(c, d)
      BY DEF B!FirstTwo
    <3> QED BY <3>1, TwoCards, TwoNeverBust
  <2> QED BY <1>4, <2>1
<1>7. ASSUME NEW s \in ToSet(betters)
      PROVE  /\ players[s] \in BoxRecord /\ Fresh(players[s])
             /\ BoxWealth(players[s]) = table.players[s].chips + table.players[s].bet
  <2>1. IsDealt(players[s], table.players[s], cards[s])
    BY <1>2, <1>5, <1>6 DEF IsDealt, DealtPlayers
  <2>2. table.players[s] \in BoxRecord
    BY <1>0, <1>2
  <2> QED BY <1>6, <2>1, <2>2, DealtBox
<1>8. ASSUME NEW s \in B!Seated(table) \ ToSet(betters)
      PROVE  /\ players[s] \in BoxRecord /\ Fresh(players[s]) /\ players[s].hands = << >>
             /\ BoxWealth(players[s]) = table.players[s].chips + table.players[s].bet
  <2>1. players[s] = table.players[s] /\ table.players[s] \in BoxRecord
    BY <1>0, <1>5, <1>6 DEF DealtPlayers
  <2>2. table.players[s].hands = << >> /\ table.players[s].bet = 0
    BY <1>2, <1>3
  <2>3. Fresh(players[s]) /\ SumFunction(BetsOf(players[s].hands)) = 0
    BY <2>1, <2>2, EmptyBox DEF Fresh
  <2> QED BY <2>1, <2>2, <2>3 DEF BoxWealth
<1>9. players \in [B!Seated(table) -> BoxRecord]
  <2>1. players = [s \in B!Seated(table) |-> players[s]]
    BY <1>5 DEF DealtPlayers
  <2> QED BY <1>7, <1>8, <2>1
<1>10. PICK dealer, reveal : dealer = <<up, hole>> /\ reveal = FALSE
  OBVIOUS
<1>11. Made(t, "playing", players, dealer, reveal, betters, table.toAct, None)
  <2>1. t = [table EXCEPT !.players = players, !.hand = betters, !.dealer = dealer,
                          !.dealerReveal = reveal, !.results = None, !.phase = "playing"]
    BY <1>t, <1>5, <1>10 DEF DealtTable
  <2> QED BY <1>0, <2>1 DEF IsBoard, Made
<1>12. /\ IsBoard(t) /\ B!Seated(t) = B!Seated(table) /\ t.phase = "playing"
       /\ t.players = players /\ t.hand = betters /\ t.dealerReveal = reveal
       /\ t.dealer = dealer
  BY <1>0, <1>2, <1>9, <1>11, MadeBoard
<1>13. InRound(t)
  <2>1. ASSUME NEW s \in B!Seated(t) \ ToSet(t.hand) PROVE t.players[s].hands = << >>
    BY <1>8, <1>12
  <2>2. ASSUME NEW s \in B!Seated(t), NEW i \in DOMAIN B!Hands(t, s)
        PROVE  Unpaid(B!Hands(t, s)[i])
    <3>1. Fresh(players[s])
      BY <1>7, <1>8, <1>12
    <3> QED BY <1>12, <2>2, <3>1 DEF Fresh, B!Hands
  <2>3. ~t.dealerReveal /\ t.dealer \in CARDS \X CARDS
    BY <1>10, <1>12
  <2> QED BY <1>12, <2>1, <2>2, <2>3 DEF InRound
<1>14. BoardIsFair(table') /\ Settles(table', t)
  <2>1. MayGoOn(t, B!NextActor(t, None))
    BY <1>12, NextBoxIsLive DEF MayGoOn
  <2> QED BY <1>u, <1>13, <2>1, PlayOnIsFair
<1>15. ASSUME NEW s \in B!Seated(table)
       PROVE  B!Wealth(t, s) = B!Wealth(table, s)
  <2>1. B!Wealth(t, s) = BoxWealth(players[s])
    BY <1>12, WealthInRound
  <2>2. B!Wealth(table, s) = table.players[s].chips + table.players[s].bet
    BY <1>0, <1>3, WealthBetweenRounds
  <2> QED BY <1>7, <1>8, <2>1, <2>2
<1>16. Settles(table', table)
  BY <1>3, <1>12, <1>14, <1>15 DEF Settles
<1> QED BY <1>14, <1>16
-----------------------------------------------------------------------------
(* Blackjack: a hand is played.                                            *)

\* Who may play is in the round and plays a hand of its own.
LEMMA ActiveHand ==
  ASSUME BoardIsFair(table), B!MayPlay, NEW s, s = table.toAct
  PROVE  /\ InRound(table) /\ IsBoard(table) /\ s \in ToSet(table.hand)
         /\ s \in B!Seated(table) /\ table.players[s] \in BoxRecord /\ Fresh(table.players[s])
         /\ table.players[s].active \in DOMAIN table.players[s].hands
         /\ B!Active = table.players[s].hands[table.players[s].active]
         /\ B!Active \in HandRecord /\ Unpaid(B!Active)
<1>1. /\ InRound(table) /\ IsBoard(table) /\ s \in ToSet(table.hand)
      /\ table.players[s].active \in DOMAIN B!Hands(table, s)
  BY DEF BoardIsFair, B!MayPlay
<1>2. s \in B!Seated(table)
  BY <1>1, InHandAreSeated DEF IsBoard
<1>3. table.players[s] \in BoxRecord /\ B!Hands(table, s) = table.players[s].hands
  BY <1>1, <1>2, HandsAreRecords DEF B!Hands
<1>4. Fresh(table.players[s])
  BY <1>1, <1>2, <1>3 DEF InRound, Fresh
<1>5. B!Active = table.players[s].hands[table.players[s].active]
  BY <1>3 DEF B!Active
<1>6. B!Active \in HandRecord /\ Unpaid(B!Active)
  BY <1>1, <1>3, <1>4, <1>5, BoxHands DEF Fresh
<1> QED BY <1>1, <1>2, <1>3, <1>4, <1>5, <1>6

\* old has changed to h.
IsChanged(h, old, cards, bet, busted, done) ==
  h = [cards |-> cards, bet |-> bet, done |-> done, busted |-> busted,
       fromSplit |-> old.fromSplit, net |-> old.net]

\* A hand that is played stays a hand.
LEMMA ChangedHand ==
  ASSUME NEW old \in HandRecord, Unpaid(old), NEW cards \in [CARDS -> Nat], NEW bet \in Nat,
         NEW busted \in BOOLEAN, busted <=> B!HandValue(cards) > 21, NEW done \in BOOLEAN,
         NEW h, IsChanged(h, old, cards, bet, busted, done)
  PROVE  h \in HandRecord /\ h.bet = bet /\ Unpaid(h)
<1>1. old.fromSplit \in BOOLEAN /\ old.net \in Int
  BY DEF HandRecord
<1>2. h \in HandRecord
  BY <1>1 DEF IsChanged, HandRecord
<1>3. h.bet = bet /\ h.net = old.net /\ h.cards = cards /\ h.busted = busted
  BY DEF IsChanged
<1>4. Unpaid(h)
  BY <1>3 DEF Unpaid
<1> QED BY <1>2, <1>3, <1>4

\* e is box with other hands, for which amount was paid.
IsPlayed(e, box, hands, amount) ==
  e = [chips |-> box.chips - amount, bet |-> box.bet, hands |-> hands, active |-> box.active]

\* One hand of a seat is another one.
IsReplaced(hands, old, a, h) == hands = [old EXCEPT ![a] = h]

\* One hand of a seat is replaced.
LEMMA ReplacedHand ==
  ASSUME NEW old \in Seq(HandRecord), NEW a, a \in DOMAIN old, NEW h \in HandRecord,
         NEW hands, IsReplaced(hands, old, a, h)
  PROVE  /\ hands \in Seq(HandRecord) /\ DOMAIN hands = DOMAIN old /\ hands[a] = h
         /\ \A i \in DOMAIN old \ {a} : hands[i] = old[i]
<1>1. DOMAIN old = 1 .. Len(old) /\ Len(old) \in Nat
  BY LenProperties
<1>2. old \in [DOMAIN old -> HandRecord]
  BY <1>1, LenProperties
<1>3. /\ hands \in [DOMAIN old -> HandRecord] /\ hands[a] = h
      /\ \A i \in DOMAIN old \ {a} : hands[i] = old[i]
  BY <1>2 DEF IsReplaced
<1>4. hands \in Seq(HandRecord)
  BY <1>1, <1>3, SeqDef
<1> QED BY <1>3, <1>4

\* A seat that raises the bet on a hand by what it pays owns what it owned.
LEMMA PlayedBox ==
  ASSUME NEW box \in BoxRecord, Fresh(box), NEW a, a \in DOMAIN box.hands,
         NEW h \in HandRecord, Unpaid(h), NEW amount \in Nat, amount <= box.chips,
         h.bet = box.hands[a].bet + amount,
         NEW hands, IsReplaced(hands, box.hands, a, h), NEW e, IsPlayed(e, box, hands, amount)
  PROVE  e \in BoxRecord /\ Fresh(e) /\ BoxWealth(e) = BoxWealth(box)
<1>1. PICK old \in Seq(HandRecord) : old = box.hands
  BY BoxHands
<1>2. PICK S : S = DOMAIN old
  OBVIOUS
<1>3. /\ IsFiniteSet(S) /\ S = 1 .. Len(old) /\ a \in S
      /\ \A i \in S : old[i] \in HandRecord /\ old[i].bet \in Nat /\ Unpaid(old[i])
  BY <1>1, <1>2, BoxHands DEF Fresh
<1>4. /\ hands \in Seq(HandRecord) /\ DOMAIN hands = S
      /\ hands[a] = h /\ \A i \in S \ {a} : hands[i] = old[i]
  BY <1>1, <1>2, <1>3, ReplacedHand
<1>5. box.chips \in Nat /\ box.chips - amount \in Nat /\ box.bet \in Nat /\ box.active \in Nat
  BY DEF BoxRecord
<1>6. e \in BoxRecord /\ e.hands = hands /\ e.chips = box.chips - amount
  BY <1>4, <1>5 DEF IsPlayed, BoxRecord
<1>7. Fresh(e)
  BY <1>3, <1>4, <1>6 DEF Fresh
<1>8. /\ SumFunction(BetsOf(hands)) = SumFunction(BetsOf(old)) + amount
      /\ SumFunction(BetsOf(old)) \in Int
  <2>1. PICK f : f = BetsOf(old)
    OBVIOUS
  <2>2. PICK g : g = BetsOf(hands)
    OBVIOUS
  <2>3. f \in [S -> Int] /\ \A i \in S : f[i] = old[i].bet
    BY <1>2, <1>3, <2>1 DEF BetsOf
  <2>4. h.bet \in Nat
    BY DEF HandRecord
  <2>5. g \in [S -> Int] /\ \A i \in S : g[i] = hands[i].bet
    BY <1>3, <1>4, <2>2, <2>4 DEF BetsOf
  <2>6. g[a] = f[a] + amount
    BY <1>1, <1>3, <1>4, <2>3, <2>5
  <2>7. ChangedAt(g, f, S, a, amount)
    BY <1>4, <2>3, <2>5, <2>6 DEF ChangedAt
  <2>8. f \in [S -> Int] /\ g \in [S -> Int] /\ IsFiniteSet(S) /\ a \in S /\ amount \in Int
    BY <1>3, <2>3, <2>5
  <2>9. SumFunction(g) = SumFunction(f) + amount
    BY <2>7, <2>8, SumChangesAt
  <2>10. SumFunction(f) \in Int
    BY <2>8, SumType
  <2> QED BY <2>1, <2>2, <2>9, <2>10
<1> QED BY <1>1, <1>5, <1>6, <1>7, <1>8 DEF BoxWealth

\* SetActive replaces one hand of the seat to act.
LEMMA SetActivePlaces ==
  ASSUME BoardIsFair(table), B!MayPlay, NEW s, s = table.toAct, NEW a,
         a = table.players[s].active, NEW h, NEW hands,
         IsReplaced(hands, table.players[s].hands, a, h),
         NEW e, IsPlayed(e, table.players[s], hands, 0), NEW u, u = B!SetActive(h)
  PROVE  Placed(u, table, s, e, s)
<1>1. IsBoard(table) /\ s \in B!Seated(table) /\ table.players[s] \in BoxRecord
  BY ActiveHand
<1>2. u = [table EXCEPT !.players[s].hands[a] = h]
  BY DEF B!SetActive
<1>3. u.players = [table.players EXCEPT ![s].hands[a] = h]
  BY <1>1, <1>2 DEF IsBoard
<1>4. e = [table.players[s] EXCEPT !.hands = hands]
  <2>1. PICK box \in BoxRecord : box = table.players[s]
    BY <1>1
  <2>2. box.chips \in Nat /\ box.chips - 0 = box.chips
    BY DEF BoxRecord
  <2>3. e = [chips |-> box.chips, bet |-> box.bet, hands |-> hands, active |-> box.active]
    BY <2>1, <2>2 DEF IsPlayed
  <2>4. e = [box EXCEPT !.hands = hands]
    BY <2>3 DEF BoxRecord
  <2> QED BY <2>1, <2>4
<1>5. u.players = [table.players EXCEPT ![s] = e]
  BY <1>1, <1>3, <1>4 DEF IsBoard, IsReplaced
<1>6. u = [phase |-> table.phase, players |-> u.players, dealer |-> table.dealer,
           dealerReveal |-> table.dealerReveal, hand |-> table.hand, toAct |-> s,
           results |-> table.results]
  BY <1>1, <1>2 DEF IsBoard
<1> QED BY <1>5, <1>6 DEF Placed

\* Pays takes chips from one seat.
LEMMA PaysPlaces ==
  ASSUME NEW t, IsBoard(t), NEW s \in B!Seated(t), NEW box, box = t.players[s],
         NEW hands \in Seq(HandRecord), NEW u, NEW d, IsPlayed(d, box, hands, 0),
         Placed(u, t, s, d, s), NEW amount \in Nat, NEW e, IsPlayed(e, box, hands, amount)
  PROVE  Placed(B!Pays(u, s, amount), t, s, e, s)
<1>1. box \in BoxRecord /\ box.chips \in Nat /\ t.players \in [B!Seated(t) -> BoxRecord]
  BY BoxHands DEF IsBoard
<1>2. PICK v : v = B!Pays(u, s, amount)
  OBVIOUS
<1>3. u = [phase |-> t.phase, players |-> [t.players EXCEPT ![s] = d], dealer |-> t.dealer,
           dealerReveal |-> t.dealerReveal, hand |-> t.hand, toAct |-> s,
           results |-> t.results]
  BY DEF Placed
<1>4. u.players = [t.players EXCEPT ![s] = d] /\ u.players[s] = d
  BY <1>1, <1>3
<1>5. PICK c : c = d.chips - amount
  OBVIOUS
<1>6. d.chips = box.chips /\ c = box.chips - amount
  BY <1>1, <1>5 DEF IsPlayed
<1>7. v = [u EXCEPT !.players[s].chips = c]
  BY <1>2, <1>4, <1>5 DEF B!Pays
<1>8. v.players = [u.players EXCEPT ![s].chips = c]
  BY <1>3, <1>7
<1>9. e = [d EXCEPT !.chips = c]
  BY <1>6 DEF IsPlayed
<1>10. v.players = [t.players EXCEPT ![s] = e]
  BY <1>1, <1>4, <1>8, <1>9
<1>11. v = [phase |-> t.phase, players |-> v.players, dealer |-> t.dealer,
            dealerReveal |-> t.dealerReveal, hand |-> t.hand, toAct |-> s,
            results |-> t.results]
  BY <1>3, <1>7
<1> QED BY <1>2, <1>10, <1>11 DEF Placed

\* What a seat does with its hands leaves it all it owns.
LEMMA PlayedOn ==
  ASSUME BoardIsFair(table), B!MayPlay, NEW s, s = table.toAct,
         NEW e \in BoxRecord, Fresh(e), BoxWealth(e) = BoxWealth(table.players[s]),
         NEW t, Placed(t, table, s, e, s), table' \in B!AfterAction(t)
  PROVE  BoardIsFair(table') /\ Settles(table', table)
<1>1. InRound(table) /\ IsBoard(table) /\ s \in ToSet(table.hand) /\ s \in B!Seated(table)
  BY ActiveHand
<1>2. InRound(t)
  BY <1>1, RoundGoesOn
<1>3. t.toAct = s /\ t.hand = table.hand /\ t.phase = table.phase
  BY <1>1, PlacedType
<1>4. BoardIsFair(table') /\ Settles(table', t)
  BY <1>1, <1>2, <1>3, RoundGoesOnFairly
<1>5. /\ B!Seated(t) = B!Seated(table)
      /\ \A x \in B!Seated(table) : B!Wealth(t, x) = B!Wealth(table, x)
  BY <1>1, WealthIsKept
<1> QED BY <1>3, <1>4, <1>5 DEF Settles

\* t is the table once the active hand is h, for which amount was paid.
Plays(t, h, amount) ==
  \/ t = B!SetActive(h) /\ amount = 0
  \/ t = B!Pays(B!SetActive(h), table.toAct, amount)

\* A hand is played, for nothing or for what is bet on it in addition.
LEMMA HandPlays ==
  ASSUME BoardIsFair(table), B!MayPlay, NEW h \in HandRecord, Unpaid(h),
         NEW amount \in Nat, amount <= table.players[table.toAct].chips,
         h.bet = B!Active.bet + amount, NEW t, Plays(t, h, amount),
         table' \in B!AfterAction(t)
  PROVE  BoardIsFair(table') /\ Settles(table', table)
<1>1. PICK s : s = table.toAct
  OBVIOUS
<1>2. PICK box : box = table.players[s]
  OBVIOUS
<1>3. PICK a : a = box.active
  OBVIOUS
<1>4. /\ IsBoard(table) /\ s \in B!Seated(table) /\ box \in BoxRecord /\ Fresh(box)
      /\ a \in DOMAIN box.hands /\ B!Active = box.hands[a]
  BY <1>1, <1>2, <1>3, ActiveHand
<1>5. PICK hands : IsReplaced(hands, box.hands, a, h)
  BY DEF IsReplaced
<1>6. PICK d : IsPlayed(d, box, hands, 0)
  BY DEF IsPlayed
<1>7. PICK e : IsPlayed(e, box, hands, amount)
  BY DEF IsPlayed
<1>8. Placed(B!SetActive(h), table, s, d, s)
  BY <1>1, <1>2, <1>3, <1>5, <1>6, SetActivePlaces
<1>9. hands \in Seq(HandRecord)
  BY <1>4, <1>5, BoxHands, ReplacedHand
<1>10. Placed(t, table, s, e, s)
  <2>1. CASE t = B!SetActive(h) /\ amount = 0
    <3>1. d = e
      BY <1>6, <1>7, <2>1 DEF IsPlayed
    <3> QED BY <1>8, <2>1, <3>1
  <2>2. CASE t = B!Pays(B!SetActive(h), table.toAct, amount)
    <3>1. t = B!Pays(B!SetActive(h), s, amount)
      BY <1>1, <2>2
    <3> QED BY <1>2, <1>4, <1>6, <1>7, <1>8, <1>9, <3>1, PaysPlaces
  <2> QED BY <2>1, <2>2 DEF Plays
<1>11. e \in BoxRecord /\ Fresh(e) /\ BoxWealth(e) = BoxWealth(box)
  <2>1. amount <= box.chips /\ h.bet = box.hands[a].bet + amount
    BY <1>1, <1>2, <1>4
  <2> QED BY <1>4, <1>5, <1>7, <2>1, PlayedBox
<1> QED BY <1>1, <1>2, <1>10, <1>11, PlayedOn

\* A hand stands (applyAction, case stand).
LEMMA StandIsFair ==
  ASSUME BoardIsFair(table), B!Stand
  PROVE  BoardIsFair(table') /\ Settles(table', table)
<1>1. PICK s : s = table.toAct
  OBVIOUS
<1>2. PICK old : old = B!Active
  OBVIOUS
<1>3. B!MayPlay /\ old \in HandRecord /\ Unpaid(old) /\ table.players[s] \in BoxRecord
  BY <1>1, <1>2, ActiveHand DEF B!Stand
<1>4. PICK h : h = [old EXCEPT !.done = TRUE]
  OBVIOUS
<1>5. PICK t : t = B!SetActive(h)
  OBVIOUS
<1>6. table' \in B!AfterAction(t)
  BY <1>2, <1>4, <1>5 DEF B!Stand
<1>7. h \in HandRecord /\ Unpaid(h) /\ h.bet = old.bet
  <2>1. PICK done \in BOOLEAN : done = TRUE
    OBVIOUS
  <2>2. IsChanged(h, old, old.cards, old.bet, old.busted, done)
    BY <1>3, <1>4, <2>1 DEF IsChanged, HandRecord
  <2>3. old.cards \in [CARDS -> Nat] /\ old.bet \in Nat /\ old.busted \in BOOLEAN
    BY <1>3 DEF HandRecord
  <2>4. old.busted <=> B!HandValue(old.cards) > 21
    BY <1>3 DEF Unpaid
  <2> QED BY <1>3, <2>2, <2>3, <2>4, ChangedHand
<1>8. /\ Plays(t, h, 0) /\ 0 <= table.players[table.toAct].chips
      /\ h.bet = B!Active.bet + 0 /\ 0 \in Nat
  <2>1. table.players[s].chips \in Nat /\ old.bet \in Nat
    BY <1>3 DEF BoxRecord, HandRecord
  <2> QED BY <1>1, <1>2, <1>5, <1>7, <2>1 DEF Plays
<1> QED BY <1>3, <1>6, <1>7, <1>8, HandPlays

\* A hand gets a card (applyAction, case hit).
LEMMA HitIsFair ==
  ASSUME BoardIsFair(table), NEW c \in CARDS, B!Hit(c)
  PROVE  BoardIsFair(table') /\ Settles(table', table)
<1>1. PICK s : s = table.toAct
  OBVIOUS
<1>2. PICK old : old = B!Active
  OBVIOUS
<1>3. B!MayPlay /\ old \in HandRecord /\ Unpaid(old) /\ table.players[s] \in BoxRecord
  BY <1>1, <1>2, ActiveHand DEF B!Hit
<1>4. PICK cards : cards = B!With(old.cards, c)
  OBVIOUS
<1>5. PICK busted, done : busted = (B!HandValue(cards) > 21) /\ done = (B!HandValue(cards) >= 21)
  OBVIOUS
<1>6. busted \in BOOLEAN /\ done \in BOOLEAN
  BY <1>5
<1>7. PICK h : h = [old EXCEPT !.cards = cards, !.busted = busted, !.done = done]
  OBVIOUS
<1>8. PICK t : t = B!SetActive(h)
  OBVIOUS
<1>9. table' \in B!AfterAction(t)
  BY <1>2, <1>4, <1>5, <1>7, <1>8 DEF B!Hit
<1>10. h \in HandRecord /\ Unpaid(h) /\ h.bet = old.bet
  <2>1. IsChanged(h, old, cards, old.bet, busted, done)
    BY <1>3, <1>7 DEF IsChanged, HandRecord
  <2>2. old.cards \in [CARDS -> Nat] /\ old.bet \in Nat
    BY <1>3 DEF HandRecord
  <2>3. cards \in [CARDS -> Nat]
    BY <1>4, <2>2, DrawnCards
  <2>4. busted <=> B!HandValue(cards) > 21
    BY <1>5
  <2> QED BY <1>3, <1>6, <2>1, <2>2, <2>3, <2>4, ChangedHand
<1>11. /\ Plays(t, h, 0) /\ 0 <= table.players[table.toAct].chips
       /\ h.bet = B!Active.bet + 0 /\ 0 \in Nat
  <2>1. table.players[s].chips \in Nat /\ old.bet \in Nat
    BY <1>3 DEF BoxRecord, HandRecord
  <2> QED BY <1>1, <1>2, <1>8, <1>10, <2>1 DEF Plays
<1> QED BY <1>3, <1>9, <1>10, <1>11, HandPlays

\* A hand is doubled: a card more, and as much again at stake (applyAction,
\* case double).
LEMMA DoubleIsFair ==
  ASSUME BoardIsFair(table), NEW c \in CARDS, B!Double(c)
  PROVE  BoardIsFair(table') /\ Settles(table', table)
<1>1. PICK s : s = table.toAct
  OBVIOUS
<1>2. PICK old : old = B!Active
  OBVIOUS
<1>3. B!MayPlay /\ old \in HandRecord /\ Unpaid(old) /\ table.players[s] \in BoxRecord
  BY <1>1, <1>2, ActiveHand DEF B!Double
<1>4. PICK cards : cards = B!With(old.cards, c)
  OBVIOUS
<1>5. PICK busted, done : busted = (B!HandValue(cards) > 21) /\ done = TRUE
  OBVIOUS
<1>6. busted \in BOOLEAN /\ done \in BOOLEAN
  BY <1>5
<1>7. PICK bet : bet = 2 * old.bet
  OBVIOUS
<1>8. old.bet \in Nat /\ bet \in Nat /\ bet = old.bet + old.bet
  <2>1. old.bet \in Nat
    BY <1>3 DEF HandRecord
  <2> QED BY <1>7, <2>1
<1>9. PICK h : h = [old EXCEPT !.cards = cards, !.bet = bet, !.busted = busted, !.done = done]
  OBVIOUS
<1>10. h = [old EXCEPT !.cards = cards, !.bet = 2 * @, !.busted = B!HandValue(cards) > 21,
                       !.done = TRUE]
  BY <1>3, <1>5, <1>7, <1>9 DEF HandRecord
<1>11. PICK t : t = B!Pays(B!SetActive(h), table.toAct, old.bet)
  OBVIOUS
<1>12. table' \in B!AfterAction(t) /\ old.bet <= table.players[table.toAct].chips
  <2>1. table' \in B!AfterAction(t)
    BY <1>2, <1>4, <1>10, <1>11 DEF B!Double
  <2>2. table.players[table.toAct].chips >= old.bet
    BY <1>2 DEF B!Double
  <2>3. table.players[table.toAct].chips \in Nat
    BY <1>1, <1>3 DEF BoxRecord
  <2> QED BY <1>8, <2>1, <2>2, <2>3
<1>13. h \in HandRecord /\ Unpaid(h) /\ h.bet = bet
  <2>1. IsChanged(h, old, cards, bet, busted, done)
    BY <1>3, <1>9 DEF IsChanged, HandRecord
  <2>2. old.cards \in [CARDS -> Nat]
    BY <1>3 DEF HandRecord
  <2>3. cards \in [CARDS -> Nat]
    BY <1>4, <2>2, DrawnCards
  <2>4. busted <=> B!HandValue(cards) > 21
    BY <1>5
  <2> QED BY <1>3, <1>6, <1>8, <2>1, <2>3, <2>4, ChangedHand
<1>14. Plays(t, h, old.bet) /\ h.bet = B!Active.bet + old.bet
  BY <1>2, <1>8, <1>11, <1>13 DEF Plays
<1> QED BY <1>3, <1>8, <1>12, <1>13, <1>14, HandPlays

\* Two hands take the place of one.
IsSplit(new, old, a, h, g) ==
  new = SubSeq(old, 1, a - 1) \o <<h, g>> \o SubSeq(old, a + 1, Len(old))

\* The hands of a seat after a split: one place has become two.
LEMMA SplitHands ==
  ASSUME NEW R, NEW old \in Seq(R), NEW a \in 1 .. Len(old), NEW h \in R, NEW g \in R,
         NEW new, IsSplit(new, old, a, h, g)
  PROVE  /\ new \in Seq(R) /\ Len(new) = Len(old) + 1
         /\ \A i \in 1 .. a - 1 : new[i] = old[i]
         /\ new[a] = h /\ new[a + 1] = g
         /\ \A i \in a + 2 .. Len(old) + 1 : new[i] = old[i - 1]
<1>1. Len(old) \in Nat /\ \A i \in 1 .. Len(old) : old[i] \in R
  BY LenProperties, ElementOfSeq
<1>2. PICK n \in Nat : n = Len(old) /\ a \in 1 .. n
  BY <1>1
<1>3. PICK front : front = SubSeq(old, 1, a - 1)
  OBVIOUS
<1>4. PICK back : back = SubSeq(old, a + 1, n)
  OBVIOUS
<1>5. PICK two : two = <<h, g>>
  OBVIOUS
<1>6. /\ front \in Seq(R) /\ Len(front) = a - 1
      /\ \A i \in 1 .. a - 1 : front[i] = old[i]
  <2>1. PICK m \in Int : m = a - 1
    OBVIOUS
  <2>2. \A i \in 1 .. m : old[i] \in R
    BY <1>1, <1>2, <2>1
  <2>3. /\ SubSeq(old, 1, m) \in Seq(R) /\ Len(SubSeq(old, 1, m)) = IF 1 <= m THEN m - 1 + 1 ELSE 0
        /\ \A i \in 1 .. m - 1 + 1 : SubSeq(old, 1, m)[i] = old[1 + i - 1]
    BY <2>2, SubSeqProperties
  <2> QED BY <1>2, <1>3, <2>1, <2>3
<1>7. /\ back \in Seq(R) /\ Len(back) = n - a
      /\ \A i \in 1 .. n - a : back[i] = old[a + i]
  <2>1. PICK m \in Int : m = a + 1
    OBVIOUS
  <2>2. \A i \in m .. n : old[i] \in R
    BY <1>1, <1>2, <2>1
  <2>3. /\ SubSeq(old, m, n) \in Seq(R) /\ Len(SubSeq(old, m, n)) = IF m <= n THEN n - m + 1 ELSE 0
        /\ \A i \in 1 .. n - m + 1 : SubSeq(old, m, n)[i] = old[m + i - 1]
    BY <2>2, SubSeqProperties
  <2> QED BY <1>2, <1>4, <2>1, <2>3
<1>8. two \in Seq(R) /\ Len(two) = 2 /\ two[1] = h /\ two[2] = g
  BY <1>5
<1>9. PICK most : most = front \o two
  OBVIOUS
<1>10. /\ most \in Seq(R) /\ Len(most) = a + 1
       /\ \A i \in 1 .. a - 1 : most[i] = old[i]
       /\ most[a] = h /\ most[a + 1] = g
  <2>1. /\ most \in Seq(R) /\ Len(most) = Len(front) + Len(two)
        /\ \A i \in 1 .. Len(front) + Len(two) :
             most[i] = IF i <= Len(front) THEN front[i] ELSE two[i - Len(front)]
    BY <1>6, <1>8, <1>9, ConcatProperties
  <2>2. \A i \in 1 .. a + 1 : most[i] = IF i <= a - 1 THEN front[i] ELSE two[i - (a - 1)]
    BY <1>6, <1>8, <2>1
  <2> QED BY <1>6, <1>8, <2>1, <2>2
<1>11. new = most \o back
  BY <1>2, <1>3, <1>4, <1>5, <1>9 DEF IsSplit
<1>12. /\ new \in Seq(R) /\ Len(new) = Len(most) + Len(back)
       /\ \A i \in 1 .. Len(most) + Len(back) :
            new[i] = IF i <= Len(most) THEN most[i] ELSE back[i - Len(most)]
  BY <1>7, <1>10, <1>11, ConcatProperties
<1>13. Len(new) = n + 1 /\ \A i \in 1 .. n + 1 : new[i] = IF i <= a + 1 THEN most[i] ELSE back[i - (a + 1)]
  <2>1. Len(most) = a + 1 /\ Len(most) + Len(back) = n + 1
    BY <1>2, <1>7, <1>10
  <2> QED BY <1>12, <2>1
<1>14. ASSUME NEW i \in a + 2 .. n + 1 PROVE new[i] = old[i - 1]
  <2>1. PICK j \in 1 .. n - a : j = i - (a + 1)
    BY <1>2
  <2>2. new[i] = back[j]
    BY <1>2, <1>13, <2>1
  <2>3. back[j] = old[a + j] /\ a + j = i - 1
    BY <1>2, <1>7, <2>1
  <2> QED BY <2>2, <2>3
<1>15. \A i \in 1 .. a + 1 : new[i] = most[i]
  BY <1>2, <1>13
<1> QED BY <1>2, <1>10, <1>12, <1>13, <1>14, <1>15

\* The two halves of a hand that is split: new hands with the stake of the old one.
Halves(h, g, box, a, bet) ==
  /\ a \in DOMAIN box.hands /\ bet = box.hands[a].bet /\ bet <= box.chips
  /\ h \in HandRecord /\ Unpaid(h) /\ h.bet = bet
  /\ g \in HandRecord /\ Unpaid(g) /\ g.bet = bet

\* A split stakes as much again as the hand had, and no more.
LEMMA SplitBox ==
  ASSUME NEW box \in BoxRecord, Fresh(box), NEW a, NEW bet, NEW h, NEW g,
         Halves(h, g, box, a, bet),
         NEW new, IsSplit(new, box.hands, a, h, g), NEW e, IsPlayed(e, box, new, bet)
  PROVE  e \in BoxRecord /\ Fresh(e) /\ BoxWealth(e) = BoxWealth(box)
<1>  /\ a \in DOMAIN box.hands /\ bet = box.hands[a].bet /\ bet <= box.chips
     /\ h \in HandRecord /\ Unpaid(h) /\ h.bet = bet
     /\ g \in HandRecord /\ Unpaid(g) /\ g.bet = bet
  BY DEF Halves
<1>1. PICK old \in Seq(HandRecord) : old = box.hands
  BY BoxHands
<1>2. PICK n \in Nat : n = Len(old)
  BY LenProperties
<1>3. /\ DOMAIN old = 1 .. n /\ a \in 1 .. n /\ bet \in Nat
      /\ \A i \in 1 .. n : old[i] \in HandRecord /\ old[i].bet \in Nat /\ Unpaid(old[i])
  BY <1>1, <1>2, BoxHands DEF Fresh
<1>4. /\ new \in Seq(HandRecord) /\ Len(new) = n + 1
      /\ \A i \in 1 .. a - 1 : new[i] = old[i]
      /\ new[a] = h /\ new[a + 1] = g
      /\ \A i \in a + 2 .. n + 1 : new[i] = old[i - 1]
  <2>1. IsSplit(new, old, a, h, g) /\ a \in 1 .. Len(old)
    BY <1>1, <1>2, <1>3
  <2>2. /\ new \in Seq(HandRecord) /\ Len(new) = Len(old) + 1
        /\ \A i \in 1 .. a - 1 : new[i] = old[i]
        /\ new[a] = h /\ new[a + 1] = g
        /\ \A i \in a + 2 .. Len(old) + 1 : new[i] = old[i - 1]
    BY <2>1, SplitHands
  <2> QED BY <1>2, <2>2
<1>5. DOMAIN new = 1 .. n + 1
  BY <1>4, LenProperties
<1>6. ASSUME NEW i \in 1 .. n + 1
      PROVE  Unpaid(new[i]) /\ new[i].bet \in Nat
  <2>1. CASE i < a
    <3>1. new[i] = old[i] /\ i \in 1 .. n
      BY <1>3, <1>4, <2>1
    <3> QED BY <1>3, <3>1
  <2>2. CASE i = a
    BY <1>3, <1>4, <2>2
  <2>3. CASE i = a + 1
    BY <1>3, <1>4, <2>3
  <2>4. CASE i > a + 1
    <3>1. new[i] = old[i - 1] /\ i - 1 \in 1 .. n
      BY <1>3, <1>4, <2>4
    <3> QED BY <1>3, <3>1
  <2> QED BY <1>3, <2>1, <2>2, <2>3, <2>4
<1>7. box.chips \in Nat /\ box.chips - bet \in Nat /\ box.bet \in Nat /\ box.active \in Nat
  BY <1>3 DEF BoxRecord
<1>8. e \in BoxRecord /\ e.hands = new /\ e.chips = box.chips - bet
  BY <1>4, <1>7 DEF IsPlayed, BoxRecord
<1>9. Fresh(e)
  BY <1>5, <1>6, <1>8 DEF Fresh
<1>10. /\ SumFunction(BetsOf(new)) = SumFunction(BetsOf(old)) + bet
       /\ SumFunction(BetsOf(old)) \in Int
  <2>1. PICK f : f = BetsOf(old)
    OBVIOUS
  <2>2. PICK k : k = BetsOf(new)
    OBVIOUS
  <2>3. f \in [1 .. n -> Int] /\ \A i \in 1 .. n : f[i] = old[i].bet
    BY <1>3, <2>1 DEF BetsOf
  <2>4. k \in [1 .. n + 1 -> Int] /\ \A i \in 1 .. n + 1 : k[i] = new[i].bet
    BY <1>5, <1>6, <2>2 DEF BetsOf
  <2>5. PutIn(k, f, a, bet, n)
    <3>1. ASSUME NEW i \in 1 .. a PROVE k[i] = f[i]
      <4>1. i \in 1 .. n /\ i \in 1 .. n + 1
        BY <1>3
      <4>2. CASE i = a
        BY <1>1, <1>4, <2>3, <2>4, <4>1, <4>2
      <4>3. CASE i # a
        <5>1. i \in 1 .. a - 1
          BY <1>3, <4>3
        <5> QED BY <1>4, <2>3, <2>4, <4>1, <5>1
      <4> QED BY <4>2, <4>3
    <3>2. k[a + 1] = bet
      <4>1. a + 1 \in 1 .. n + 1
        BY <1>3
      <4> QED BY <1>4, <2>4, <4>1
    <3>3. ASSUME NEW i \in a + 2 .. n + 1 PROVE k[i] = f[i - 1]
      <4>1. i \in 1 .. n + 1 /\ i - 1 \in 1 .. n
        BY <1>3
      <4> QED BY <1>4, <2>3, <2>4, <4>1
    <3> QED BY <2>3, <2>4, <3>1, <3>2, <3>3 DEF PutIn
  <2>6. SumFunction(k) = SumFunction(f) + bet
    BY <1>3, <2>5, SumPutsIn
  <2>7. SumFunction(f) \in Int
    <3>1. \A m \in Nat : IsFiniteSet(1 .. m)
      BY FS_Interval
    <3>2. PICK S : S = 1 .. n
      OBVIOUS
    <3>3. IsFiniteSet(S) /\ f \in [S -> Int]
      BY <2>3, <3>1, <3>2
    <3> QED BY <3>3, SumType
  <2> QED BY <2>1, <2>2, <2>6, <2>7
<1> QED BY <1>1, <1>7, <1>8, <1>9, <1>10, <1>3 DEF BoxWealth

\* A split gives one seat other hands.
LEMMA SetHandsPlaces ==
  ASSUME IsBoard(table), NEW s, s = table.toAct, s \in B!Seated(table),
         NEW box, box = table.players[s], NEW new, NEW e, IsPlayed(e, box, new, 0),
         NEW u, u = [table EXCEPT !.players[table.toAct].hands = new]
  PROVE  Placed(u, table, s, e, s)
<1>1. box \in BoxRecord
  BY HandsAreRecords
<1>2. u = [table EXCEPT !.players[s].hands = new]
  OBVIOUS
<1>3. u.players = [table.players EXCEPT ![s].hands = new]
  BY <1>2 DEF IsBoard
<1>4. e = [box EXCEPT !.hands = new]
  <2>1. box.chips \in Nat /\ box.chips - 0 = box.chips
    BY <1>1 DEF BoxRecord
  <2>2. e = [chips |-> box.chips, bet |-> box.bet, hands |-> new, active |-> box.active]
    BY <2>1 DEF IsPlayed
  <2> QED BY <1>1, <2>2 DEF BoxRecord
<1>5. u.players = [table.players EXCEPT ![s] = e]
  BY <1>3, <1>4 DEF IsBoard
<1>6. u = [phase |-> table.phase, players |-> u.players, dealer |-> table.dealer,
           dealerReveal |-> table.dealerReveal, hand |-> table.hand, toAct |-> s,
           results |-> table.results]
  BY <1>2 DEF IsBoard
<1> QED BY <1>5, <1>6 DEF Placed

\* Two equal cards are split into two hands (applyAction, case split).
LEMMA SplitIsFair ==
  ASSUME BoardIsFair(table), NEW c \in CARDS, NEW d \in CARDS, B!Split(c, d)
  PROVE  BoardIsFair(table') /\ Settles(table', table)
<1>1. PICK s : s = table.toAct
  OBVIOUS
<1>2. PICK box : box = table.players[s]
  OBVIOUS
<1>3. PICK a : a = box.active
  OBVIOUS
<1>4. PICK bet : bet = B!Active.bet
  OBVIOUS
<1>5. /\ B!MayPlay /\ IsBoard(table) /\ s \in B!Seated(table) /\ box \in BoxRecord
      /\ Fresh(box) /\ a \in DOMAIN box.hands /\ B!Active = box.hands[a]
      /\ B!Active \in HandRecord
  BY <1>1, <1>2, <1>3, ActiveHand DEF B!Split
<1>6. PICK v, h, g, new :
        /\ v \in CARDS
        /\ h = [B!MakeHand(B!Two(v, c), bet, TRUE) EXCEPT
                  !.done = v = B!Ace \/ B!HandValue(B!Two(v, c)) = 21]
        /\ g = [B!MakeHand(B!Two(v, d), bet, TRUE) EXCEPT
                  !.done = v = B!Ace \/ B!HandValue(B!Two(v, d)) = 21]
        /\ new = SubSeq(box.hands, 1, a - 1) \o <<h, g>>
                   \o SubSeq(box.hands, a + 1, Len(box.hands))
        /\ table' \in B!AfterAction(B!Pays([table EXCEPT !.players[table.toAct].hands = new],
                                           table.toAct, bet))
  BY <1>1, <1>2, <1>3, <1>4 DEF B!Split
<1>7. bet \in Nat /\ bet = box.hands[a].bet
  BY <1>4, <1>5 DEF HandRecord
<1>8. bet <= box.chips
  <2>1. table.players[table.toAct].chips >= B!Active.bet
    BY DEF B!Split
  <2>2. box.chips \in Nat /\ box.chips >= bet
    BY <1>1, <1>2, <1>4, <1>5, <2>1 DEF BoxRecord
  <2> QED BY <1>7, <2>2
<1>9. h \in HandRecord /\ Unpaid(h) /\ h.bet = bet
  <2>0. v \in CARDS
    BY <1>6
  <2>1. PICK cards \in [CARDS -> Nat] : cards = B!Two(v, c)
    BY <2>0, TwoCards
  <2>2. PICK done \in BOOLEAN : done = (v = B!Ace \/ B!HandValue(cards) = 21)
    OBVIOUS
  <2>3. PICK split \in BOOLEAN : split = TRUE
    OBVIOUS
  <2>4. IsMade(h, cards, bet, split, done)
    BY <1>6, <2>1, <2>2, <2>3 DEF IsMade
  <2>5. ~(B!HandValue(cards) > 21)
    BY <2>0, <2>1, TwoNeverBust
  <2> QED BY <1>7, <2>4, <2>5, HandIsMade
<1>10. g \in HandRecord /\ Unpaid(g) /\ g.bet = bet
  <2>0. v \in CARDS
    BY <1>6
  <2>1. PICK cards \in [CARDS -> Nat] : cards = B!Two(v, d)
    BY <2>0, TwoCards
  <2>2. PICK done \in BOOLEAN : done = (v = B!Ace \/ B!HandValue(cards) = 21)
    OBVIOUS
  <2>3. PICK split \in BOOLEAN : split = TRUE
    OBVIOUS
  <2>4. IsMade(g, cards, bet, split, done)
    BY <1>6, <2>1, <2>2, <2>3 DEF IsMade
  <2>5. ~(B!HandValue(cards) > 21)
    BY <2>0, <2>1, TwoNeverBust
  <2> QED BY <1>7, <2>4, <2>5, HandIsMade
<1>11. IsSplit(new, box.hands, a, h, g)
  BY <1>6 DEF IsSplit
<1>12. PICK e : IsPlayed(e, box, new, bet)
  BY DEF IsPlayed
<1>13. e \in BoxRecord /\ Fresh(e) /\ BoxWealth(e) = BoxWealth(box)
  <2>1. Halves(h, g, box, a, bet)
    BY <1>5, <1>7, <1>8, <1>9, <1>10 DEF Halves
  <2>2. box \in BoxRecord /\ Fresh(box)
    BY <1>5
  <2> QED BY <2>1, <2>2, <1>11, <1>12, SplitBox
<1>14. PICK t : t = B!Pays([table EXCEPT !.players[table.toAct].hands = new], table.toAct, bet)
  OBVIOUS
<1>15. Placed(t, table, s, e, s)
  <2>1. PICK u : u = [table EXCEPT !.players[table.toAct].hands = new]
    OBVIOUS
  <2>2. PICK f : IsPlayed(f, box, new, 0)
    BY DEF IsPlayed
  <2>3. Placed(u, table, s, f, s)
    BY <1>1, <1>2, <1>5, <2>1, <2>2, SetHandsPlaces
  <2>4. new \in Seq(HandRecord)
    <3>1. e.hands = new
      BY <1>12 DEF IsPlayed
    <3> QED BY <1>13, <3>1, BoxHands
  <2>5. t = B!Pays(u, s, bet)
    BY <1>1, <1>14, <2>1
  <2> QED BY <1>2, <1>5, <1>7, <1>12, <2>2, <2>3, <2>4, <2>5, PaysPlaces
<1>16. table' \in B!AfterAction(t)
  BY <1>6, <1>14
<1> QED BY <1>1, <1>2, <1>5, <1>13, <1>15, <1>16, PlayedOn

-----------------------------------------------------------------------------
(* Blackjack: the theorems.                                                *)

\* Every step keeps the board fair and settles no stake before its time.
LEMMA BlackjackNext ==
  ASSUME BoardIsFair(table), [B!Next]_table
  PROVE  BoardIsFair(table') /\ Settles(table', table)
<1>0. IsBoard(table)
  BY DEF BoardIsFair
<1>1. CASE UNCHANGED table
  <2>1. ~(table.phase # "done" /\ table'.phase = "done")
    BY <1>1
  <2>2. \A s \in B!Seated(table) : B!Wealth(table, s) \in Int
    BY <1>0, WealthIsNumber
  <2>3. table' = table
    BY <1>1
  <2> QED BY <2>1, <2>2, <2>3 DEF Settles
<1>2. ASSUME NEW s \in ToSet(TABLE), B!Sit(s) PROVE BoardIsFair(table') /\ Settles(table', table)
  BY <1>2, SitIsFair
<1>3. ASSUME NEW s \in ToSet(TABLE), NEW amount, B!Bet(s, amount)
      PROVE  BoardIsFair(table') /\ Settles(table', table)
  BY <1>3, BetIsKept
<1>4. CASE B!NewRound
  BY <1>4, NewRoundIsFair
<1>5. CASE B!Deal
  BY <1>5, DealIsFair
<1>6. CASE B!Stand
  BY <1>6, StandIsFair
<1>7. ASSUME NEW c \in CARDS, B!Hit(c) PROVE BoardIsFair(table') /\ Settles(table', table)
  BY <1>7, HitIsFair
<1>8. ASSUME NEW c \in CARDS, B!Double(c) PROVE BoardIsFair(table') /\ Settles(table', table)
  BY <1>8, DoubleIsFair
<1>9. ASSUME NEW c \in CARDS, NEW d \in CARDS, B!Split(c, d)
      PROVE  BoardIsFair(table') /\ Settles(table', table)
  BY <1>9, SplitIsFair
<1> QED BY <1>1, <1>2, <1>3, <1>4, <1>5, <1>6, <1>7, <1>8, <1>9, SameBlackjack
        DEF B!Next, B!Play

\* The empty table.
LEMMA BlackjackInit ==
  ASSUME B!Init
  PROVE  BoardIsFair(table)
<1>1. PICK players : players = << >>
  OBVIOUS
<1>2. PICK D : D = {}
  OBVIOUS
<1>3. players \in [D -> BoxRecord] /\ players \in Seq(D) /\ D \subseteq ToSet(TABLE)
  <2>1. << >> \in Seq(D)
    BY EmptySeq
  <2>2. << >> \in Seq(BoxRecord) /\ Len(<< >>) = 0
    BY EmptySeq
  <2>3. DOMAIN players = 1 .. Len(players)
    BY <1>1, <2>2, LenProperties
  <2>4. players \in [1 .. Len(players) -> BoxRecord]
    BY <1>1, <2>2, LenProperties
  <2> QED BY <1>1, <1>2, <2>1, <2>2, <2>3, <2>4
<1>4. PICK reveal : reveal = FALSE
  OBVIOUS
<1>5. Made(table, "waiting", players, players, reveal, players, None, None)
  BY <1>1, <1>4 DEF B!Init, Made
<1>6. IsBoard(table) /\ B!Seated(table) = {} /\ table.phase = "waiting"
  <2>1. IsBoard(table) /\ B!Seated(table) = D /\ table.phase = "waiting"
    BY <1>3, <1>5, MadeBoard
  <2> QED BY <1>2, <2>1
<1> QED BY <1>6 DEF BoardIsFair

\* What Settles says of a step is what StakesAreSettledOnce asks for.
LEMMA SettlesIsSettled ==
  ASSUME BoardIsFair(table), BoardIsFair(table'), Settles(table', table),
         NEW s \in B!Seated(table)
  PROVE  /\ table'.players[s].chips >= 0
         /\ B!Wealth(table', s) - B!Wealth(table, s) =
              IF table.phase # "done" /\ table'.phase = "done" THEN B!Won(table', s) ELSE 0
<1>1. PICK u : u = table'
  OBVIOUS
<1>2. IsBoard(u) /\ s \in B!Seated(u) /\ IsBoard(table)
  BY <1>1 DEF BoardIsFair, Settles
<1>3. u.players[s].chips \in Nat
  BY <1>2, HandsAreRecords DEF BoxRecord
<1>4. B!Wealth(table, s) \in Int /\ B!Won(u, s) \in Int
  <2>1. B!Won(u, s) = SumFunction(Nets(u, s))
    BY <1>2, WonIsSum
  <2>2. SumFunction(Nets(u, s)) \in Int
    BY <1>2, BetsType, SumType
  <2> QED BY <1>2, <2>1, <2>2, WealthIsNumber
<1>5. B!Wealth(u, s) = B!Wealth(table, s)
        + (IF table.phase # "done" /\ u.phase = "done" THEN B!Won(u, s) ELSE 0)
  BY <1>1 DEF Settles
<1> QED BY <1>1, <1>3, <1>4, <1>5

\* The inductive invariant of blackjack: what the table is made of, after a round
\* every hand has won what the rules pay, and in a round nothing is won yet, busted
\* hands are marked and the dealer, of two cards, is face down.
THEOREM BlackjackIsFair == Spec => []BoardIsFair(table)
<1>1. Init => BoardIsFair(table)
  BY BlackjackInit DEF Init
<1>2. BoardIsFair(table) /\ [Next]_vars => BoardIsFair(table)'
  <2> SUFFICES ASSUME BoardIsFair(table), [Next]_vars PROVE BoardIsFair(table')
    BY DEF BoardIsFair, InRound, IsBoard
  <2>1. [B!Next]_table
    BY DEF Next, vars, InBlackjack, InPoker, InTicTacToe
  <2> QED BY <2>1, BlackjackNext
<1> QED BY <1>1, <1>2, PTL DEF Spec

\* Stakes are settled once, when the round ends, and by what the hands won: bets,
\* doubles, splits and new rounds neither make nor lose a chip (blackjack.ts,
\* applyAction and playDealerAndResolve).
THEOREM StakesAreSettled == Spec => StakesAreSettledOnce
<1>1. BoardIsFair(table) /\ [Next]_vars =>
        [\A s \in B!Seated(table) :
           /\ table'.players[s].chips >= 0
           /\ B!Wealth(table', s) - B!Wealth(table, s) =
                IF table.phase # "done" /\ table'.phase = "done" THEN B!Won(table', s) ELSE 0]_table
  <2> SUFFICES ASSUME BoardIsFair(table), [Next]_vars, NEW s \in B!Seated(table)
               PROVE  /\ table'.players[s].chips >= 0
                      /\ B!Wealth(table', s) - B!Wealth(table, s) =
                           IF table.phase # "done" /\ table'.phase = "done"
                           THEN B!Won(table', s) ELSE 0
    OBVIOUS
  <2>1. [B!Next]_table
    BY DEF Next, vars, InBlackjack, InPoker, InTicTacToe
  <2>2. BoardIsFair(table') /\ Settles(table', table)
    BY <2>1, BlackjackNext
  <2> QED BY <2>2, SettlesIsSettled
<1> QED BY <1>1, BlackjackIsFair, PTL DEF Spec, StakesAreSettledOnce, B!StakesAreSettledOnce, B!vars

\* In a round the view shows the same whatever the second card of the dealer is
\* (view).
LEMMA HoleCardStaysHidden ==
  ASSUME BoardIsFair(table)
  PROVE  B!HoleCardIsHidden
<1> SUFFICES ASSUME table.phase = "playing", NEW c \in CARDS
             PROVE  B!View([table EXCEPT !.dealer[2] = c]) = B!View(table)
  BY DEF B!HoleCardIsHidden
<1>1. IsBoard(table) /\ ~table.dealerReveal
  BY DEF BoardIsFair, InRound
<1>2. PICK d : d = table.dealer
  OBVIOUS
<1>3. PICK e : e = [d EXCEPT ![2] = c]
  OBVIOUS
<1>4. DOMAIN e = DOMAIN d /\ (1 \in DOMAIN d => e[1] = d[1])
  BY <1>3
<1>5. PICK u : u = [table EXCEPT !.dealer[2] = c]
  OBVIOUS
<1>6. u = [phase |-> table.phase, players |-> table.players, dealer |-> e,
           dealerReveal |-> table.dealerReveal, hand |-> table.hand,
           toAct |-> table.toAct, results |-> table.results]
  BY <1>1, <1>2, <1>3, <1>5 DEF IsBoard
<1>7. PICK shown : shown = [i \in DOMAIN d |-> IF i = 1 THEN d[i] ELSE None]
  OBVIOUS
<1>8. shown = [i \in DOMAIN e |-> IF i = 1 THEN e[i] ELSE None]
  BY <1>4, <1>7
<1>9. B!View(table) = [phase |-> table.phase, players |-> table.players, dealer |-> shown,
                       dealerReveal |-> table.dealerReveal, hand |-> table.hand,
                       toAct |-> table.toAct, results |-> table.results]
  <2>1. B!View(table) = [table EXCEPT !.dealer = shown]
    BY <1>1, <1>2, <1>7 DEF B!View
  <2> QED BY <1>1, <2>1 DEF IsBoard
<1>10. B!View(u) = [phase |-> table.phase, players |-> table.players, dealer |-> shown,
                    dealerReveal |-> table.dealerReveal, hand |-> table.hand,
                    toAct |-> table.toAct, results |-> table.results]
  <2>1. ~u.dealerReveal /\ u.dealer = e
    BY <1>1, <1>6
  <2>2. B!View(u) = [u EXCEPT !.dealer = shown]
    BY <1>8, <2>1 DEF B!View
  <2> QED BY <1>6, <2>2
<1> QED BY <1>5, <1>9, <1>10

-----------------------------------------------------------------------------

\* At a table of poker chips and pot always add up to what the players sat down
\* with, and nobody owes any (poker.ts, postBlind, bet, awardFold, doShowdown).
THEOREM PokerNeitherMakesNorLosesChips == Spec => []ChipsAreConserved
<1>1. TableIsFair(state) => ChipsAreConserved
  BY FairTable DEF ChipsAreConserved
<1> QED BY <1>1, PokerIsFair, PTL

\* No bet of poker exceeds the one that was raised to, and all-in are exactly those
\* without chips (poker.ts, applyAction).
THEOREM PokerBetsAreCovered == Spec => []BetsAreCovered
<1>1. TableIsFair(state) => BetsAreCovered
  BY FairTable DEF BetsAreCovered
<1> QED BY <1>1, PokerIsFair, PTL

\* Before they must be shown, neither the second card of the dealer nor the cards of
\* another player can be told from the view (blackjack.ts and poker.ts, view).
THEOREM HiddenCardsStayHidden == Spec => []CardsStayHidden
<1>1. TableIsFair(state) /\ BoardIsFair(table) => CardsStayHidden
  BY FairTable, HoleCardStaysHidden DEF CardsStayHidden
<1> QED BY <1>1, PokerIsFair, BlackjackIsFair, PTL

\* After a round every hand has won what its rank against the dealer's pays: a
\* natural that no split left half its bet again, another hand that is higher its
\* bet, a tie nothing, and a bust or a lower hand loses the bet (blackjack.ts,
\* playDealerAndResolve).
THEOREM BlackjackPaysByTheRules == Spec => []HandsArePaidByTheRules
<1>1. BoardIsFair(table) => HandsArePaidByTheRules
  BY DEF BoardIsFair, HandsArePaidByTheRules, B!HandsArePaidByTheRules
<1> QED BY <1>1, BlackjackIsFair, PTL

\* Board, turn and winner of tic-tac-toe tell the same story (tictactoe.ts,
\* applyAction and evaluate).
THEOREM TicTacToeBoardsAreLegal == Spec => []BoardIsLegal
<1>1. Init => TicTacToeInv
  BY TicTacToeFresh DEF Init, T!Init
<1>2. TicTacToeInv /\ [Next]_vars => TicTacToeInv'
  <2>1. [Next]_vars => [T!Next]_game
    BY DEF Next, vars, InBlackjack, InPoker, InTicTacToe
  <2> QED BY <2>1, TicTacToeNext
<1>3. TicTacToeInv => BoardIsLegal
  BY DEF TicTacToeInv, BoardIsLegal
<1> QED BY <1>1, <1>2, <1>3, PTL DEF Spec
=============================================================================
