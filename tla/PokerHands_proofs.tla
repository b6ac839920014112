------------------------- MODULE PokerHands_proofs -------------------------
(***************************************************************************)
(* A showdown ranks hands by the rules of poker, for any deck of the 52    *)
(* cards and any seven of them.  What score5 gives to five cards is what   *)
(* they show when they are laid out by groups, or as a straight; the       *)
(* scores that five of the seven make are exactly those of nine kinds,     *)
(* which are read off the seven cards at once; of scores one beats the     *)
(* other where they first differ; and for each category the rules take     *)
(* the greatest ranks there are, so that nothing the cards make beats      *)
(* their choice.  score7 can then find nothing else.                       *)
(***************************************************************************)
EXTENDS ExampleApps, OperatorLemmas, SequenceTheorems

-----------------------------------------------------------------------------
(* Cards.                                                                  *)

Cards == 0 .. 51
AllRanks == 0 .. 12

\* A card is told apart by its suit and its rank.
LEMMA CardFacts ==
  /\ \A c \in Cards : H!Rank(c) \in 0 .. 12 /\ H!Suit(c) \in 0 .. 3
  /\ \A c, d \in Cards : H!Rank(c) = H!Rank(d) /\ H!Suit(c) = H!Suit(d) => c = d
<1>1. \A c \in Cards : /\ H!Rank(c) \in 0 .. 12 /\ H!Suit(c) \in 0 .. 3
                       /\ c = 13 * H!Suit(c) + H!Rank(c)
  BY DEF H!Rank, H!Suit, Cards
<1> QED BY <1>1

\* A rank is its own rank.
LEMMA RanksAreCards == \A r \in 0 .. 12 : r \in Cards /\ H!Rank(r) = r
BY DEF H!Rank, Cards

\* The cardinality of the model is that of the library.
LEMMA SameCardinality == \A S : H!Cardinality(S) = Cardinality(S)
BY DEF H!Cardinality, Cardinality

\* Sets of cards are finite.
LEMMA CardsAreFinite ==
  ASSUME NEW S, S \subseteq Cards
  PROVE  IsFiniteSet(S) /\ Cardinality(S) \in Nat
<1>1. IsFiniteSet(Cards)
  <2>1. 0 \in Int /\ 51 \in Int
    OBVIOUS
  <2> QED BY <2>1, FS_Interval DEF Cards
<1> QED BY <1>1, FS_Subset, FS_CardinalityType

\* What holds of the sizes of sets of cards, one in the other.
LEMMA SubsetOfCards ==
  ASSUME NEW U, U \subseteq Cards, NEW S, S \subseteq U
  PROVE  Cardinality(S) <= Cardinality(U) /\ (Cardinality(S) = Cardinality(U) => S = U)
BY CardsAreFinite, FS_Subset

Different(a, b, c, d, e) ==
  /\ a # b /\ a # c /\ b # c /\ a # d /\ b # d /\ c # d
  /\ a # e /\ b # e /\ c # e /\ d # e

\* The sizes of small sets.
LEMMA SizeOfTwo ==
  ASSUME NEW a, NEW b
  PROVE  /\ IsFiniteSet({a, b}) /\ Cardinality({a, b}) \in 1 .. 2
         /\ a # b => Cardinality({a, b}) = 2
<1>1. IsFiniteSet({a}) /\ Cardinality({a}) = 1
  BY FS_Singleton
<1>2. Cardinality({a} \cup {b}) = IF b \in {a} THEN Cardinality({a}) ELSE Cardinality({a}) + 1
  BY <1>1, FS_AddElement
<1>3. IsFiniteSet({a} \cup {b}) /\ {a} \cup {b} = {a, b}
  BY <1>1, FS_AddElement
<1> QED BY <1>1, <1>2, <1>3

\* The size of a set of three.
LEMMA SizeOfThree ==
  ASSUME NEW a, NEW b, NEW c
  PROVE  /\ IsFiniteSet({a, b, c}) /\ Cardinality({a, b, c}) \in 1 .. 3
         /\ a # b /\ a # c /\ b # c => Cardinality({a, b, c}) = 3
<1>1. /\ IsFiniteSet({a, b}) /\ Cardinality({a, b}) \in 1 .. 2
      /\ a # b => Cardinality({a, b}) = 2
  BY SizeOfTwo
<1>2. Cardinality({a, b} \cup {c})
        = IF c \in {a, b} THEN Cardinality({a, b}) ELSE Cardinality({a, b}) + 1
  BY <1>1, FS_AddElement
<1>3. IsFiniteSet({a, b} \cup {c}) /\ {a, b} \cup {c} = {a, b, c}
  BY <1>1, FS_AddElement
<1> QED BY <1>1, <1>2, <1>3

\* The size of a set of four.
LEMMA SizeOfFour ==
  ASSUME NEW a, NEW b, NEW c, NEW d
  PROVE  /\ IsFiniteSet({a, b, c, d}) /\ Cardinality({a, b, c, d}) \in 1 .. 4
         /\ a # b /\ a # c /\ b # c /\ a # d /\ b # d /\ c # d
              => Cardinality({a, b, c, d}) = 4
<1>1. /\ IsFiniteSet({a, b, c}) /\ Cardinality({a, b, c}) \in 1 .. 3
      /\ a # b /\ a # c /\ b # c => Cardinality({a, b, c}) = 3
  BY SizeOfThree
<1>2. Cardinality({a, b, c} \cup {d})
        = IF d \in {a, b, c} THEN Cardinality({a, b, c}) ELSE Cardinality({a, b, c}) + 1
  BY <1>1, FS_AddElement
<1>3. IsFiniteSet({a, b, c} \cup {d}) /\ {a, b, c} \cup {d} = {a, b, c, d}
  BY <1>1, FS_AddElement
<1> QED BY <1>1, <1>2, <1>3

\* The size of a set of five.
LEMMA SizeOfFive ==
  ASSUME NEW a, NEW b, NEW c, NEW d, NEW e, Different(a, b, c, d, e)
  PROVE  Cardinality({a, b, c, d, e}) = 5
<1>1. /\ IsFiniteSet({a, b, c, d}) /\ Cardinality({a, b, c, d}) = 4
      /\ e \notin {a, b, c, d}
  BY SizeOfFour DEF Different
<1>2. Cardinality({a, b, c, d} \cup {e}) = 5
  BY <1>1, FS_AddElement
<1>3. {a, b, c, d} \cup {e} = {a, b, c, d, e}
  OBVIOUS
<1> QED BY <1>2, <1>3

Different4(a, b, c, d) == a # b /\ a # c /\ b # c /\ a # d /\ b # d /\ c # d

\* The sets of the first ones have one element more each.
LEMMA SizesOfPrefixes ==
  ASSUME NEW a, NEW b, NEW c, NEW d, Different4(a, b, c, d)
  PROVE  /\ Cardinality({}) = 0 /\ Cardinality({a}) = 1 /\ Cardinality({a, b}) = 2
         /\ Cardinality({a, b, c}) = 3 /\ Cardinality({a, b, c, d}) = 4
<1>1. Cardinality({}) = 0 /\ Cardinality({a}) = 1
  BY FS_EmptySet, FS_Singleton
<1>2. Cardinality({a, b}) = 2
  BY SizeOfTwo DEF Different4
<1>3. Cardinality({a, b, c}) = 3
  BY SizeOfThree DEF Different4
<1>4. Cardinality({a, b, c, d}) = 4
  BY SizeOfFour DEF Different4
<1> QED BY <1>1, <1>2, <1>3, <1>4

Among(S, a, b, c, d) == S \subseteq {a, b, c, d}

\* Sets of the elements of four have four elements at most.
LEMMA AtMostFour ==
  ASSUME NEW S, NEW a, NEW b, NEW c, NEW d, Among(S, a, b, c, d)
  PROVE  IsFiniteSet(S) /\ Cardinality(S) \in 0 .. 4
<1>1. IsFiniteSet({a, b, c, d}) /\ Cardinality({a, b, c, d}) \in 1 .. 4
  BY SizeOfFour
<1>2. IsFiniteSet(S) /\ Cardinality(S) <= Cardinality({a, b, c, d}) /\ Cardinality(S) \in Nat
  BY <1>1, FS_Subset, FS_CardinalityType DEF Among
<1> QED BY <1>1, <1>2

-----------------------------------------------------------------------------
(* How many cards of a rank there are.                                     *)

\* Cards of one rank are counted.
LEMMA CountIs == \A S, r : H!Count(S, r) = Cardinality({c \in S : H!Rank(c) = r})
BY SameCardinality DEF H!Count

\* One card more counts where its rank is.
LEMMA CountAdd ==
  ASSUME NEW S, IsFiniteSet(S), NEW c, c \notin S, NEW r
  PROVE  H!Count(S \cup {c}, r) = H!Count(S, r) + IF H!Rank(c) = r THEN 1 ELSE 0
<1> DEFINE A == {d \in S : H!Rank(d) = r}
<1>1. IsFiniteSet(A) /\ Cardinality(A) \in Nat
  BY FS_Subset, FS_CardinalityType
<1>2. CASE H!Rank(c) = r
  <2>1. {d \in S \cup {c} : H!Rank(d) = r} = A \cup {c}
    BY <1>2
  <2>2. Cardinality(A \cup {c}) = Cardinality(A) + 1
    BY <1>1, FS_AddElement
  <2> QED BY <1>2, <2>1, <2>2, CountIs
<1>3. CASE H!Rank(c) # r
  <2>1. {d \in S \cup {c} : H!Rank(d) = r} = A
    BY <1>3
  <2> QED BY <1>1, <1>3, <2>1, CountIs
<1> QED BY <1>2, <1>3

\* No rank has more than the four cards of the four suits.
LEMMA CountBounds ==
  ASSUME NEW S, S \subseteq Cards, NEW r \in 0 .. 12
  PROVE  /\ H!Count(S, r) \in 0 .. 4
         /\ H!Count(S, r) > 0 <=> r \in H!Ranks(S)
<1> DEFINE A == {c \in S : H!Rank(c) = r}
<1>1. Among(A, r, 13 + r, 26 + r, 39 + r)
  <2>1. \A c \in Cards : H!Rank(c) = r => c \in {r, 13 + r, 26 + r, 39 + r}
    BY DEF H!Rank, Cards
  <2> QED BY <2>1 DEF Among
<1> HIDE DEF A
<1>2. IsFiniteSet(A) /\ Cardinality(A) \in 0 .. 4
  BY <1>1, AtMostFour
<1>3. Cardinality(A) > 0 <=> A # {}
  BY <1>2, FS_EmptySet
<1>4. A # {} <=> r \in H!Ranks(S)
  BY DEF A, H!Ranks
<1>5. H!Count(S, r) = Cardinality(A)
  BY CountIs DEF A
<1> QED BY <1>2, <1>3, <1>4, <1>5

\* Fewer cards do not count for more.
LEMMA CountMonotone ==
  ASSUME NEW U, U \subseteq Cards, NEW S, S \subseteq U, NEW r
  PROVE  H!Count(S, r) <= H!Count(U, r)
<1> DEFINE A == {c \in S : H!Rank(c) = r}
           B0 == {c \in U : H!Rank(c) = r}
<1>1. A \subseteq B0 /\ B0 \subseteq Cards
  OBVIOUS
<1>2. Cardinality(A) <= Cardinality(B0)
  BY <1>1, SubsetOfCards
<1> QED BY <1>2, CountIs

\* The count of five cards.
LEMMA CountOfFive ==
  ASSUME NEW a, NEW b, NEW c, NEW d, NEW e, NEW r,
         Different(a, b, c, d, e)
  PROVE  H!Count({a, b, c, d, e}, r)
           = (IF H!Rank(a) = r THEN 1 ELSE 0) + (IF H!Rank(b) = r THEN 1 ELSE 0)
             + (IF H!Rank(c) = r THEN 1 ELSE 0) + (IF H!Rank(d) = r THEN 1 ELSE 0)
             + (IF H!Rank(e) = r THEN 1 ELSE 0)
<1>1. /\ IsFiniteSet({}) /\ IsFiniteSet({a}) /\ IsFiniteSet({a, b}) /\ IsFiniteSet({a, b, c})
      /\ IsFiniteSet({a, b, c, d})
  BY SizeOfTwo, SizeOfThree, SizeOfFour, FS_EmptySet, FS_Singleton
<1>2. {} \cup {a} = {a} /\ {a} \cup {b} = {a, b} /\ {a, b} \cup {c} = {a, b, c}
      /\ {a, b, c} \cup {d} = {a, b, c, d} /\ {a, b, c, d} \cup {e} = {a, b, c, d, e}
  OBVIOUS
<1>3. a \notin {} /\ b \notin {a} /\ c \notin {a, b} /\ d \notin {a, b, c} /\ e \notin {a, b, c, d}
  BY DEF Different
<1>4. H!Count({}, r) = 0
  <2>1. {x \in {} : H!Rank(x) = r} = {}
    OBVIOUS
  <2> QED BY <2>1, CountIs, FS_EmptySet
<1>5. H!Count({a}, r) = 0 + IF H!Rank(a) = r THEN 1 ELSE 0
  BY <1>1, <1>2, <1>3, <1>4, CountAdd
<1>6. H!Count({a, b}, r) = H!Count({a}, r) + IF H!Rank(b) = r THEN 1 ELSE 0
  BY <1>1, <1>2, <1>3, CountAdd
<1>7. H!Count({a, b, c}, r) = H!Count({a, b}, r) + IF H!Rank(c) = r THEN 1 ELSE 0
  BY <1>1, <1>2, <1>3, CountAdd
<1>8. H!Count({a, b, c, d}, r) = H!Count({a, b, c}, r) + IF H!Rank(d) = r THEN 1 ELSE 0
  BY <1>1, <1>2, <1>3, CountAdd
<1>9. H!Count({a, b, c, d, e}, r) = H!Count({a, b, c, d}, r) + IF H!Rank(e) = r THEN 1 ELSE 0
  BY <1>1, <1>2, <1>3, CountAdd
<1> QED BY <1>5, <1>6, <1>7, <1>8, <1>9

-----------------------------------------------------------------------------
(* What Sorted puts where.                                                 *)

\* before[c] is what goes before c in an order of S.
Orders(S, before) ==
  /\ \A c \in S : before[c] \subseteq S /\ c \notin before[c]
  /\ \A c, d \in S : c # d => d \in before[c] \/ c \in before[d]
  /\ \A c, d \in S : d \in before[c] => before[d] \subseteq before[c]

\* The card that i - 1 cards go before comes i-th.
LEMMA SortedAt ==
  ASSUME NEW S, S \subseteq Cards, NEW before, Orders(S, before),
         NEW i \in 1 .. Cardinality(S), NEW c \in S, Cardinality(before[c]) = i - 1
  PROVE  H!Sorted(S, before)[i] = H!Rank(c)
<1>1. ASSUME NEW d \in S, d # c PROVE Cardinality(before[d]) # i - 1
  <2>1. /\ before[c] \subseteq Cards /\ before[d] \subseteq Cards
        /\ Cardinality(before[c]) \in Nat /\ Cardinality(before[d]) \in Nat
    BY CardsAreFinite DEF Orders
  <2>2. CASE d \in before[c]
    <3>1. before[d] \subseteq before[c] /\ d \notin before[d]
      BY <2>2 DEF Orders
    <3> QED BY <2>1, <2>2, <3>1, SubsetOfCards
  <2>3. CASE c \in before[d]
    <3>1. before[c] \subseteq before[d] /\ c \notin before[c]
      BY <2>3 DEF Orders
    <3> QED BY <2>1, <2>3, <3>1, SubsetOfCards
  <2> QED BY <1>1, <2>2, <2>3 DEF Orders
<1>2. (CHOOSE d \in S : H!Cardinality(before[d]) = i - 1) = c
  BY <1>1, SameCardinality
<1>3. i \in 1 .. H!Cardinality(S)
  BY SameCardinality
<1> QED BY <1>2, <1>3 DEF H!Sorted

\* Sorted puts as many elements in a row as there are.
LEMMA SortedDomain ==
  ASSUME NEW S, NEW before
  PROVE  /\ H!Sorted(S, before) = [i \in 1 .. Cardinality(S) |-> H!Sorted(S, before)[i]]
         /\ DOMAIN H!Sorted(S, before) = 1 .. Cardinality(S)
BY SameCardinality DEF H!Sorted

\* Of some of the cards one comes first.
LEMMA SomeIsFirst ==
  ASSUME NEW S, S \subseteq Cards, NEW before, Orders(S, before), NEW A, A \subseteq S, A # {}
  PROVE  \E c \in A : \A d \in A : d # c => c \in before[d]
<1>1. \A c \in S : before[c] \subseteq Cards /\ Cardinality(before[c]) \in Nat
  BY CardsAreFinite DEF Orders
<1> DEFINE K == {Cardinality(before[c]) : c \in A}
<1>2. K \in SUBSET Nat /\ K # {}
  BY <1>1
<1>3. PICK m \in K : \A n \in K : m <= n
  BY <1>2, LeastNumber
<1>4. PICK c \in A : m = Cardinality(before[c])
  OBVIOUS
<1>5. ASSUME NEW d \in A, d # c PROVE c \in before[d]
  <2>1. m <= Cardinality(before[d])
    BY <1>3
  <2>2. c \in S /\ d \in S
    OBVIOUS
  <2> HIDE DEF K
  <2>3. CASE d \in before[c]
    <3>1. before[d] \subseteq before[c] /\ d \notin before[d]
      BY <2>2, <2>3 DEF Orders
    <3>2. Cardinality(before[d]) <= Cardinality(before[c])
          /\ Cardinality(before[d]) # Cardinality(before[c])
      BY <1>1, <2>2, <2>3, <3>1, SubsetOfCards
    <3> QED BY <1>1, <1>4, <2>1, <2>2, <3>2
  <2> QED BY <1>5, <2>2, <2>3 DEF Orders
<1> QED BY <1>5

ByRank(S) == [c \in S |-> {d \in S : H!Higher(d, c)}]
ByFrequency(S) == [c \in S |-> {d \in S : H!Outranks(S, d, c)}]

\* Both orders of the scoring are orders.
LEMMA BothAreOrders ==
  ASSUME NEW S, S \subseteq Cards
  PROVE  Orders(S, ByRank(S)) /\ Orders(S, ByFrequency(S))
<1>1. \A d \in S : H!Rank(d) \in 0 .. 12 /\ H!Count(S, H!Rank(d)) \in 0 .. 4
  BY CardFacts, CountBounds
<1>2. Orders(S, ByRank(S))
  <2>1. \A a, b \in S : ~H!Higher(a, a) /\ (a # b => H!Higher(a, b) \/ H!Higher(b, a))
    BY <1>1 DEF H!Higher, Cards
  <2>2. \A a, b, e \in S : H!Higher(a, b) /\ H!Higher(b, e) => H!Higher(a, e)
    BY <1>1 DEF H!Higher, Cards
  <2> QED BY <2>1, <2>2 DEF Orders, ByRank
<1>3. Orders(S, ByFrequency(S))
  <2>1. \A a, b \in S : ~H!Outranks(S, a, a)
                        /\ (a # b => H!Outranks(S, a, b) \/ H!Outranks(S, b, a))
    BY <1>1 DEF H!Higher, Cards, H!Outranks
  <2>2. \A a, b, e \in S : H!Outranks(S, a, b) /\ H!Outranks(S, b, e) => H!Outranks(S, a, e)
    BY <1>1 DEF H!Higher, Cards, H!Outranks
  <2> QED BY <2>1, <2>2 DEF Orders, ByFrequency
<1> QED BY <1>2, <1>3

\* The card with i - 1 higher ones is the i-th, and so it is among the groups.
LEMMA DescendingAt ==
  ASSUME NEW S, S \subseteq Cards, NEW i \in 1 .. Cardinality(S), NEW c \in S,
         Cardinality({d \in S : H!Higher(d, c)}) = i - 1
  PROVE  H!Descending(S)[i] = H!Rank(c)
<1>1. Cardinality(ByRank(S)[c]) = i - 1
  BY DEF ByRank
<1>2. H!Sorted(S, ByRank(S))[i] = H!Rank(c)
  BY <1>1, BothAreOrders, SortedAt
<1> QED BY <1>2 DEF ByRank, H!Descending

\* The card that i - 1 others outrank is the i-th of the groups.
LEMMA ByGroupAt ==
  ASSUME NEW S, S \subseteq Cards, NEW i \in 1 .. Cardinality(S), NEW c \in S,
         Cardinality({d \in S : H!Outranks(S, d, c)}) = i - 1
  PROVE  H!ByGroup(S)[i] = H!Rank(c)
<1>1. Cardinality(ByFrequency(S)[c]) = i - 1
  BY DEF ByFrequency
<1>2. H!Sorted(S, ByFrequency(S))[i] = H!Rank(c)
  BY <1>1, BothAreOrders, SortedAt
<1> QED BY <1>2 DEF ByFrequency, H!ByGroup

\* Of some cards of a hand one is the highest, and of some one comes first.
LEMMA SomeIsHighest ==
  ASSUME NEW S, S \subseteq Cards, NEW A, A \subseteq S, A # {}
  PROVE  \E c \in A : \A d \in A : d # c => H!Higher(c, d)
<1>1. PICK c \in A : \A d \in A : d # c => c \in ByRank(S)[d]
  BY BothAreOrders, SomeIsFirst
<1> QED BY <1>1 DEF ByRank

\* Of some cards of a hand one outranks the others.
LEMMA SomeOutranksAll ==
  ASSUME NEW S, S \subseteq Cards, NEW A, A \subseteq S, A # {}
  PROVE  \E c \in A : \A d \in A : d # c => H!Outranks(S, c, d)
<1>1. PICK c \in A : \A d \in A : d # c => c \in ByFrequency(S)[d]
  BY BothAreOrders, SomeIsFirst
<1> QED BY <1>1 DEF ByFrequency

-----------------------------------------------------------------------------
(* The kinds of five cards.                                                *)

\* Five cards of a hand, in the order of its groups.
Arranged(S, a, b, c, d, e) ==
  /\ S = {a, b, c, d, e} /\ Different(a, b, c, d, e)
  /\ \A x \in {b, c, d, e} : H!Outranks(S, a, x)
  /\ \A x \in {c, d, e} : H!Outranks(S, b, x)
  /\ \A x \in {d, e} : H!Outranks(S, c, x)
  /\ H!Outranks(S, d, e)

\* Any five cards can be arranged.
LEMMA FiveAreArranged ==
  ASSUME NEW S, S \subseteq Cards, Cardinality(S) = 5
  PROVE  \E a, b, c, d, e \in S : Arranged(S, a, b, c, d, e)
<1>0. ASSUME NEW a, NEW b, NEW c, NEW d PROVE S \ {a, b, c, d} # {}
  <2> SUFFICES ASSUME S \subseteq {a, b, c, d} PROVE FALSE
    OBVIOUS
  <2>1. Among(S, a, b, c, d)
    BY DEF Among
  <2> QED BY <2>1, AtMostFour
<1>1. PICK a \in S : \A x \in S : x # a => H!Outranks(S, a, x)
  <2>1. S # {}
    BY <1>0
  <2> QED BY <2>1, SomeOutranksAll
<1>2. PICK b \in S \ {a} : \A x \in S \ {a} : x # b => H!Outranks(S, b, x)
  <2>1. S \ {a} # {} /\ S \ {a} \subseteq S
    BY <1>0
  <2> QED BY <2>1, SomeOutranksAll
<1>3. PICK c \in S \ {a, b} : \A x \in S \ {a, b} : x # c => H!Outranks(S, c, x)
  <2>1. S \ {a, b} # {} /\ S \ {a, b} \subseteq S
    BY <1>0
  <2> QED BY <2>1, SomeOutranksAll
<1>4. PICK d \in S \ {a, b, c} : \A x \in S \ {a, b, c} : x # d => H!Outranks(S, d, x)
  <2>1. S \ {a, b, c} # {} /\ S \ {a, b, c} \subseteq S
    BY <1>0
  <2> QED BY <2>1, SomeOutranksAll
<1>5. PICK e \in S \ {a, b, c, d} : TRUE
  BY <1>0
<1>6. Different(a, b, c, d, e)
  BY DEF Different
<1>7. S = {a, b, c, d, e}
  <2>1. Cardinality({a, b, c, d, e}) = 5 /\ {a, b, c, d, e} \subseteq S
    BY <1>6, SizeOfFive
  <2> QED BY <2>1, SubsetOfCards
<1>8. /\ \A x \in {b, c, d, e} : H!Outranks(S, a, x)
      /\ \A x \in {c, d, e} : H!Outranks(S, b, x)
      /\ \A x \in {d, e} : H!Outranks(S, c, x)
      /\ H!Outranks(S, d, e)
  BY <1>1, <1>2, <1>3, <1>4
<1> QED BY <1>6, <1>7, <1>8 DEF Arranged

\* No card outranks one that outranks it.
LEMMA OutranksOneWay ==
  ASSUME NEW S, S \subseteq Cards, NEW c \in S, NEW d \in S, H!Outranks(S, c, d)
  PROVE  ~H!Outranks(S, d, c)
<1>1. Orders(S, ByFrequency(S))
  BY BothAreOrders
<1>2. c \in ByFrequency(S)[d]
  BY DEF ByFrequency
<1>3. d \notin ByFrequency(S)[c]
  BY <1>1, <1>2 DEF Orders
<1> QED BY <1>3 DEF ByFrequency

\* A function of five arguments 1 .. 5 is a sequence.
LEMMA FiveInARow ==
  ASSUME NEW f, DOMAIN f = 1 .. 5, f = [i \in 1 .. 5 |-> f[i]]
  PROVE  f = <<f[1], f[2], f[3], f[4], f[5]>>
OBVIOUS

\* Their groups are the ranks in that order.
LEMMA GroupsOfArranged ==
  ASSUME NEW S, S \subseteq Cards, NEW a, NEW b, NEW c, NEW d, NEW e, Arranged(S, a, b, c, d, e)
  PROVE  H!ByGroup(S) = <<H!Rank(a), H!Rank(b), H!Rank(c), H!Rank(d), H!Rank(e)>>
<1>0. /\ Cardinality(S) = 5 /\ a \in S /\ b \in S /\ c \in S /\ d \in S /\ e \in S
      /\ S = {a, b, c, d, e} /\ Different(a, b, c, d, e)
  BY SizeOfFive DEF Arranged
<1>1. \A x \in S : ~H!Outranks(S, x, x)
  <2>1. \A x \in S : x \notin ByFrequency(S)[x]
    BY BothAreOrders DEF Orders
  <2> QED BY <2>1 DEF ByFrequency
<1>2. {x \in S : H!Outranks(S, x, a)} = {}
  BY <1>0, <1>1, OutranksOneWay DEF Arranged
<1>3. {x \in S : H!Outranks(S, x, b)} = {a}
  BY <1>0, <1>1, OutranksOneWay DEF Arranged
<1>4. {x \in S : H!Outranks(S, x, c)} = {a, b}
  BY <1>0, <1>1, OutranksOneWay DEF Arranged
<1>5. {x \in S : H!Outranks(S, x, d)} = {a, b, c}
  BY <1>0, <1>1, OutranksOneWay DEF Arranged
<1>6. {x \in S : H!Outranks(S, x, e)} = {a, b, c, d}
  BY <1>0, <1>1, OutranksOneWay DEF Arranged
<1>7. /\ Cardinality({}) = 0 /\ Cardinality({a}) = 1 /\ Cardinality({a, b}) = 2
      /\ Cardinality({a, b, c}) = 3 /\ Cardinality({a, b, c, d}) = 4
  <2>1. Different4(a, b, c, d)
    BY <1>0 DEF Different, Different4
  <2> QED BY <2>1, SizesOfPrefixes
<1>8. H!ByGroup(S)[1] = H!Rank(a)
  <2>1. 1 \in 1 .. Cardinality(S) /\ Cardinality({x \in S : H!Outranks(S, x, a)}) = 1 - 1
    BY <1>0, <1>2, <1>7
  <2> QED BY <1>0, <2>1, ByGroupAt
<1>9. H!ByGroup(S)[2] = H!Rank(b)
  <2>1. 2 \in 1 .. Cardinality(S) /\ Cardinality({x \in S : H!Outranks(S, x, b)}) = 2 - 1
    BY <1>0, <1>3, <1>7
  <2> QED BY <1>0, <2>1, ByGroupAt
<1>10. H!ByGroup(S)[3] = H!Rank(c)
  <2>1. 3 \in 1 .. Cardinality(S) /\ Cardinality({x \in S : H!Outranks(S, x, c)}) = 3 - 1
    BY <1>0, <1>4, <1>7
  <2> QED BY <1>0, <2>1, ByGroupAt
<1>11. H!ByGroup(S)[4] = H!Rank(d)
  <2>1. 4 \in 1 .. Cardinality(S) /\ Cardinality({x \in S : H!Outranks(S, x, d)}) = 4 - 1
    BY <1>0, <1>5, <1>7
  <2> QED BY <1>0, <2>1, ByGroupAt
<1>12. H!ByGroup(S)[5] = H!Rank(e)
  <2>1. 5 \in 1 .. Cardinality(S) /\ Cardinality({x \in S : H!Outranks(S, x, e)}) = 5 - 1
    BY <1>0, <1>6, <1>7
  <2> QED BY <1>0, <2>1, ByGroupAt
<1>13. DOMAIN H!ByGroup(S) = 1 .. 5 /\ H!ByGroup(S) = [i \in 1 .. 5 |-> H!ByGroup(S)[i]]
  <2>1. H!ByGroup(S) = H!Sorted(S, ByFrequency(S))
    BY DEF H!ByGroup, ByFrequency
  <2> QED BY <1>0, <2>1, SortedDomain
<1> QED BY <1>8, <1>9, <1>10, <1>11, <1>12, <1>13, FiveInARow

\* Five ranks in the order of their groups: four, three and two, or three of a
\* kind, two pairs, one pair, or all different.
Kind(k, a, b, c, d, e) ==
  \/ k = 7 /\ a = b /\ b = c /\ c = d /\ d # e
  \/ k = 6 /\ a = b /\ b = c /\ c # d /\ d = e
  \/ k = 3 /\ a = b /\ b = c /\ d > e /\ c # d /\ c # e
  \/ k = 2 /\ a = b /\ b > c /\ c = d /\ e # a /\ e # c
  \/ k = 1 /\ a = b /\ c > d /\ d > e /\ a # c /\ a # d /\ a # e
  \/ k = 0 /\ a > b /\ b > c /\ c > d /\ d > e

\* How often r is among five ranks.
Tally(r, a, b, c, d, e) ==
  (IF a = r THEN 1 ELSE 0) + (IF b = r THEN 1 ELSE 0) + (IF c = r THEN 1 ELSE 0)
    + (IF d = r THEN 1 ELSE 0) + (IF e = r THEN 1 ELSE 0)

\* Five ranks of which one comes before the next if there are more of it.
InGroups(a, b, c, d, e) ==
  LET n(r) == Tally(r, a, b, c, d, e) IN
  /\ n(a) <= 4
  /\ n(a) > n(b) \/ (n(a) = n(b) /\ a >= b)
  /\ n(b) > n(c) \/ (n(b) = n(c) /\ b >= c)
  /\ n(c) > n(d) \/ (n(c) = n(d) /\ c >= d)
  /\ n(d) > n(e) \/ (n(d) = n(e) /\ d >= e)

\* There are no other ways to arrange five ranks.
LEMMA Kinds ==
  ASSUME NEW a \in AllRanks, NEW b \in AllRanks, NEW c \in AllRanks, NEW d \in AllRanks,
         NEW e \in AllRanks, InGroups(a, b, c, d, e)
  PROVE  \E k \in {0, 1, 2, 3, 6, 7} : Kind(k, a, b, c, d, e)
BY SMTT(60) DEF Tally, Kind, InGroups, AllRanks

Counted(S, a, b, c, d, e) == S = {a, b, c, d, e} /\ Different(a, b, c, d, e)

\* Five cards count for what their ranks tell.
LEMMA CountIsTally ==
  ASSUME NEW S, NEW a, NEW b, NEW c, NEW d, NEW e, Counted(S, a, b, c, d, e), NEW r
  PROVE  H!Count(S, r) = Tally(r, H!Rank(a), H!Rank(b), H!Rank(c), H!Rank(d), H!Rank(e))
BY CountOfFive DEF Counted, Tally

\* The ranks of arranged cards are of one of the kinds.
LEMMA ArrangedKind ==
  ASSUME NEW S, S \subseteq Cards, NEW a, NEW b, NEW c, NEW d, NEW e, Arranged(S, a, b, c, d, e)
  PROVE  \E k \in {0, 1, 2, 3, 6, 7} :
           Kind(k, H!Rank(a), H!Rank(b), H!Rank(c), H!Rank(d), H!Rank(e))
<1>1. a \in S /\ b \in S /\ c \in S /\ d \in S /\ e \in S /\ Counted(S, a, b, c, d, e)
  BY DEF Arranged, Counted
<1>2. H!Outranks(S, a, b) /\ H!Outranks(S, b, c) /\ H!Outranks(S, c, d) /\ H!Outranks(S, d, e)
  BY DEF Arranged
<1> DEFINE U(r) == Tally(r, H!Rank(a), H!Rank(b), H!Rank(c), H!Rank(d), H!Rank(e))
<1>3. \A r : H!Count(S, r) = U(r)
  BY <1>1, CountIsTally
<1>4. /\ H!Rank(a) \in 0 .. 12 /\ H!Rank(b) \in 0 .. 12 /\ H!Rank(c) \in 0 .. 12
      /\ H!Rank(d) \in 0 .. 12 /\ H!Rank(e) \in 0 .. 12
  BY <1>1, CardFacts
<1>5. U(H!Rank(a)) <= 4
  <2>1. H!Count(S, H!Rank(a)) \in 0 .. 4
    BY <1>4, CountBounds
  <2> QED BY <1>3, <2>1
<1> HIDE DEF U
<1>6. ASSUME NEW x, NEW y, H!Outranks(S, x, y), H!Rank(x) \in 0 .. 12, H!Rank(y) \in 0 .. 12
      PROVE  \/ U(H!Rank(x)) > U(H!Rank(y))
             \/ U(H!Rank(x)) = U(H!Rank(y)) /\ H!Rank(x) >= H!Rank(y)
  BY <1>3, <1>6 DEF H!Outranks, H!Higher
<1>7. /\ \/ U(H!Rank(a)) > U(H!Rank(b))
         \/ U(H!Rank(a)) = U(H!Rank(b)) /\ H!Rank(a) >= H!Rank(b)
      /\ \/ U(H!Rank(b)) > U(H!Rank(c))
         \/ U(H!Rank(b)) = U(H!Rank(c)) /\ H!Rank(b) >= H!Rank(c)
      /\ \/ U(H!Rank(c)) > U(H!Rank(d))
         \/ U(H!Rank(c)) = U(H!Rank(d)) /\ H!Rank(c) >= H!Rank(d)
      /\ \/ U(H!Rank(d)) > U(H!Rank(e))
         \/ U(H!Rank(d)) = U(H!Rank(e)) /\ H!Rank(d) >= H!Rank(e)
  BY <1>2, <1>4, <1>6
<1>8. InGroups(H!Rank(a), H!Rank(b), H!Rank(c), H!Rank(d), H!Rank(e))
  BY <1>5, <1>7 DEF U, InGroups
<1>9. /\ H!Rank(a) \in AllRanks /\ H!Rank(b) \in AllRanks /\ H!Rank(c) \in AllRanks
      /\ H!Rank(d) \in AllRanks /\ H!Rank(e) \in AllRanks
  BY <1>4 DEF AllRanks
<1> QED BY <1>8, <1>9, Kinds

AreRanks(a, b, c, d, e) ==
  a \in AllRanks /\ b \in AllRanks /\ c \in AllRanks /\ d \in AllRanks /\ e \in AllRanks

\* Five ranks and five ranks are the same, but for their order.
SameRanks(a, b, c, d, e, f, g, h, i, j) ==
  \A r \in AllRanks : Tally(r, a, b, c, d, e) = Tally(r, f, g, h, i, j)

\* Five cards show their kind in one way.
LEMMA KindIsUnique ==
  ASSUME NEW a, NEW b, NEW c, NEW d, NEW e, AreRanks(a, b, c, d, e),
         NEW f, NEW g, NEW h, NEW i, NEW j, AreRanks(f, g, h, i, j),
         NEW k, Kind(k, a, b, c, d, e), NEW l, Kind(l, f, g, h, i, j),
         SameRanks(a, b, c, d, e, f, g, h, i, j)
  PROVE  k = l /\ a = f /\ b = g /\ c = h /\ d = i /\ e = j
<1>1. /\ Tally(a, a, b, c, d, e) = Tally(a, f, g, h, i, j)
      /\ Tally(b, a, b, c, d, e) = Tally(b, f, g, h, i, j)
      /\ Tally(c, a, b, c, d, e) = Tally(c, f, g, h, i, j)
      /\ Tally(d, a, b, c, d, e) = Tally(d, f, g, h, i, j)
      /\ Tally(e, a, b, c, d, e) = Tally(e, f, g, h, i, j)
      /\ Tally(f, a, b, c, d, e) = Tally(f, f, g, h, i, j)
      /\ Tally(h, a, b, c, d, e) = Tally(h, f, g, h, i, j)
      /\ Tally(i, a, b, c, d, e) = Tally(i, f, g, h, i, j)
      /\ Tally(j, a, b, c, d, e) = Tally(j, f, g, h, i, j)
  BY DEF SameRanks, AreRanks
<1> QED BY <1>1, SMTT(60) DEF Tally, Kind, AllRanks, AreRanks

\* The ranks of a straight to h.
Run(h, a, b, c, d, e) ==
  /\ h \in 3 .. 12 /\ a = h /\ b = h - 1 /\ c = h - 2 /\ d = h - 3
  /\ e = IF h = 3 THEN 12 ELSE h - 4

\* The straight five ranks make.
RunOf(a, b, c, d, e) ==
  IF a - e = 4 THEN a ELSE IF a = 12 /\ b = 3 /\ c = 2 /\ d = 1 /\ e = 0 THEN 3 ELSE -1

\* Five cards that make a straight show no pair.
LEMMA RunIsKind ==
  ASSUME NEW a, NEW b, NEW c, NEW d, NEW e, AreRanks(a, b, c, d, e),
         NEW f, NEW g, NEW h, NEW i, NEW j, AreRanks(f, g, h, i, j),
         NEW k, Kind(k, a, b, c, d, e), NEW l, Run(l, f, g, h, i, j),
         SameRanks(a, b, c, d, e, f, g, h, i, j)
  PROVE  k = 0 /\ l = RunOf(a, b, c, d, e)
<1>1. /\ Tally(a, a, b, c, d, e) = Tally(a, f, g, h, i, j)
      /\ Tally(b, a, b, c, d, e) = Tally(b, f, g, h, i, j)
      /\ Tally(c, a, b, c, d, e) = Tally(c, f, g, h, i, j)
      /\ Tally(d, a, b, c, d, e) = Tally(d, f, g, h, i, j)
      /\ Tally(e, a, b, c, d, e) = Tally(e, f, g, h, i, j)
      /\ Tally(f, a, b, c, d, e) = Tally(f, f, g, h, i, j)
      /\ Tally(g, a, b, c, d, e) = Tally(g, f, g, h, i, j)
      /\ Tally(h, a, b, c, d, e) = Tally(h, f, g, h, i, j)
      /\ Tally(i, a, b, c, d, e) = Tally(i, f, g, h, i, j)
      /\ Tally(j, a, b, c, d, e) = Tally(j, f, g, h, i, j)
  BY DEF SameRanks, AreRanks
<1>2. k = 0 /\ a > b /\ b > c /\ c > d /\ d > e
  BY <1>1, SMTT(60) DEF Tally, Kind, Run, AllRanks, AreRanks
<1>3. CASE l = 3
  BY <1>1, <1>2, <1>3, SMTT(60) DEF Tally, Run, RunOf, AllRanks, AreRanks
<1>4. CASE l # 3
  BY <1>1, <1>2, <1>4, SMTT(60) DEF Tally, Run, RunOf, AllRanks, AreRanks
<1> QED BY <1>3, <1>4

\* Five different ranks that make a straight are a run.
LEMMA RunOfIsRun ==
  ASSUME NEW a \in AllRanks, NEW b \in AllRanks, NEW c \in AllRanks, NEW d \in AllRanks,
         NEW e \in AllRanks, Kind(0, a, b, c, d, e), RunOf(a, b, c, d, e) >= 0
  PROVE  \/ Run(RunOf(a, b, c, d, e), a, b, c, d, e)
         \/ Run(RunOf(a, b, c, d, e), b, c, d, e, a)
BY DEF Kind, RunOf, Run, AllRanks

-----------------------------------------------------------------------------
(* The score of five cards.                                                *)

OneSuit(a, b, c, d, e) ==
  /\ H!Suit(a) = H!Suit(b) /\ H!Suit(a) = H!Suit(c)
  /\ H!Suit(a) = H!Suit(d) /\ H!Suit(a) = H!Suit(e)

\* Five cards have one suit when score5 says they do.
LEMMA FlushIsOneSuit ==
  ASSUME NEW S, NEW a, NEW b, NEW c, NEW d, NEW e, Counted(S, a, b, c, d, e)
  PROVE  H!Cardinality({H!Suit(x) : x \in S}) = 1 <=> OneSuit(a, b, c, d, e)
<1> DEFINE A == {H!Suit(x) : x \in S}
<1>1. A = {H!Suit(a), H!Suit(b), H!Suit(c), H!Suit(d), H!Suit(e)}
  BY DEF Counted
<1>2. IsFiniteSet(A)
  <2>1. IsFiniteSet({H!Suit(a), H!Suit(b), H!Suit(c), H!Suit(d)} \cup {H!Suit(e)})
    BY SizeOfFour, FS_AddElement
  <2>2. A = {H!Suit(a), H!Suit(b), H!Suit(c), H!Suit(d)} \cup {H!Suit(e)}
    BY <1>1
  <2> QED BY <2>1, <2>2
<1>3. Cardinality(A) = 1 <=> \E x : A = {x}
  BY <1>2, FS_Singleton
<1>4. (\E x : A = {x}) <=> OneSuit(a, b, c, d, e)
  <2>1. ASSUME NEW x, A = {x} PROVE OneSuit(a, b, c, d, e)
    <3>1. H!Suit(a) \in A /\ H!Suit(b) \in A /\ H!Suit(c) \in A /\ H!Suit(d) \in A /\ H!Suit(e) \in A
      BY <1>1
    <3> QED BY <2>1, <3>1 DEF OneSuit
  <2>2. OneSuit(a, b, c, d, e) => A = {H!Suit(a)}
    BY <1>1 DEF OneSuit
  <2> QED BY <2>1, <2>2
<1> HIDE DEF A
<1>5. H!Cardinality(A) = 1 <=> OneSuit(a, b, c, d, e)
  BY <1>3, <1>4, SameCardinality
<1> QED BY <1>5 DEF A

\* Cards with a rank in common have not one suit.
LEMMA PairIsNoFlush ==
  ASSUME NEW a \in Cards, NEW b \in Cards, a # b, H!Rank(a) = H!Rank(b),
         NEW c, NEW d, NEW e
  PROVE  ~OneSuit(a, b, c, d, e)
BY CardFacts DEF OneSuit

\* The ranks of five cards.
LEMMA RanksOfFive ==
  ASSUME NEW S, NEW a, NEW b, NEW c, NEW d, NEW e, Counted(S, a, b, c, d, e)
  PROVE  H!Ranks(S) = {H!Rank(a), H!Rank(b), H!Rank(c), H!Rank(d), H!Rank(e)}
BY DEF H!Ranks, Counted

\* The greatest and the least of five falling ranks are the first and the last.
LEMMA EndsOfFive ==
  ASSUME NEW a \in AllRanks, NEW b \in AllRanks, NEW c \in AllRanks, NEW d \in AllRanks,
         NEW e \in AllRanks, Kind(0, a, b, c, d, e)
  PROVE  H!Max({a, b, c, d, e}) = a /\ H!Min({a, b, c, d, e}) = e
<1>1. \A x \in {a, b, c, d, e} : a >= x /\ e <= x /\ (x # a => ~(x >= a)) /\ (x # e => ~(x <= e))
  BY DEF Kind, AllRanks
<1>2. a \in {a, b, c, d, e} /\ e \in {a, b, c, d, e}
  OBVIOUS
<1>3. H!Max({a, b, c, d, e}) = a
  BY <1>1, <1>2 DEF H!Max
<1>4. H!Min({a, b, c, d, e}) = e
  BY <1>1, <1>2 DEF H!Min
<1> QED BY <1>3, <1>4

\* The wheel has five ranks.
LEMMA WheelIsFive == Cardinality({12, 3, 2, 1, 0}) = 5
<1>1. Different(12, 3, 2, 1, 0)
  BY DEF Different
<1> QED BY <1>1, SizeOfFive

\* StraightHigh finds the run of five falling ranks.
LEMMA StraightOfFalling ==
  ASSUME NEW S, NEW a \in AllRanks, NEW b \in AllRanks, NEW c \in AllRanks,
         NEW d \in AllRanks, NEW e \in AllRanks, Kind(0, a, b, c, d, e),
         H!Ranks(S) = {a, b, c, d, e}
  PROVE  H!StraightHigh(S) = RunOf(a, b, c, d, e)
<1>1. Different(a, b, c, d, e)
  BY DEF Kind, Different, AllRanks
<1>2. H!Cardinality({a, b, c, d, e}) = 5
  BY <1>1, SizeOfFive, SameCardinality
<1>3. H!Max({a, b, c, d, e}) = a /\ H!Min({a, b, c, d, e}) = e
  BY EndsOfFive
<1>4. {a, b, c, d, e} = {12, 3, 2, 1, 0}
        <=> a = 12 /\ b = 3 /\ c = 2 /\ d = 1 /\ e = 0
  <2>1. ASSUME {a, b, c, d, e} = {12, 3, 2, 1, 0}
        PROVE  a = 12 /\ b = 3 /\ c = 2 /\ d = 1 /\ e = 0
    <3>1. /\ a \in {12, 3, 2, 1, 0} /\ b \in {12, 3, 2, 1, 0} /\ c \in {12, 3, 2, 1, 0}
          /\ d \in {12, 3, 2, 1, 0} /\ e \in {12, 3, 2, 1, 0}
      BY <2>1
    <3> QED BY <3>1 DEF Kind
  <2> QED BY <2>1
<1>5. H!StraightHigh(S)
        = IF a - e = 4 THEN a ELSE IF {a, b, c, d, e} = {12, 3, 2, 1, 0} THEN 3 ELSE -1
  BY <1>2, <1>3 DEF H!StraightHigh, H!Ace
<1> QED BY <1>4, <1>5 DEF RunOf

\* StraightHigh finds no straight where two ranks are the same.
LEMMA PairIsNoStraight ==
  ASSUME NEW S, NEW a, NEW b, NEW c, NEW d, H!Ranks(S) = {a, b, c, d}
  PROVE  H!StraightHigh(S) = -1
<1> DEFINE A == H!Ranks(S)
<1>1. Among(A, a, b, c, d)
  BY DEF Among
<1>2. Cardinality(A) \in 0 .. 4
  BY <1>1, AtMostFour
<1>3. H!Cardinality(A) # 5 /\ A # {12, 3, 2, 1, 0}
  BY <1>2, WheelIsFive, SameCardinality
<1> QED BY <1>3 DEF H!StraightHigh, H!Ace

\* Five cards of falling ranks stay as they are when sorted.
LEMMA DescendingOfFive ==
  ASSUME NEW S, S \subseteq Cards, NEW a, NEW b, NEW c, NEW d, NEW e,
         Arranged(S, a, b, c, d, e),
         Kind(0, H!Rank(a), H!Rank(b), H!Rank(c), H!Rank(d), H!Rank(e))
  PROVE  H!Descending(S) = H!ByGroup(S)
<1>0. Counted(S, a, b, c, d, e)
  BY DEF Arranged, Counted
<1>1. \A x \in S : H!Rank(x) \in AllRanks
  BY CardFacts DEF AllRanks
<1>2. ASSUME NEW x \in S PROVE H!Count(S, H!Rank(x)) = 1
  <2>1. H!Count(S, H!Rank(x))
          = Tally(H!Rank(x), H!Rank(a), H!Rank(b), H!Rank(c), H!Rank(d), H!Rank(e))
    BY <1>0, CountIsTally
  <2>2. x = a \/ x = b \/ x = c \/ x = d \/ x = e
    BY <1>0 DEF Counted
  <2>3. /\ H!Rank(a) \in AllRanks /\ H!Rank(b) \in AllRanks /\ H!Rank(c) \in AllRanks
        /\ H!Rank(d) \in AllRanks /\ H!Rank(e) \in AllRanks
    BY <1>0, <1>1 DEF Counted
  <2> QED BY <2>1, <2>2, <2>3 DEF Tally, Kind, AllRanks
<1>3. \A x, y \in S : H!Outranks(S, x, y) <=> H!Higher(x, y)
  BY <1>2 DEF H!Outranks
<1>4. \A x \in S : {y \in S : H!Higher(y, x)} = {y \in S : H!Outranks(S, y, x)}
  BY <1>3
<1>5. ByRank(S) = ByFrequency(S)
  BY <1>4 DEF ByRank, ByFrequency
<1> QED BY <1>5 DEF ByRank, ByFrequency, H!Descending, H!ByGroup

KindOf(k, a, b, c, d, e) ==
  Kind(k, H!Rank(a), H!Rank(b), H!Rank(c), H!Rank(d), H!Rank(e))

Line(k, a, b, c, d, e) ==
  <<k, H!Rank(a), H!Rank(b), H!Rank(c), H!Rank(d), H!Rank(e)>>

RunOfCards(a, b, c, d, e) ==
  RunOf(H!Rank(a), H!Rank(b), H!Rank(c), H!Rank(d), H!Rank(e))

\* score5 goes through the kinds from the best to the worst.
ScoreOf(k, a, b, c, d, e) ==
  LET flush == OneSuit(a, b, c, d, e)
      high == RunOfCards(a, b, c, d, e) IN
  IF k # 0 THEN Line(k, a, b, c, d, e)
  ELSE IF flush /\ high >= 0 THEN <<8, high>>
  ELSE IF flush THEN Line(5, a, b, c, d, e)
  ELSE IF high >= 0 THEN <<4, high>>
  ELSE Line(0, a, b, c, d, e)

\* What the counts of the groups are.
LEMMA CountsOfKind ==
  ASSUME NEW a \in AllRanks, NEW b \in AllRanks, NEW c \in AllRanks, NEW d \in AllRanks,
         NEW e \in AllRanks, NEW k, Kind(k, a, b, c, d, e)
  PROVE  LET n(r) == Tally(r, a, b, c, d, e) IN
         /\ k = 7 => n(a) = 4
         /\ k = 6 => n(a) = 3 /\ n(d) = 2
         /\ k = 3 => n(a) = 3 /\ n(d) = 1
         /\ k = 2 => n(a) = 2 /\ n(c) = 2 /\ n(d) = 2
         /\ k = 1 => n(a) = 2 /\ n(c) = 1 /\ n(d) = 1
         /\ k = 0 => n(a) = 1 /\ n(c) = 1 /\ n(d) = 1
         /\ k \in {0, 1, 2, 3, 6, 7}
<1>1. k = 7 => Tally(a, a, b, c, d, e) = 4
  BY DEF Kind, Tally, AllRanks
<1>2. k = 6 => Tally(a, a, b, c, d, e) = 3 /\ Tally(d, a, b, c, d, e) = 2
  BY DEF Kind, Tally, AllRanks
<1>3. k = 3 => Tally(a, a, b, c, d, e) = 3 /\ Tally(d, a, b, c, d, e) = 1
  BY DEF Kind, Tally, AllRanks
<1>4. k = 2 => /\ Tally(a, a, b, c, d, e) = 2 /\ Tally(c, a, b, c, d, e) = 2
               /\ Tally(d, a, b, c, d, e) = 2
  BY DEF Kind, Tally, AllRanks
<1>5. k = 1 => /\ Tally(a, a, b, c, d, e) = 2 /\ Tally(c, a, b, c, d, e) = 1
               /\ Tally(d, a, b, c, d, e) = 1
  BY DEF Kind, Tally, AllRanks
<1>6. k = 0 => /\ Tally(a, a, b, c, d, e) = 1 /\ Tally(c, a, b, c, d, e) = 1
               /\ Tally(d, a, b, c, d, e) = 1
  BY DEF Kind, Tally, AllRanks
<1>7. k \in {0, 1, 2, 3, 6, 7}
  BY DEF Kind
<1> QED BY <1>1, <1>2, <1>3, <1>4, <1>5, <1>6, <1>7

\* A score of a category and five ranks.
LEMMA Lines ==
  ASSUME NEW k, NEW a, NEW b, NEW c, NEW d, NEW e
  PROVE  <<k>> \o <<a, b, c, d, e>> = <<k, a, b, c, d, e>>
<1> DEFINE V == {k, a, b, c, d, e}
<1>1. PICK s : s = <<k>>
  OBVIOUS
<1>2. PICK t : t = <<a, b, c, d, e>>
  OBVIOUS
<1>3. s \in Seq(V) /\ t \in Seq(V) /\ Len(s) = 1 /\ Len(t) = 5
  BY <1>1, <1>2
<1> HIDE DEF V
<1>4. /\ s \o t \in Seq(V) /\ Len(s \o t) = 6
      /\ \A i \in 1 .. 6 : (s \o t)[i] = IF i <= 1 THEN s[i] ELSE t[i - 1]
  <2>1. s \in Seq(V) /\ t \in Seq(V)
    BY <1>3
  <2>2. /\ s \o t \in Seq(V) /\ Len(s \o t) = Len(s) + Len(t)
        /\ \A i \in 1 .. Len(s) + Len(t) :
              (s \o t)[i] = IF i <= Len(s) THEN s[i] ELSE t[i - Len(s)]
    BY <2>1, ConcatProperties
  <2>3. Len(s) = 1 /\ Len(t) = 5
    BY <1>3
  <2> QED BY <2>2, <2>3
<1>5. PICK u : u = s \o t
  OBVIOUS
<1>6. /\ u[1] = k /\ u[2] = a /\ u[3] = b /\ u[4] = c /\ u[5] = d /\ u[6] = e
  <2>1. /\ u[1] = s[1] /\ u[2] = t[1] /\ u[3] = t[2] /\ u[4] = t[3] /\ u[5] = t[4] /\ u[6] = t[5]
    BY <1>4, <1>5
  <2> QED BY <2>1, <1>1, <1>2
<1>7. u = <<u[1], u[2], u[3], u[4], u[5], u[6]>>
  <2>1. u \in Seq(V) /\ Len(u) = 6
    BY <1>4, <1>5
  <2> QED BY <2>1
<1> QED BY <1>1, <1>2, <1>5, <1>6, <1>7

\* The score of arranged cards is that of their kind.
LEMMA ScoreOfArranged ==
  ASSUME NEW S, S \subseteq Cards, NEW a, NEW b, NEW c, NEW d, NEW e, NEW k,
         Arranged(S, a, b, c, d, e), KindOf(k, a, b, c, d, e)
  PROVE  H!Score5(S) = ScoreOf(k, a, b, c, d, e)
<1>0. /\ Counted(S, a, b, c, d, e) /\ a \in S /\ b \in S /\ c \in S /\ d \in S /\ e \in S
      /\ a # b
  BY DEF Arranged, Counted, Different
<1>1. /\ H!Rank(a) \in AllRanks /\ H!Rank(b) \in AllRanks /\ H!Rank(c) \in AllRanks
      /\ H!Rank(d) \in AllRanks /\ H!Rank(e) \in AllRanks
  BY <1>0, CardFacts DEF AllRanks
<1> DEFINE n(r) == Tally(r, H!Rank(a), H!Rank(b), H!Rank(c), H!Rank(d), H!Rank(e))
           groups == <<H!Rank(a), H!Rank(b), H!Rank(c), H!Rank(d), H!Rank(e)>>
           counts == [i \in 1 .. 5 |-> H!Count(S, H!ByGroup(S)[i])]
           flush == H!Cardinality({H!Suit(x) : x \in S}) = 1
           straight == H!StraightHigh(S)
<1>2. H!ByGroup(S) = groups
  BY GroupsOfArranged
<1>3. flush <=> OneSuit(a, b, c, d, e)
  BY <1>0, FlushIsOneSuit
<1>4. /\ counts[1] = n(H!Rank(a)) /\ counts[3] = n(H!Rank(c)) /\ counts[4] = n(H!Rank(d))
  <2>1. \A r : H!Count(S, r) = n(r)
    BY <1>0, CountIsTally
  <2>2. /\ counts[1] = H!Count(S, H!ByGroup(S)[1]) /\ counts[3] = H!Count(S, H!ByGroup(S)[3])
        /\ counts[4] = H!Count(S, H!ByGroup(S)[4])
    OBVIOUS
  <2> HIDE DEF counts, n
  <2> QED BY <1>2, <2>1, <2>2
<1>5. /\ k = 7 => counts[1] = 4
      /\ k = 6 => counts[1] = 3 /\ counts[4] = 2
      /\ k = 3 => counts[1] = 3 /\ counts[4] = 1
      /\ k = 2 => counts[1] = 2 /\ counts[3] = 2 /\ counts[4] = 2
      /\ k = 1 => counts[1] = 2 /\ counts[3] = 1 /\ counts[4] = 1
      /\ k = 0 => counts[1] = 1 /\ counts[3] = 1 /\ counts[4] = 1
      /\ k \in {0, 1, 2, 3, 6, 7}
  <2>1. /\ k = 7 => n(H!Rank(a)) = 4
        /\ k = 6 => n(H!Rank(a)) = 3 /\ n(H!Rank(d)) = 2
        /\ k = 3 => n(H!Rank(a)) = 3 /\ n(H!Rank(d)) = 1
        /\ k = 2 => n(H!Rank(a)) = 2 /\ n(H!Rank(c)) = 2 /\ n(H!Rank(d)) = 2
        /\ k = 1 => n(H!Rank(a)) = 2 /\ n(H!Rank(c)) = 1 /\ n(H!Rank(d)) = 1
        /\ k = 0 => n(H!Rank(a)) = 1 /\ n(H!Rank(c)) = 1 /\ n(H!Rank(d)) = 1
        /\ k \in {0, 1, 2, 3, 6, 7}
    BY <1>1, CountsOfKind DEF KindOf
  <2> HIDE DEF counts, n
  <2> QED BY <1>4, <2>1
<1>6. k # 0 => H!Rank(a) = H!Rank(b)
  BY DEF KindOf, Kind
<1>7. k # 0 => ~flush /\ straight = -1
  <2> SUFFICES ASSUME k # 0 PROVE ~flush /\ straight = -1
    OBVIOUS
  <2>1. ~flush
    BY <1>0, <1>3, <1>6, PairIsNoFlush
  <2>2. H!Ranks(S) = {H!Rank(a), H!Rank(c), H!Rank(d), H!Rank(e)}
    BY <1>0, <1>6, RanksOfFive
  <2> QED BY <2>1, <2>2, PairIsNoStraight
<1>8. k = 0 => straight = RunOfCards(a, b, c, d, e) /\ H!Descending(S) = groups
  <2> SUFFICES ASSUME k = 0 PROVE straight = RunOfCards(a, b, c, d, e) /\ H!Descending(S) = groups
    OBVIOUS
  <2>1. Kind(0, H!Rank(a), H!Rank(b), H!Rank(c), H!Rank(d), H!Rank(e))
    BY DEF KindOf
  <2>2. H!Ranks(S) = {H!Rank(a), H!Rank(b), H!Rank(c), H!Rank(d), H!Rank(e)}
    BY <1>0, RanksOfFive
  <2>3. straight = RunOfCards(a, b, c, d, e)
    BY <1>1, <2>1, <2>2, StraightOfFalling DEF RunOfCards
  <2> QED BY <1>2, <2>1, <2>3, DescendingOfFive
<1>9. RunOfCards(a, b, c, d, e) \in Int
  BY <1>1 DEF RunOfCards, RunOf, AllRanks
<1>10. H!Score5(S) =
         CASE flush /\ straight >= 0 -> <<8, straight>>
           [] counts[1] = 4 -> <<7>> \o H!ByGroup(S)
           [] counts[1] = 3 /\ counts[4] = 2 -> <<6>> \o H!ByGroup(S)
           [] flush /\ straight < 0 -> <<5>> \o H!Descending(S)
           [] straight >= 0 /\ ~flush -> <<4, straight>>
           [] counts[1] = 3 /\ counts[4] = 1 /\ ~flush -> <<3>> \o H!ByGroup(S)
           [] counts[1] = 2 /\ counts[3] = 2 /\ ~flush -> <<2>> \o H!ByGroup(S)
           [] counts[1] = 2 /\ counts[3] = 1 /\ ~flush -> <<1>> \o H!ByGroup(S)
           [] OTHER -> <<0>> \o H!Descending(S)
  BY DEF H!Score5
<1>11. \A l : <<l>> \o groups = Line(l, a, b, c, d, e)
  BY Lines DEF Line
<1> HIDE DEF counts, n, flush, straight, groups
<1>12. CASE k = 7
  BY <1>2, <1>5, <1>7, <1>10, <1>11, <1>12 DEF ScoreOf
<1>13. CASE k = 6
  BY <1>2, <1>5, <1>7, <1>10, <1>11, <1>13 DEF ScoreOf
<1>14. CASE k = 3
  BY <1>2, <1>5, <1>7, <1>10, <1>11, <1>14 DEF ScoreOf
<1>15. CASE k = 2
  BY <1>2, <1>5, <1>7, <1>10, <1>11, <1>15 DEF ScoreOf
<1>16. CASE k = 1
  BY <1>2, <1>5, <1>7, <1>10, <1>11, <1>16 DEF ScoreOf
<1>17. CASE k = 0
  <2>1. straight = RunOfCards(a, b, c, d, e) /\ H!Descending(S) = groups /\ straight \in Int
    BY <1>8, <1>9, <1>17
  <2>2. counts[1] = 1 /\ counts[3] = 1 /\ counts[4] = 1
    BY <1>5, <1>17
  <2>3. CASE flush /\ straight >= 0
    BY <1>2, <1>3, <1>10, <1>11, <1>17, <2>1, <2>2, <2>3 DEF ScoreOf
  <2>4. CASE flush /\ ~(straight >= 0)
    BY <1>2, <1>3, <1>10, <1>11, <1>17, <2>1, <2>2, <2>4 DEF ScoreOf
  <2>5. CASE ~flush /\ straight >= 0
    BY <1>2, <1>3, <1>10, <1>11, <1>17, <2>1, <2>2, <2>5 DEF ScoreOf
  <2>6. CASE ~flush /\ ~(straight >= 0)
    BY <1>2, <1>3, <1>10, <1>11, <1>17, <2>1, <2>2, <2>6 DEF ScoreOf
  <2> QED BY <2>3, <2>4, <2>5, <2>6
<1> QED BY <1>5, <1>12, <1>13, <1>14, <1>15, <1>16, <1>17

-----------------------------------------------------------------------------
(* What some cards can make.                                               *)

RunTo(h, a, b, c, d, e) == Run(h, H!Rank(a), H!Rank(b), H!Rank(c), H!Rank(d), H!Rank(e))

\* Five cards, laid out in this order, show the score v.
Shows(v, a, b, c, d, e) ==
  \/ \E k : KindOf(k, a, b, c, d, e) /\ v = Line(k, a, b, c, d, e)
  \/ KindOf(0, a, b, c, d, e) /\ OneSuit(a, b, c, d, e) /\ v = Line(5, a, b, c, d, e)
  \/ \E h : RunTo(h, a, b, c, d, e) /\ v = <<4, h>>
  \/ \E h : RunTo(h, a, b, c, d, e) /\ OneSuit(a, b, c, d, e) /\ v = <<8, h>>

\* Five of the cards show v: their score, or a lower one if they are taken for less
\* than they are (a flush for a high card); FiveMakeNoBetter sorts those out.
Makes(S, v) ==
  \E a, b, c, d, e \in S : Different(a, b, c, d, e) /\ Shows(v, a, b, c, d, e)

\* v is of a lower category.
Below(v, w) == v[1] \in Int /\ w[1] \in Int /\ v[1] < w[1]

\* Five cards make the score that score5 gives them.
LEMMA FiveMakeTheirScore ==
  ASSUME NEW S, S \subseteq Cards, Cardinality(S) = 5
  PROVE  Makes(S, H!Score5(S))
<1>1. PICK a \in S, b \in S, c \in S, d \in S, e \in S : Arranged(S, a, b, c, d, e)
  BY FiveAreArranged
<1>2. PICK k : KindOf(k, a, b, c, d, e)
  BY <1>1, ArrangedKind DEF KindOf
<1>3. H!Score5(S) = ScoreOf(k, a, b, c, d, e)
  BY <1>1, <1>2, ScoreOfArranged
<1>4. Different(a, b, c, d, e) /\ Different(b, c, d, e, a)
  BY <1>1 DEF Arranged, Different
<1>5. /\ H!Rank(a) \in AllRanks /\ H!Rank(b) \in AllRanks /\ H!Rank(c) \in AllRanks
      /\ H!Rank(d) \in AllRanks /\ H!Rank(e) \in AllRanks
  BY CardFacts DEF AllRanks
<1> DEFINE high == RunOfCards(a, b, c, d, e)
<1>6. k = 0 /\ high >= 0 => RunTo(high, a, b, c, d, e) \/ RunTo(high, b, c, d, e, a)
  BY <1>2, <1>5, RunOfIsRun DEF KindOf, RunTo, RunOfCards
<1>7. OneSuit(a, b, c, d, e) => OneSuit(b, c, d, e, a)
  BY DEF OneSuit
<1> HIDE DEF high
<1>8. CASE k # 0
  BY <1>2, <1>3, <1>4, <1>8 DEF ScoreOf, Shows, Makes
<1>9. CASE k = 0 /\ high >= 0
  <2>1. H!Score5(S) = IF OneSuit(a, b, c, d, e) THEN <<8, high>> ELSE <<4, high>>
    BY <1>3, <1>9 DEF ScoreOf, high
  <2>2. \/ Shows(H!Score5(S), a, b, c, d, e)
        \/ Shows(H!Score5(S), b, c, d, e, a)
    BY <1>6, <1>7, <1>9, <2>1 DEF Shows
  <2> QED BY <1>4, <2>2 DEF Makes
<1>10. CASE k = 0 /\ ~(high >= 0)
  <2>1. H!Score5(S)
          = IF OneSuit(a, b, c, d, e) THEN Line(5, a, b, c, d, e) ELSE Line(0, a, b, c, d, e)
    BY <1>3, <1>10 DEF ScoreOf, high
  <2>2. Shows(H!Score5(S), a, b, c, d, e)
    BY <1>2, <1>10, <2>1 DEF Shows
  <2> QED BY <1>4, <2>2 DEF Makes
<1> QED BY <1>8, <1>9, <1>10

\* Five cards make no score of that category or a higher one but that.
LEMMA FiveMakeNoBetter ==
  ASSUME NEW S, S \subseteq Cards, Cardinality(S) = 5, NEW v, Makes(S, v)
  PROVE  v = H!Score5(S) \/ Below(v, H!Score5(S))
<1>1. PICK a \in S, b \in S, c \in S, d \in S, e \in S : Arranged(S, a, b, c, d, e)
  BY FiveAreArranged
<1>2. PICK k : KindOf(k, a, b, c, d, e)
  BY <1>1, ArrangedKind DEF KindOf
<1>3. H!Score5(S) = ScoreOf(k, a, b, c, d, e)
  BY <1>1, <1>2, ScoreOfArranged
<1>4. PICK f \in S, g \in S, h \in S, i \in S, j \in S :
        Different(f, g, h, i, j) /\ Shows(v, f, g, h, i, j)
  BY DEF Makes
<1>5. Counted(S, a, b, c, d, e)
  BY <1>1 DEF Arranged, Counted
<1>6. Counted(S, f, g, h, i, j)
  <2>1. {f, g, h, i, j} \subseteq S /\ Cardinality({f, g, h, i, j}) = Cardinality(S)
    BY <1>4, SizeOfFive
  <2>2. S = {f, g, h, i, j}
    BY <2>1, SubsetOfCards
  <2> QED BY <1>4, <2>2 DEF Counted
<1>7. OneSuit(a, b, c, d, e) <=> OneSuit(f, g, h, i, j)
  BY <1>5, <1>6, FlushIsOneSuit
<1>8. /\ AreRanks(H!Rank(a), H!Rank(b), H!Rank(c), H!Rank(d), H!Rank(e))
      /\ AreRanks(H!Rank(f), H!Rank(g), H!Rank(h), H!Rank(i), H!Rank(j))
  BY CardFacts DEF AllRanks, AreRanks
<1>9. SameRanks(H!Rank(a), H!Rank(b), H!Rank(c), H!Rank(d), H!Rank(e),
                H!Rank(f), H!Rank(g), H!Rank(h), H!Rank(i), H!Rank(j))
  <2>1. ASSUME NEW r \in AllRanks
        PROVE  Tally(r, H!Rank(a), H!Rank(b), H!Rank(c), H!Rank(d), H!Rank(e))
                 = Tally(r, H!Rank(f), H!Rank(g), H!Rank(h), H!Rank(i), H!Rank(j))
    BY <1>5, <1>6, CountIsTally
  <2> QED BY <2>1 DEF SameRanks
<1>10. ASSUME NEW l, KindOf(l, f, g, h, i, j)
       PROVE  l = k /\ \A m : Line(m, f, g, h, i, j) = Line(m, a, b, c, d, e)
  <2>1. /\ k = l /\ H!Rank(a) = H!Rank(f) /\ H!Rank(b) = H!Rank(g) /\ H!Rank(c) = H!Rank(h)
        /\ H!Rank(d) = H!Rank(i) /\ H!Rank(e) = H!Rank(j)
    BY <1>2, <1>8, <1>9, <1>10, KindIsUnique DEF KindOf
  <2> QED BY <2>1 DEF Line
<1>11. ASSUME NEW l, RunTo(l, f, g, h, i, j)
       PROVE  k = 0 /\ l = RunOfCards(a, b, c, d, e) /\ l >= 0
  <2>1. k = 0 /\ l = RunOfCards(a, b, c, d, e)
    BY <1>2, <1>8, <1>9, <1>11, RunIsKind DEF KindOf, RunTo, RunOfCards
  <2> QED BY <1>11, <2>1 DEF RunTo, Run
<1>12. \A m : Line(m, a, b, c, d, e)[1] = m
  BY DEF Line
<1>13. CASE \E l : KindOf(l, f, g, h, i, j) /\ v = Line(l, f, g, h, i, j)
  <2>1. v = Line(k, a, b, c, d, e)
    BY <1>10, <1>13
  <2> QED BY <1>3, <1>12, <2>1 DEF ScoreOf, Below
<1>14. CASE /\ KindOf(0, f, g, h, i, j) /\ OneSuit(f, g, h, i, j)
            /\ v = Line(5, f, g, h, i, j)
  <2>1. k = 0 /\ v = Line(5, a, b, c, d, e) /\ OneSuit(a, b, c, d, e)
    BY <1>7, <1>10, <1>14
  <2> QED BY <1>3, <1>12, <2>1 DEF ScoreOf, Below
<1>15. CASE \E l : RunTo(l, f, g, h, i, j) /\ v = <<4, l>>
  <2>1. k = 0 /\ v = <<4, RunOfCards(a, b, c, d, e)>> /\ RunOfCards(a, b, c, d, e) >= 0
    BY <1>11, <1>15
  <2> QED BY <1>3, <2>1 DEF ScoreOf, Below
<1>16. CASE \E l : RunTo(l, f, g, h, i, j) /\ OneSuit(f, g, h, i, j) /\ v = <<8, l>>
  <2>1. /\ k = 0 /\ v = <<8, RunOfCards(a, b, c, d, e)>> /\ RunOfCards(a, b, c, d, e) >= 0
        /\ OneSuit(a, b, c, d, e)
    BY <1>7, <1>11, <1>16
  <2> QED BY <1>3, <2>1 DEF ScoreOf, Below
<1> QED BY <1>4, <1>13, <1>14, <1>15, <1>16 DEF Shows

-----------------------------------------------------------------------------
(* Comparing scores.                                                       *)

\* The first of the five that differ are greater.
Exceeds(a, b, c, d, e, f, g, h, i, j) ==
  \/ a > f
  \/ a = f /\ b > g
  \/ a = f /\ b = g /\ c > h
  \/ a = f /\ b = g /\ c = h /\ d > i
  \/ a = f /\ b = g /\ c = h /\ d = i /\ e > j

PairScore(v, k, h) == k \in {4, 8} /\ h \in AllRanks /\ v = <<k, h>>
LineScore(v, k, a, b, c, d, e) ==
  k \in {0, 1, 2, 3, 5, 6, 7} /\ AreRanks(a, b, c, d, e) /\ v = <<k, a, b, c, d, e>>

IsScore(v) ==
  \/ \E k, h : PairScore(v, k, h)
  \/ \E k, a, b, c, d, e : LineScore(v, k, a, b, c, d, e)

\* The greater of two numbers.
LEMMA MaxOfTwo ==
  ASSUME NEW m \in Nat, NEW n \in Nat
  PROVE  H!Max({m, n}) = IF m >= n THEN m ELSE n
<1>1. CASE m >= n
  <2>1. m \in {m, n} /\ \A y \in {m, n} : m >= y
    BY <1>1
  <2>2. \A x \in {m, n} : (\A y \in {m, n} : x >= y) => x = m
    BY <1>1
  <2> QED BY <1>1, <2>1, <2>2 DEF H!Max
<1>2. CASE ~(m >= n)
  <2>1. n \in {m, n} /\ \A y \in {m, n} : n >= y
    BY <1>2
  <2>2. \A x \in {m, n} : (\A y \in {m, n} : x >= y) => x = n
    BY <1>2
  <2> QED BY <1>2, <2>1, <2>2 DEF H!Max
<1> QED BY <1>1, <1>2

\* What At reads of the scores.
LEMMA AtOfScore ==
  ASSUME NEW v, IsScore(v)
  PROVE  /\ Len(v) \in {2, 6} /\ \A i \in 1 .. 6 : H!At(v, i) \in 0 .. 12
         /\ H!At(v, 1) = v[1] /\ v[1] \in 0 .. 8
<1>1. CASE \E k, h : PairScore(v, k, h)
  <2>1. PICK k, h : PairScore(v, k, h)
    BY <1>1
  <2>2. Len(v) = 2 /\ v[1] = k /\ v[2] = h /\ k \in {4, 8} /\ h \in 0 .. 12
    BY <2>1 DEF PairScore, AllRanks
  <2> QED BY <2>2 DEF H!At
<1>2. CASE \E k, a, b, c, d, e : LineScore(v, k, a, b, c, d, e)
  <2>1. PICK k, a, b, c, d, e : LineScore(v, k, a, b, c, d, e)
    BY <1>2
  <2>2. /\ Len(v) = 6 /\ v[1] = k /\ v[2] = a /\ v[3] = b /\ v[4] = c /\ v[5] = d /\ v[6] = e
        /\ k \in 0 .. 7 /\ a \in 0 .. 12 /\ b \in 0 .. 12 /\ c \in 0 .. 12 /\ d \in 0 .. 12
        /\ e \in 0 .. 12
    BY <2>1 DEF LineScore, AreRanks, AllRanks
  <2> QED BY <2>2 DEF H!At
<1> QED BY <1>1, <1>2 DEF IsScore

Longer(v, w) == IF Len(v) >= Len(w) THEN Len(v) ELSE Len(w)

BeatsWithin(n, v, w) ==
  \E i \in 1 .. n : /\ H!At(v, i) > H!At(w, i)
                    /\ \A j \in 1 .. i - 1 : H!At(v, j) = H!At(w, j)

\* Of two scores, one beats the other where they first differ.
LEMMA BeatsIs ==
  ASSUME NEW v, IsScore(v), NEW w, IsScore(w)
  PROVE  Longer(v, w) \in {2, 6} /\ (H!Beats(v, w) <=> BeatsWithin(Longer(v, w), v, w))
<1>1. Len(v) \in {2, 6} /\ Len(w) \in {2, 6}
  BY AtOfScore
<1>2. H!Max({Len(v), Len(w)}) = Longer(v, w)
  <2>1. PICK p \in Nat, q \in Nat : p = Len(v) /\ q = Len(w)
    BY <1>1
  <2> QED BY <2>1, MaxOfTwo DEF Longer
<1>3. Longer(v, w) \in {2, 6}
  BY <1>1 DEF Longer
<1> QED BY <1>2, <1>3 DEF H!Beats, BeatsWithin

\* A score of a lower category is beaten.
LEMMA LowerIsBeaten ==
  ASSUME NEW v, IsScore(v), NEW w, IsScore(w), Below(v, w)
  PROVE  H!Beats(w, v) /\ ~H!Beats(v, w)
<1>1. H!At(v, 1) < H!At(w, 1) /\ H!At(v, 1) \in Int /\ H!At(w, 1) \in Int
  BY AtOfScore DEF Below
<1>2. H!Beats(w, v)
  <2>1. PICK n \in {2, 6} : H!Beats(w, v) <=> BeatsWithin(n, w, v)
    BY BeatsIs
  <2>2. 1 \in 1 .. n /\ 1 .. 1 - 1 = {}
    BY <2>1
  <2> QED BY <1>1, <2>1, <2>2 DEF BeatsWithin
<1>3. ~H!Beats(v, w)
  <2>1. PICK n \in {2, 6} : H!Beats(v, w) <=> BeatsWithin(n, v, w)
    BY BeatsIs
  <2>2. ASSUME NEW i \in 1 .. n, H!At(v, i) > H!At(w, i),
               \A j \in 1 .. i - 1 : H!At(v, j) = H!At(w, j)
        PROVE  FALSE
    <3>1. i # 1
      BY <1>1, <2>2
    <3>2. 1 \in 1 .. i - 1
      BY <2>1, <3>1
    <3> QED BY <1>1, <2>2, <3>2
  <2> QED BY <2>1, <2>2 DEF BeatsWithin
<1> QED BY <1>2, <1>3

\* Among scores of a category with one number the greater number beats.
LEMMA PairBeats ==
  ASSUME NEW v, NEW w, NEW k, NEW g, NEW h, PairScore(v, k, g), PairScore(w, k, h)
  PROVE  H!Beats(v, w) <=> g > h
<1>1. Len(v) = 2 /\ Len(w) = 2 /\ IsScore(v) /\ IsScore(w)
  BY DEF PairScore, IsScore
<1>2. H!At(v, 1) = k /\ H!At(w, 1) = k /\ H!At(v, 2) = g /\ H!At(w, 2) = h
  BY <1>1 DEF H!At, PairScore
<1>3. k \in Int /\ g \in Int /\ h \in Int
  BY DEF PairScore, AllRanks
<1>4. H!Beats(v, w) <=> BeatsWithin(2, v, w)
  <2>1. Longer(v, w) = 2
    BY <1>1 DEF Longer
  <2> QED BY <1>1, <2>1, BeatsIs
<1>5. BeatsWithin(2, v, w) <=> g > h
  BY <1>2, <1>3 DEF BeatsWithin
<1> QED BY <1>4, <1>5

\* Among scores of a category with five numbers the first that differ decide.
LEMMA LineBeats ==
  ASSUME NEW v, NEW w, NEW k, NEW a, NEW b, NEW c, NEW d, NEW e,
         NEW f, NEW g, NEW h, NEW i, NEW j,
         LineScore(v, k, a, b, c, d, e), LineScore(w, k, f, g, h, i, j)
  PROVE  H!Beats(v, w) <=> Exceeds(a, b, c, d, e, f, g, h, i, j)
<1>1. Len(v) = 6 /\ Len(w) = 6 /\ IsScore(v) /\ IsScore(w)
  BY DEF LineScore, IsScore
<1>2. /\ H!At(v, 1) = k /\ H!At(v, 2) = a /\ H!At(v, 3) = b /\ H!At(v, 4) = c
      /\ H!At(v, 5) = d /\ H!At(v, 6) = e
      /\ H!At(w, 1) = k /\ H!At(w, 2) = f /\ H!At(w, 3) = g /\ H!At(w, 4) = h
      /\ H!At(w, 5) = i /\ H!At(w, 6) = j
  BY <1>1 DEF H!At, LineScore
<1>3. /\ k \in Int /\ a \in Int /\ b \in Int /\ c \in Int /\ d \in Int /\ e \in Int
      /\ f \in Int /\ g \in Int /\ h \in Int /\ i \in Int /\ j \in Int
  BY DEF LineScore, AreRanks, AllRanks
<1> DEFINE At(m) == /\ H!At(v, m) > H!At(w, m)
                    /\ \A l \in 1 .. m - 1 : H!At(v, l) = H!At(w, l)
<1>4. H!Beats(v, w) <=> \E m \in 1 .. 6 : At(m)
  <2>1. Longer(v, w) = 6
    BY <1>1 DEF Longer
  <2> QED BY <1>1, <2>1, BeatsIs DEF BeatsWithin
<1>5. ~At(1) /\ (At(2) <=> a > f)
  BY <1>2, <1>3
<1>6. At(3) <=> a = f /\ b > g
  BY <1>2, <1>3
<1>7. At(4) <=> a = f /\ b = g /\ c > h
  BY <1>2, <1>3
<1>8. At(5) <=> a = f /\ b = g /\ c = h /\ d > i
  BY <1>2, <1>3
<1>9. At(6) <=> a = f /\ b = g /\ c = h /\ d = i /\ e > j
  BY <1>2, <1>3
<1> HIDE DEF At
<1>10. (\E m \in 1 .. 6 : At(m)) <=> At(1) \/ At(2) \/ At(3) \/ At(4) \/ At(5) \/ At(6)
  <2>1. \A m \in 1 .. 6 : m = 1 \/ m = 2 \/ m = 3 \/ m = 4 \/ m = 5 \/ m = 6
    OBVIOUS
  <2>2. 1 \in 1 .. 6 /\ 2 \in 1 .. 6 /\ 3 \in 1 .. 6 /\ 4 \in 1 .. 6 /\ 5 \in 1 .. 6 /\ 6 \in 1 .. 6
    OBVIOUS
  <2> QED BY <2>1, <2>2
<1> QED BY <1>4, <1>5, <1>6, <1>7, <1>8, <1>9, <1>10 DEF Exceeds

\* Of two different scores one beats the other.
LEMMA OneOfTwoBeats ==
  ASSUME NEW v, IsScore(v), NEW w, IsScore(w), ~H!Beats(v, w), ~H!Beats(w, v)
  PROVE  v = w
<1>1. v[1] \in Int /\ w[1] \in Int
  BY AtOfScore
<1>2. v[1] = w[1]
  <2>1. ~Below(v, w) /\ ~Below(w, v)
    BY LowerIsBeaten
  <2> QED BY <1>1, <2>1 DEF Below
<1>3. CASE \E k, h : PairScore(v, k, h)
  <2>1. PICK k, g : PairScore(v, k, g)
    BY <1>3
  <2>2. v[1] = k /\ k \in {4, 8}
    BY <2>1 DEF PairScore
  <2>3. PICK h : PairScore(w, k, h)
    <3>1. ASSUME NEW l, NEW a, NEW b, NEW c, NEW d, NEW e, LineScore(w, l, a, b, c, d, e)
          PROVE  FALSE
      <4>1. w[1] = l /\ l \in {0, 1, 2, 3, 5, 6, 7}
        BY <3>1 DEF LineScore
      <4>2. k = l
        BY <1>2, <2>2, <4>1
      <4>3. \A m : m \in {4, 8} => m \notin {0, 1, 2, 3, 5, 6, 7}
        OBVIOUS
      <4> QED BY <2>2, <4>1, <4>2, <4>3
    <3>2. PICK l, h : PairScore(w, l, h)
      BY <3>1 DEF IsScore
    <3>3. w[1] = l
      BY <3>2 DEF PairScore
    <3> QED BY <1>2, <2>2, <3>2, <3>3
  <2>4. ~(g > h) /\ ~(h > g)
    BY <2>1, <2>3, PairBeats
  <2> QED BY <2>1, <2>3, <2>4 DEF PairScore, AllRanks
<1>4. CASE \E k, a, b, c, d, e : LineScore(v, k, a, b, c, d, e)
  <2>1. PICK k, a, b, c, d, e : LineScore(v, k, a, b, c, d, e)
    BY <1>4
  <2>2. v[1] = k /\ k \in {0, 1, 2, 3, 5, 6, 7}
    BY <2>1 DEF LineScore
  <2>3. PICK f, g, h, i, j : LineScore(w, k, f, g, h, i, j)
    <3>1. ASSUME NEW l, NEW h, PairScore(w, l, h) PROVE FALSE
      <4>1. w[1] = l /\ l \in {4, 8}
        BY <3>1 DEF PairScore
      <4>2. k = l
        BY <1>2, <2>2, <4>1
      <4>3. \A m : m \in {4, 8} => m \notin {0, 1, 2, 3, 5, 6, 7}
        OBVIOUS
      <4> QED BY <2>2, <4>1, <4>2, <4>3
    <3>2. PICK l, f, g, h, i, j : LineScore(w, l, f, g, h, i, j)
      BY <3>1 DEF IsScore
    <3>3. w[1] = l
      BY <3>2 DEF LineScore
    <3> QED BY <1>2, <2>2, <3>2, <3>3
  <2>4. ~Exceeds(a, b, c, d, e, f, g, h, i, j) /\ ~Exceeds(f, g, h, i, j, a, b, c, d, e)
    BY <2>1, <2>3, LineBeats
  <2>5. AreRanks(a, b, c, d, e) /\ AreRanks(f, g, h, i, j)
    BY <2>1, <2>3 DEF LineScore
  <2>6. a = f /\ b = g /\ c = h /\ d = i /\ e = j
    BY <2>4, <2>5 DEF Exceeds, AreRanks, AllRanks
  <2> QED BY <2>1, <2>3, <2>6 DEF LineScore
<1> QED BY <1>3, <1>4 DEF IsScore

\* What cards make is a score.
LEMMA MakesScores ==
  ASSUME NEW S, S \subseteq Cards, NEW v, Makes(S, v)
  PROVE  IsScore(v)
<1>1. PICK a \in S, b \in S, c \in S, d \in S, e \in S : Shows(v, a, b, c, d, e)
  BY DEF Makes
<1>2. AreRanks(H!Rank(a), H!Rank(b), H!Rank(c), H!Rank(d), H!Rank(e))
  BY CardFacts DEF AreRanks, AllRanks
<1>3. ASSUME NEW k \in {0, 1, 2, 3, 5, 6, 7}, v = Line(k, a, b, c, d, e) PROVE IsScore(v)
  <2>1. LineScore(v, k, H!Rank(a), H!Rank(b), H!Rank(c), H!Rank(d), H!Rank(e))
    BY <1>2, <1>3 DEF Line, LineScore
  <2> QED BY <2>1 DEF IsScore
<1>4. ASSUME NEW k \in {4, 8}, NEW h, RunTo(h, a, b, c, d, e), v = <<k, h>> PROVE IsScore(v)
  <2>1. PairScore(v, k, h)
    BY <1>4 DEF RunTo, Run, PairScore, AllRanks
  <2> QED BY <2>1 DEF IsScore
<1>5. \A k : KindOf(k, a, b, c, d, e) => k \in {0, 1, 2, 3, 5, 6, 7}
  BY DEF KindOf, Kind
<1>6. 4 \in {4, 8} /\ 8 \in {4, 8} /\ 5 \in {0, 1, 2, 3, 5, 6, 7}
  OBVIOUS
<1> QED BY <1>1, <1>3, <1>4, <1>5, <1>6 DEF Shows

\* More cards make no less, and five of them make what they make.
LEMMA FiveMakeIt ==
  ASSUME NEW C, C \subseteq Cards, NEW v, Makes(C, v)
  PROVE  \E S \in SUBSET C : Cardinality(S) = 5 /\ Makes(S, v)
<1>1. PICK a \in C, b \in C, c \in C, d \in C, e \in C :
        Different(a, b, c, d, e) /\ Shows(v, a, b, c, d, e)
  BY DEF Makes
<1>2. {a, b, c, d, e} \in SUBSET C /\ Cardinality({a, b, c, d, e}) = 5
  BY <1>1, SizeOfFive
<1>3. PICK S : S = {a, b, c, d, e}
  OBVIOUS
<1>4. Makes(S, v)
  <2>1. a \in S /\ b \in S /\ c \in S /\ d \in S /\ e \in S
    BY <1>3
  <2> QED BY <1>1, <2>1 DEF Makes
<1> QED BY <1>2, <1>3, <1>4

\* score7 finds what no other score of the cards beats.
LEMMA BestOfSeven ==
  ASSUME NEW C, C \subseteq Cards, NEW w, Makes(C, w), \A v : Makes(C, v) => ~H!Beats(v, w)
  PROVE  H!Score7(C) = w
<1> DEFINE fives == H!kSubset(5, C)
           scores == {H!Score5(five) : five \in fives}
<1>1. fives = {S \in SUBSET C : Cardinality(S) = 5}
  BY SameCardinality DEF H!kSubset
<1>2. ASSUME NEW S \in SUBSET C, NEW v, Makes(S, v) PROVE Makes(C, v)
  BY <1>2 DEF Makes
<1>3. ASSUME NEW S \in fives PROVE Makes(C, H!Score5(S)) /\ IsScore(H!Score5(S))
  <2>1. S \in SUBSET C /\ Cardinality(S) = 5 /\ S \subseteq Cards
    BY <1>1
  <2>2. Makes(S, H!Score5(S))
    BY <2>1, FiveMakeTheirScore
  <2> QED BY <1>2, <2>1, <2>2, MakesScores
<1>4. IsScore(w)
  BY MakesScores
<1>5. w \in scores
  <2>1. PICK S \in SUBSET C : Cardinality(S) = 5 /\ Makes(S, w)
    BY FiveMakeIt
  <2>2. S \in fives /\ S \subseteq Cards
    BY <1>1, <2>1
  <2>3. w = H!Score5(S) \/ Below(w, H!Score5(S))
    BY <2>1, <2>2, FiveMakeNoBetter
  <2>4. ~H!Beats(H!Score5(S), w) /\ IsScore(H!Score5(S))
    BY <1>3, <2>2
  <2>5. w = H!Score5(S)
    BY <1>4, <2>3, <2>4, LowerIsBeaten
  <2> QED BY <2>2, <2>5
<1>6. \A v \in scores : ~H!Beats(v, w) /\ IsScore(v)
  BY <1>3
<1>7. \A v \in scores : (\A u \in scores : ~H!Beats(u, v)) => v = w
  <2> SUFFICES ASSUME NEW v \in scores, \A u \in scores : ~H!Beats(u, v) PROVE v = w
    OBVIOUS
  <2>1. ~H!Beats(w, v) /\ ~H!Beats(v, w) /\ IsScore(v)
    BY <1>5, <1>6
  <2> HIDE DEF scores
  <2> QED BY <1>4, <2>1, OneOfTwoBeats
<1>8. H!Score7(C) = CHOOSE best \in scores : \A other \in scores : ~H!Beats(other, best)
  BY DEF H!Score7
<1> HIDE DEF scores
<1> QED BY <1>5, <1>6, <1>7, <1>8

-----------------------------------------------------------------------------
(* What the rules look for in some cards.                                  *)

FlushSuits(C) == {s \in 0 .. 3 : Cardinality(H!OfSuit(s, C)) >= 5}
StraightFlushes(C) == UNION {H!Straights(H!OfSuit(s, C)) : s \in FlushSuits(C)}
Quads(C) == H!AtLeast(4, C)
Trips(C) == H!AtLeast(3, C)
Pairs(C) == H!AtLeast(2, C)

\* The lowest rank of a straight to h.
Low(h) == IF h = 3 THEN 12 ELSE h - 4

\* Three or more of a kind are two or more.
LEMMA AtLeastIs ==
  ASSUME NEW C, C \subseteq Cards
  PROVE  /\ \A r : r \in Quads(C) <=> r \in H!Ranks(C) /\ H!Count(C, r) >= 4
         /\ \A r : r \in Trips(C) <=> r \in H!Ranks(C) /\ H!Count(C, r) >= 3
         /\ \A r : r \in Pairs(C) <=> r \in H!Ranks(C) /\ H!Count(C, r) >= 2
         /\ H!Ranks(C) \subseteq AllRanks
         /\ \A r \in H!Ranks(C) : H!Count(C, r) \in 1 .. 4
         /\ Quads(C) \subseteq Trips(C) /\ Trips(C) \subseteq Pairs(C)
         /\ Pairs(C) \subseteq H!Ranks(C)
<1>1. /\ \A r : r \in Quads(C) <=> r \in H!Ranks(C) /\ H!Count(C, r) >= 4
      /\ \A r : r \in Trips(C) <=> r \in H!Ranks(C) /\ H!Count(C, r) >= 3
      /\ \A r : r \in Pairs(C) <=> r \in H!Ranks(C) /\ H!Count(C, r) >= 2
  BY DEF Quads, Trips, Pairs, H!AtLeast
<1>2. H!Ranks(C) \subseteq AllRanks
  BY CardFacts DEF H!Ranks, AllRanks
<1>3. \A r \in H!Ranks(C) : H!Count(C, r) \in 1 .. 4
  BY <1>2, CountBounds DEF AllRanks
<1>4. Quads(C) \subseteq Trips(C) /\ Trips(C) \subseteq Pairs(C) /\ Pairs(C) \subseteq H!Ranks(C)
  BY <1>1, <1>3
<1> QED BY <1>1, <1>2, <1>3, <1>4

\* The ranks of a straight, the highest first.
LEMMA EndsStraightIs ==
  ASSUME NEW C, NEW h \in 3 .. 12
  PROVE  H!EndsStraight(h, C)
           <=> /\ h \in H!Ranks(C) /\ h - 1 \in H!Ranks(C) /\ h - 2 \in H!Ranks(C)
               /\ h - 3 \in H!Ranks(C) /\ Low(h) \in H!Ranks(C)
<1>1. \A x \in 12 .. 25 : x % 13 = IF x >= 13 THEN x - 13 ELSE x
  OBVIOUS
<1>2. /\ (h - 0 + 13) % 13 = h /\ (h - 1 + 13) % 13 = h - 1 /\ (h - 2 + 13) % 13 = h - 2
      /\ (h - 3 + 13) % 13 = h - 3
  BY <1>1
<1>3. (h - 4 + 13) % 13 = Low(h)
  BY <1>1 DEF Low
<1>4. H!EndsStraight(h, C)
        <=> /\ (h - 0 + 13) % 13 \in H!Ranks(C) /\ (h - 1 + 13) % 13 \in H!Ranks(C)
            /\ (h - 2 + 13) % 13 \in H!Ranks(C) /\ (h - 3 + 13) % 13 \in H!Ranks(C)
            /\ (h - 4 + 13) % 13 \in H!Ranks(C)
  <2>1. \A k \in 0 .. 4 : k = 0 \/ k = 1 \/ k = 2 \/ k = 3 \/ k = 4
    OBVIOUS
  <2>2. 0 \in 0 .. 4 /\ 1 \in 0 .. 4 /\ 2 \in 0 .. 4 /\ 3 \in 0 .. 4 /\ 4 \in 0 .. 4
    OBVIOUS
  <2> QED BY <2>1, <2>2 DEF H!EndsStraight
<1> QED BY <1>2, <1>3, <1>4

\* A straight is to h when there are cards that run to h.
LEMMA StraightIsRun ==
  ASSUME NEW C, C \subseteq Cards, NEW h
  PROVE  h \in H!Straights(C)
           <=> \E a, b, c, d, e \in C : Different(a, b, c, d, e) /\ RunTo(h, a, b, c, d, e)
<1>1. h \in H!Straights(C) <=> h \in 3 .. 12 /\ H!EndsStraight(h, C)
  BY DEF H!Straights, H!Ace
<1>2. ASSUME h \in 3 .. 12, H!EndsStraight(h, C)
      PROVE  \E a, b, c, d, e \in C : Different(a, b, c, d, e) /\ RunTo(h, a, b, c, d, e)
  <2>1. /\ h \in H!Ranks(C) /\ h - 1 \in H!Ranks(C) /\ h - 2 \in H!Ranks(C)
        /\ h - 3 \in H!Ranks(C) /\ Low(h) \in H!Ranks(C)
    BY <1>2, EndsStraightIs
  <2>2. PICK a \in C : H!Rank(a) = h
    BY <2>1 DEF H!Ranks
  <2>3. PICK b \in C : H!Rank(b) = h - 1
    BY <2>1 DEF H!Ranks
  <2>4. PICK c \in C : H!Rank(c) = h - 2
    BY <2>1 DEF H!Ranks
  <2>5. PICK d \in C : H!Rank(d) = h - 3
    BY <2>1 DEF H!Ranks
  <2>6. PICK e \in C : H!Rank(e) = Low(h)
    BY <2>1 DEF H!Ranks
  <2>7. RunTo(h, a, b, c, d, e)
    BY <1>2, <2>2, <2>3, <2>4, <2>5, <2>6 DEF RunTo, Run, Low
  <2>8. Different(a, b, c, d, e)
    BY <1>2, <2>2, <2>3, <2>4, <2>5, <2>6 DEF Different, Low
  <2> QED BY <2>7, <2>8
<1>3. ASSUME NEW a \in C, NEW b \in C, NEW c \in C, NEW d \in C, NEW e \in C,
             RunTo(h, a, b, c, d, e)
      PROVE  h \in 3 .. 12 /\ H!EndsStraight(h, C)
  <2>1. /\ H!Rank(a) \in H!Ranks(C) /\ H!Rank(b) \in H!Ranks(C) /\ H!Rank(c) \in H!Ranks(C)
        /\ H!Rank(d) \in H!Ranks(C) /\ H!Rank(e) \in H!Ranks(C)
    BY DEF H!Ranks
  <2>2. /\ h \in 3 .. 12 /\ H!Rank(a) = h /\ H!Rank(b) = h - 1 /\ H!Rank(c) = h - 2
        /\ H!Rank(d) = h - 3 /\ H!Rank(e) = Low(h)
    BY <1>3 DEF RunTo, Run, Low
  <2> QED BY <2>1, <2>2, EndsStraightIs
<1> QED BY <1>1, <1>2, <1>3

\* Five cards of one suit are a flush.
LEMMA OneSuitIsFlush ==
  ASSUME NEW C, C \subseteq Cards, NEW a \in C, NEW b \in C, NEW c \in C, NEW d \in C, NEW e \in C,
         Different(a, b, c, d, e), OneSuit(a, b, c, d, e)
  PROVE  /\ H!Suit(a) \in FlushSuits(C)
         /\ LET F == H!OfSuit(H!Suit(a), C) IN
            a \in F /\ b \in F /\ c \in F /\ d \in F /\ e \in F
<1> DEFINE F == H!OfSuit(H!Suit(a), C)
<1>1. a \in F /\ b \in F /\ c \in F /\ d \in F /\ e \in F /\ F \subseteq Cards
  BY DEF OneSuit, H!OfSuit
<1> HIDE DEF F
<1>2. {a, b, c, d, e} \subseteq F /\ Cardinality({a, b, c, d, e}) = 5
  BY <1>1, SizeOfFive
<1>3. Cardinality(F) >= 5
  BY <1>1, <1>2, SubsetOfCards, CardsAreFinite
<1>4. H!Suit(a) \in 0 .. 3
  BY CardFacts
<1> QED BY <1>1, <1>3, <1>4 DEF F, FlushSuits

\* Cards of a suit have it.
LEMMA OfSuitIsOneSuit ==
  ASSUME NEW C, NEW s, NEW a \in H!OfSuit(s, C), NEW b \in H!OfSuit(s, C),
         NEW c \in H!OfSuit(s, C), NEW d \in H!OfSuit(s, C), NEW e \in H!OfSuit(s, C)
  PROVE  OneSuit(a, b, c, d, e) /\ a \in C /\ b \in C /\ c \in C /\ d \in C /\ e \in C
BY DEF H!OfSuit, OneSuit

\* A straight flush is a straight of five cards of a suit.
LEMMA StraightFlushIsRun ==
  ASSUME NEW C, C \subseteq Cards, NEW h
  PROVE  h \in StraightFlushes(C)
           <=> \E a, b, c, d, e \in C : /\ Different(a, b, c, d, e) /\ RunTo(h, a, b, c, d, e)
                                        /\ OneSuit(a, b, c, d, e)
<1>1. ASSUME h \in StraightFlushes(C)
      PROVE  \E a, b, c, d, e \in C : /\ Different(a, b, c, d, e) /\ RunTo(h, a, b, c, d, e)
                                      /\ OneSuit(a, b, c, d, e)
  <2>1. PICK s \in FlushSuits(C) : h \in H!Straights(H!OfSuit(s, C))
    BY <1>1 DEF StraightFlushes
  <2>2. H!OfSuit(s, C) \subseteq Cards
    BY DEF H!OfSuit
  <2>3. PICK a \in H!OfSuit(s, C), b \in H!OfSuit(s, C), c \in H!OfSuit(s, C),
             d \in H!OfSuit(s, C), e \in H!OfSuit(s, C) :
          Different(a, b, c, d, e) /\ RunTo(h, a, b, c, d, e)
    BY <2>1, <2>2, StraightIsRun
  <2> QED BY <2>3, OfSuitIsOneSuit
<1>2. ASSUME NEW a \in C, NEW b \in C, NEW c \in C, NEW d \in C, NEW e \in C,
             Different(a, b, c, d, e), RunTo(h, a, b, c, d, e), OneSuit(a, b, c, d, e)
      PROVE  h \in StraightFlushes(C)
  <2> DEFINE F == H!OfSuit(H!Suit(a), C)
  <2>1. H!Suit(a) \in FlushSuits(C) /\ a \in F /\ b \in F /\ c \in F /\ d \in F /\ e \in F
    BY <1>2, OneSuitIsFlush
  <2>2. F \subseteq Cards
    BY DEF H!OfSuit
  <2> HIDE DEF F
  <2>3. h \in H!Straights(F)
    BY <1>2, <2>1, <2>2, StraightIsRun
  <2> QED BY <2>1, <2>3 DEF F, StraightFlushes
<1> QED BY <1>1, <1>2

StraightFlush(C, v) == \E h \in StraightFlushes(C) : v = <<8, h>>
Four(C, v) == \E q \in Quads(C), k \in H!Ranks(C) : k # q /\ v = <<7, q, q, q, q, k>>
Full(C, v) == \E t \in Trips(C), p \in Pairs(C) : t # p /\ v = <<6, t, t, t, p, p>>
Flush(C, v) ==
  \E s \in FlushSuits(C) : \E a, b, c, d, e \in H!Ranks(H!OfSuit(s, C)) :
    Kind(0, a, b, c, d, e) /\ v = <<5, a, b, c, d, e>>
Straight(C, v) == \E h \in H!Straights(C) : v = <<4, h>>
Three(C, v) ==
  \E t \in Trips(C), a, b \in H!Ranks(C) : Kind(3, t, t, t, a, b) /\ v = <<3, t, t, t, a, b>>
TwoPairs(C, v) ==
  \E p, q \in Pairs(C), k \in H!Ranks(C) : Kind(2, p, p, q, q, k) /\ v = <<2, p, p, q, q, k>>
OnePair(C, v) ==
  \E p \in Pairs(C), a, b, c \in H!Ranks(C) : Kind(1, p, p, a, b, c) /\ v = <<1, p, p, a, b, c>>
HighCard(C, v) ==
  \E a, b, c, d, e \in H!Ranks(C) : Kind(0, a, b, c, d, e) /\ v = <<0, a, b, c, d, e>>

\* Cards of a kind count for it in whatever they are taken from.
LEMMA KindCounts ==
  ASSUME NEW C, C \subseteq Cards, NEW a \in C, NEW b \in C, NEW c \in C, NEW d \in C, NEW e \in C,
         Different(a, b, c, d, e), NEW k, KindOf(k, a, b, c, d, e)
  PROVE  /\ H!Rank(a) \in H!Ranks(C) /\ H!Rank(b) \in H!Ranks(C) /\ H!Rank(c) \in H!Ranks(C)
         /\ H!Rank(d) \in H!Ranks(C) /\ H!Rank(e) \in H!Ranks(C)
         /\ k = 7 => H!Rank(a) \in Quads(C)
         /\ k = 6 => H!Rank(a) \in Trips(C) /\ H!Rank(d) \in Pairs(C)
         /\ k = 3 => H!Rank(a) \in Trips(C)
         /\ k = 2 => H!Rank(a) \in Pairs(C) /\ H!Rank(c) \in Pairs(C)
         /\ k = 1 => H!Rank(a) \in Pairs(C)
<1>1. PICK S : S = {a, b, c, d, e}
  OBVIOUS
<1>2. Counted(S, a, b, c, d, e) /\ S \subseteq C
  BY <1>1 DEF Counted
<1>3. /\ H!Rank(a) \in H!Ranks(C) /\ H!Rank(b) \in H!Ranks(C) /\ H!Rank(c) \in H!Ranks(C)
      /\ H!Rank(d) \in H!Ranks(C) /\ H!Rank(e) \in H!Ranks(C)
  BY DEF H!Ranks
<1>4. H!Ranks(C) \subseteq AllRanks /\ \A r \in H!Ranks(C) : H!Count(C, r) \in 1 .. 4
  BY AtLeastIs
<1> DEFINE n(r) == Tally(r, H!Rank(a), H!Rank(b), H!Rank(c), H!Rank(d), H!Rank(e))
<1>5. \A r \in H!Ranks(C) : n(r) <= H!Count(C, r)
  <2>1. ASSUME NEW r PROVE n(r) <= H!Count(C, r)
    <3>1. H!Count(S, r) = n(r)
      BY <1>2, CountIsTally
    <3> QED BY <1>2, <3>1, CountMonotone
  <2> QED BY <2>1
<1>6. /\ k = 7 => n(H!Rank(a)) = 4
      /\ k = 6 => n(H!Rank(a)) = 3 /\ n(H!Rank(d)) = 2
      /\ k = 3 => n(H!Rank(a)) = 3
      /\ k = 2 => n(H!Rank(a)) = 2 /\ n(H!Rank(c)) = 2
      /\ k = 1 => n(H!Rank(a)) = 2
  <2>1. /\ H!Rank(a) \in AllRanks /\ H!Rank(b) \in AllRanks /\ H!Rank(c) \in AllRanks
        /\ H!Rank(d) \in AllRanks /\ H!Rank(e) \in AllRanks
    BY <1>3, <1>4
  <2> QED BY <2>1, CountsOfKind DEF KindOf
<1> HIDE DEF n
<1> QED BY <1>3, <1>4, <1>5, <1>6, AtLeastIs

\* What cards make is one of nine things.
LEMMA MakesOneOfNine ==
  ASSUME NEW C, C \subseteq Cards, NEW v, Makes(C, v)
  PROVE  \/ StraightFlush(C, v) \/ Four(C, v) \/ Full(C, v) \/ Flush(C, v) \/ Straight(C, v)
         \/ Three(C, v) \/ TwoPairs(C, v) \/ OnePair(C, v) \/ HighCard(C, v)
<1>1. PICK a \in C, b \in C, c \in C, d \in C, e \in C :
        Different(a, b, c, d, e) /\ Shows(v, a, b, c, d, e)
  BY DEF Makes
<1>2. ASSUME NEW k, KindOf(k, a, b, c, d, e), v = Line(k, a, b, c, d, e)
      PROVE  \/ Four(C, v) \/ Full(C, v) \/ Three(C, v) \/ TwoPairs(C, v) \/ OnePair(C, v)
             \/ HighCard(C, v)
  <2>1. PICK p, q, r, s, t : /\ p = H!Rank(a) /\ q = H!Rank(b) /\ r = H!Rank(c) /\ s = H!Rank(d)
                             /\ t = H!Rank(e)
    OBVIOUS
  <2>2. Kind(k, p, q, r, s, t) /\ v = <<k, p, q, r, s, t>>
    BY <1>2, <2>1 DEF KindOf, Line
  <2>3. /\ p \in H!Ranks(C) /\ q \in H!Ranks(C) /\ r \in H!Ranks(C) /\ s \in H!Ranks(C)
        /\ t \in H!Ranks(C)
        /\ k = 7 => p \in Quads(C)
        /\ k = 6 => p \in Trips(C) /\ s \in Pairs(C)
        /\ k = 3 => p \in Trips(C)
        /\ k = 2 => p \in Pairs(C) /\ r \in Pairs(C)
        /\ k = 1 => p \in Pairs(C)
    BY <1>1, <1>2, <2>1, KindCounts
  <2>4. CASE k = 7
    <3>1. p = q /\ p = r /\ p = s /\ p # t
      BY <2>2, <2>4 DEF Kind
    <3> QED BY <2>2, <2>3, <2>4, <3>1 DEF Four
  <2>5. CASE k = 6
    <3>1. p = q /\ p = r /\ s = t /\ p # s
      BY <2>2, <2>5 DEF Kind
    <3> QED BY <2>2, <2>3, <2>5, <3>1 DEF Full
  <2>6. CASE k = 3
    <3>1. p = q /\ p = r
      BY <2>2, <2>6 DEF Kind
    <3> QED BY <2>2, <2>3, <2>6, <3>1 DEF Three
  <2>7. CASE k = 2
    <3>1. p = q /\ r = s
      BY <2>2, <2>7 DEF Kind
    <3> QED BY <2>2, <2>3, <2>7, <3>1 DEF TwoPairs
  <2>8. CASE k = 1
    <3>1. p = q
      BY <2>2, <2>8 DEF Kind
    <3> QED BY <2>2, <2>3, <2>8, <3>1 DEF OnePair
  <2>9. CASE k = 0
    BY <2>2, <2>3, <2>9 DEF HighCard
  <2> QED BY <2>2, <2>4, <2>5, <2>6, <2>7, <2>8, <2>9 DEF Kind
<1>3. ASSUME KindOf(0, a, b, c, d, e), OneSuit(a, b, c, d, e), v = Line(5, a, b, c, d, e)
      PROVE  Flush(C, v)
  <2>1. PICK F : F = H!OfSuit(H!Suit(a), C)
    OBVIOUS
  <2>2. H!Suit(a) \in FlushSuits(C) /\ a \in F /\ b \in F /\ c \in F /\ d \in F /\ e \in F
    BY <1>1, <1>3, <2>1, OneSuitIsFlush
  <2>3. /\ H!Rank(a) \in H!Ranks(F) /\ H!Rank(b) \in H!Ranks(F) /\ H!Rank(c) \in H!Ranks(F)
        /\ H!Rank(d) \in H!Ranks(F) /\ H!Rank(e) \in H!Ranks(F)
    BY <2>2 DEF H!Ranks
  <2> QED BY <1>3, <2>1, <2>2, <2>3 DEF KindOf, Line, Flush
<1>4. ASSUME NEW h, RunTo(h, a, b, c, d, e), v = <<4, h>> PROVE Straight(C, v)
  BY <1>1, <1>4, StraightIsRun DEF Straight
<1>5. ASSUME NEW h, RunTo(h, a, b, c, d, e), OneSuit(a, b, c, d, e), v = <<8, h>>
      PROVE  StraightFlush(C, v)
  BY <1>1, <1>5, StraightFlushIsRun DEF StraightFlush
<1> QED BY <1>1, <1>2, <1>3, <1>4, <1>5 DEF Shows

\* Of so many cards one can be taken, and one fewer are left.
LEMMA TakeOne ==
  ASSUME NEW S, S \subseteq Cards, NEW n \in Nat, Cardinality(S) >= n, n > 0
  PROVE  \E c \in S : Cardinality(S \ {c}) >= n - 1
<1>1. IsFiniteSet(S) /\ Cardinality(S) \in Nat
  BY CardsAreFinite
<1>2. S # {}
  BY <1>1, FS_EmptySet
<1>3. PICK c \in S : TRUE
  BY <1>2
<1>4. Cardinality(S \ {c}) = Cardinality(S) - 1
  BY <1>1, FS_RemoveElement
<1> QED BY <1>1, <1>4

\* Where a rank counts, there are cards of it.
LEMMA CardsOfRank ==
  ASSUME NEW C, C \subseteq Cards, NEW r
  PROVE  /\ r \in Pairs(C) => \E a, b \in C : a # b /\ H!Rank(a) = r /\ H!Rank(b) = r
         /\ r \in Trips(C) => \E a, b, c \in C : /\ a # b /\ a # c /\ b # c
                                                 /\ H!Rank(a) = r /\ H!Rank(b) = r /\ H!Rank(c) = r
         /\ r \in Quads(C) => \E a, b, c, d \in C : /\ Different4(a, b, c, d)
                                                    /\ H!Rank(a) = r /\ H!Rank(b) = r
                                                    /\ H!Rank(c) = r /\ H!Rank(d) = r
<1> DEFINE S == {c \in C : H!Rank(c) = r}
<1>1. H!Count(C, r) = Cardinality(S) /\ S \subseteq Cards
  BY CountIs
<1>2. /\ \A x \in S : x \in C /\ H!Rank(x) = r
      /\ 4 \in Nat /\ 3 \in Nat /\ 2 \in Nat /\ 1 \in Nat
  OBVIOUS
<1>3. /\ r \in Pairs(C) => Cardinality(S) >= 2
      /\ r \in Trips(C) => Cardinality(S) >= 3
      /\ r \in Quads(C) => Cardinality(S) >= 4
  BY <1>1, AtLeastIs
<1> HIDE DEF S
<1>4. ASSUME Cardinality(S) >= 2 PROVE \E a, b \in S : a # b
  <2>1. PICK a \in S : Cardinality(S \ {a}) >= 2 - 1
    BY <1>1, <1>2, <1>4, TakeOne
  <2>2. PICK b \in S \ {a} : Cardinality((S \ {a}) \ {b}) >= 1 - 1
    <3>1. Cardinality(S \ {a}) >= 1 /\ S \ {a} \subseteq Cards
      BY <1>1, <2>1
    <3> QED BY <1>2, <3>1, TakeOne
  <2> QED BY <2>2
<1>5. ASSUME Cardinality(S) >= 3 PROVE \E a, b, c \in S : a # b /\ a # c /\ b # c
  <2>1. PICK a \in S : Cardinality(S \ {a}) >= 3 - 1
    BY <1>1, <1>2, <1>5, TakeOne
  <2>2. PICK b \in S \ {a} : Cardinality((S \ {a}) \ {b}) >= 2 - 1
    <3>1. Cardinality(S \ {a}) >= 2 /\ S \ {a} \subseteq Cards
      BY <1>1, <2>1
    <3> QED BY <1>2, <3>1, TakeOne
  <2>3. PICK c \in (S \ {a}) \ {b} : Cardinality(((S \ {a}) \ {b}) \ {c}) >= 1 - 1
    <3>1. Cardinality((S \ {a}) \ {b}) >= 1 /\ (S \ {a}) \ {b} \subseteq Cards
      BY <1>1, <2>2
    <3> QED BY <1>2, <3>1, TakeOne
  <2> QED BY <2>3
<1>6. ASSUME Cardinality(S) >= 4 PROVE \E a, b, c, d \in S : Different4(a, b, c, d)
  <2>1. PICK a \in S : Cardinality(S \ {a}) >= 4 - 1
    BY <1>1, <1>2, <1>6, TakeOne
  <2>2. PICK b \in S \ {a} : Cardinality((S \ {a}) \ {b}) >= 3 - 1
    <3>1. Cardinality(S \ {a}) >= 3 /\ S \ {a} \subseteq Cards
      BY <1>1, <2>1
    <3> QED BY <1>2, <3>1, TakeOne
  <2>3. PICK c \in (S \ {a}) \ {b} : Cardinality(((S \ {a}) \ {b}) \ {c}) >= 2 - 1
    <3>1. Cardinality((S \ {a}) \ {b}) >= 2 /\ (S \ {a}) \ {b} \subseteq Cards
      BY <1>1, <2>2
    <3> QED BY <1>2, <3>1, TakeOne
  <2>4. PICK d \in ((S \ {a}) \ {b}) \ {c} : Cardinality((((S \ {a}) \ {b}) \ {c}) \ {d}) >= 1 - 1
    <3>1. Cardinality(((S \ {a}) \ {b}) \ {c}) >= 1 /\ ((S \ {a}) \ {b}) \ {c} \subseteq Cards
      BY <1>1, <2>3
    <3> QED BY <1>2, <3>1, TakeOne
  <2> QED BY <2>4 DEF Different4
<1> QED BY <1>2, <1>3, <1>4, <1>5, <1>6

\* Where there is a rank there is a card of it.
LEMMA CardOf ==
  ASSUME NEW C, NEW r \in H!Ranks(C)
  PROVE  \E c \in C : H!Rank(c) = r
BY DEF H!Ranks

\* Each of the nine can be made.
LEMMA NineAreMade ==
  ASSUME NEW C, C \subseteq Cards, NEW v,
         \/ StraightFlush(C, v) \/ Four(C, v) \/ Full(C, v) \/ Flush(C, v) \/ Straight(C, v)
         \/ Three(C, v) \/ TwoPairs(C, v) \/ OnePair(C, v) \/ HighCard(C, v)
  PROVE  Makes(C, v)
<1>1. ASSUME NEW a \in C, NEW b \in C, NEW c \in C, NEW d \in C, NEW e \in C,
             Different(a, b, c, d, e), NEW k, KindOf(k, a, b, c, d, e), v = Line(k, a, b, c, d, e)
      PROVE  Makes(C, v)
  BY <1>1 DEF Makes, Shows
<1>2. CASE StraightFlush(C, v)
  BY <1>2, StraightFlushIsRun DEF StraightFlush, Makes, Shows
<1>3. CASE Straight(C, v)
  BY <1>3, StraightIsRun DEF Straight, Makes, Shows
<1>4. CASE Four(C, v)
  <2>1. PICK q \in Quads(C), k \in H!Ranks(C) : k # q /\ v = <<7, q, q, q, q, k>>
    BY <1>4 DEF Four
  <2>2. PICK a \in C, b \in C, c \in C, d \in C :
          /\ Different4(a, b, c, d)
          /\ H!Rank(a) = q /\ H!Rank(b) = q /\ H!Rank(c) = q /\ H!Rank(d) = q
    BY CardsOfRank
  <2>3. PICK e \in C : H!Rank(e) = k
    BY CardOf
  <2>4. Different(a, b, c, d, e)
    BY <2>1, <2>2, <2>3 DEF Different, Different4
  <2>5. KindOf(7, a, b, c, d, e) /\ v = Line(7, a, b, c, d, e)
    BY <2>1, <2>2, <2>3 DEF KindOf, Kind, Line
  <2> QED BY <1>1, <2>4, <2>5
<1>5. CASE Full(C, v)
  <2>1. PICK t \in Trips(C), p \in Pairs(C) : t # p /\ v = <<6, t, t, t, p, p>>
    BY <1>5 DEF Full
  <2>2. PICK a \in C, b \in C, c \in C :
          a # b /\ a # c /\ b # c /\ H!Rank(a) = t /\ H!Rank(b) = t /\ H!Rank(c) = t
    BY CardsOfRank
  <2>3. PICK d \in C, e \in C : d # e /\ H!Rank(d) = p /\ H!Rank(e) = p
    BY CardsOfRank
  <2>4. Different(a, b, c, d, e)
    BY <2>1, <2>2, <2>3 DEF Different
  <2>5. KindOf(6, a, b, c, d, e) /\ v = Line(6, a, b, c, d, e)
    BY <2>1, <2>2, <2>3 DEF KindOf, Kind, Line
  <2> QED BY <1>1, <2>4, <2>5
<1>6. CASE Flush(C, v)
  <2>1. PICK s \in FlushSuits(C) : \E p, q, r, t, u \in H!Ranks(H!OfSuit(s, C)) :
          Kind(0, p, q, r, t, u) /\ v = <<5, p, q, r, t, u>>
    BY <1>6 DEF Flush
  <2>2. PICK F : F = H!OfSuit(s, C)
    OBVIOUS
  <2>3. PICK p \in H!Ranks(F), q \in H!Ranks(F), r \in H!Ranks(F), t \in H!Ranks(F), u \in H!Ranks(F) :
          Kind(0, p, q, r, t, u) /\ v = <<5, p, q, r, t, u>>
    BY <2>1, <2>2
  <2>4. PICK a \in F, b \in F, c \in F, d \in F, e \in F :
          H!Rank(a) = p /\ H!Rank(b) = q /\ H!Rank(c) = r /\ H!Rank(d) = t /\ H!Rank(e) = u
    BY CardOf
  <2>5. OneSuit(a, b, c, d, e) /\ a \in C /\ b \in C /\ c \in C /\ d \in C /\ e \in C
    BY <2>2, OfSuitIsOneSuit
  <2>6. KindOf(0, a, b, c, d, e) /\ v = Line(5, a, b, c, d, e)
    BY <2>3, <2>4 DEF KindOf, Line
  <2>7. Different(a, b, c, d, e)
    <3>1. AreRanks(p, q, r, t, u)
      BY <2>4, <2>5, CardFacts DEF AreRanks, AllRanks
    <3> QED BY <2>3, <2>4, <3>1 DEF Different, Kind, AreRanks, AllRanks
  <2> QED BY <2>5, <2>6, <2>7 DEF Makes, Shows
<1>7. CASE Three(C, v)
  <2>1. PICK t \in Trips(C), p \in H!Ranks(C), q \in H!Ranks(C) :
          Kind(3, t, t, t, p, q) /\ v = <<3, t, t, t, p, q>>
    BY <1>7 DEF Three
  <2>2. PICK a \in C, b \in C, c \in C :
          a # b /\ a # c /\ b # c /\ H!Rank(a) = t /\ H!Rank(b) = t /\ H!Rank(c) = t
    BY CardsOfRank
  <2>3. PICK d \in C, e \in C : H!Rank(d) = p /\ H!Rank(e) = q
    BY CardOf
  <2>4. Different(a, b, c, d, e)
    <3>1. p \in AllRanks /\ q \in AllRanks
      BY AtLeastIs
    <3>2. t # p /\ t # q /\ p # q
      BY <2>1, <3>1 DEF Kind, AllRanks
    <3> QED BY <2>2, <2>3, <3>2 DEF Different
  <2>5. KindOf(3, a, b, c, d, e) /\ v = Line(3, a, b, c, d, e)
    BY <2>1, <2>2, <2>3 DEF KindOf, Line
  <2> QED BY <1>1, <2>4, <2>5
<1>8. CASE TwoPairs(C, v)
  <2>1. PICK p \in Pairs(C), q \in Pairs(C), k \in H!Ranks(C) :
          Kind(2, p, p, q, q, k) /\ v = <<2, p, p, q, q, k>>
    BY <1>8 DEF TwoPairs
  <2>2. PICK a \in C, b \in C : a # b /\ H!Rank(a) = p /\ H!Rank(b) = p
    BY CardsOfRank
  <2>3. PICK c \in C, d \in C : c # d /\ H!Rank(c) = q /\ H!Rank(d) = q
    BY CardsOfRank
  <2>4. PICK e \in C : H!Rank(e) = k
    BY CardOf
  <2>5. Different(a, b, c, d, e)
    <3>1. p \in AllRanks /\ q \in AllRanks
      BY AtLeastIs
    <3>2. p # q /\ k # p /\ k # q
      BY <2>1, <3>1 DEF Kind, AllRanks
    <3> QED BY <2>2, <2>3, <2>4, <3>2 DEF Different
  <2>6. KindOf(2, a, b, c, d, e) /\ v = Line(2, a, b, c, d, e)
    BY <2>1, <2>2, <2>3, <2>4 DEF KindOf, Line
  <2> QED BY <1>1, <2>5, <2>6
<1>9. CASE OnePair(C, v)
  <2>1. PICK p \in Pairs(C), q \in H!Ranks(C), r \in H!Ranks(C), s \in H!Ranks(C) :
          Kind(1, p, p, q, r, s) /\ v = <<1, p, p, q, r, s>>
    BY <1>9 DEF OnePair
  <2>2. PICK a \in C, b \in C : a # b /\ H!Rank(a) = p /\ H!Rank(b) = p
    BY CardsOfRank
  <2>3. PICK c \in C, d \in C, e \in C : H!Rank(c) = q /\ H!Rank(d) = r /\ H!Rank(e) = s
    BY CardOf
  <2>4. Different(a, b, c, d, e)
    <3>1. q \in AllRanks /\ r \in AllRanks /\ s \in AllRanks
      BY AtLeastIs
    <3>2. p # q /\ p # r /\ p # s /\ q # r /\ q # s /\ r # s
      BY <2>1, <3>1 DEF Kind, AllRanks
    <3> QED BY <2>2, <2>3, <3>2 DEF Different
  <2>5. KindOf(1, a, b, c, d, e) /\ v = Line(1, a, b, c, d, e)
    BY <2>1, <2>2, <2>3 DEF KindOf, Line
  <2> QED BY <1>1, <2>4, <2>5
<1>10. CASE HighCard(C, v)
  <2>1. PICK p \in H!Ranks(C), q \in H!Ranks(C), r \in H!Ranks(C), s \in H!Ranks(C), t \in H!Ranks(C) :
          Kind(0, p, q, r, s, t) /\ v = <<0, p, q, r, s, t>>
    BY <1>10 DEF HighCard
  <2>2. PICK a \in C, b \in C, c \in C, d \in C, e \in C :
          H!Rank(a) = p /\ H!Rank(b) = q /\ H!Rank(c) = r /\ H!Rank(d) = s /\ H!Rank(e) = t
    BY CardOf
  <2>3. Different(a, b, c, d, e)
    <3>1. AreRanks(p, q, r, s, t)
      BY AtLeastIs DEF AreRanks
    <3> QED BY <2>1, <2>2, <3>1 DEF Different, Kind, AreRanks, AllRanks
  <2>4. KindOf(0, a, b, c, d, e) /\ v = Line(0, a, b, c, d, e)
    BY <2>1, <2>2 DEF KindOf, Line
  <2> QED BY <1>1, <2>3, <2>4
<1> QED BY <1>2, <1>3, <1>4, <1>5, <1>6, <1>7, <1>8, <1>9, <1>10

-----------------------------------------------------------------------------
(* The highest ranks.                                                      *)

\* x is the highest rank of R.
First(R, x) == x \in R /\ \A y \in R : y <= x

Leads2(R, a, b) == First(R, a) /\ First(R \ {a}, b)
Leads3(R, a, b, c) == Leads2(R, a, b) /\ First(R \ {a, b}, c)
Leads5(R, a, b, c, d, e) ==
  Leads3(R, a, b, c) /\ First(R \ {a, b, c}, d) /\ First(R \ {a, b, c, d}, e)

\* Of some ranks one is the highest.
LEMMA SomeIsFirstRank ==
  ASSUME NEW R, R \subseteq AllRanks, R # {}
  PROVE  \E x \in R : First(R, x)
<1>1. R \subseteq Cards /\ \A r \in R : H!Rank(r) = r /\ r \in Int
  BY RanksAreCards DEF AllRanks
<1>2. PICK c \in R : \A d \in R : d # c => H!Higher(c, d)
  BY <1>1, SomeIsHighest
<1>3. \A d \in R : d <= c
  BY <1>1, <1>2 DEF H!Higher
<1> QED BY <1>3 DEF First

\* Max is the highest rank.
LEMMA MaxIsFirst ==
  ASSUME NEW R, R \subseteq AllRanks, NEW x, First(R, x)
  PROVE  H!Max(R) = x
<1>1. x \in R /\ \A y \in R : x >= y
  BY DEF First, AllRanks
<1>2. \A z \in R : (\A y \in R : z >= y) => z = x
  BY <1>1 DEF AllRanks
<1> QED BY <1>1, <1>2 DEF H!Max

\* The rank that those of A are above comes after them.
LEMMA RankAt ==
  ASSUME NEW R, R \subseteq AllRanks, NEW A, A \subseteq R, NEW x, First(R \ A, x),
         \A y \in A : y > x, NEW i \in Nat \ {0}, Cardinality(A) = i - 1
  PROVE  H!Descending(R)[i] = x
<1>1. R \subseteq Cards /\ \A r \in R : H!Rank(r) = r /\ r \in Int
  BY RanksAreCards DEF AllRanks
<1>2. x \in R /\ x \notin A /\ \A y \in R \ A : y <= x
  BY DEF First
<1>3. {y \in R : H!Higher(y, x)} = A
  BY <1>1, <1>2 DEF H!Higher
<1>4. i \in 1 .. Cardinality(R)
  <2>1. Cardinality(A) < Cardinality(R)
    <3>1. Cardinality(A) <= Cardinality(R) /\ A # R
      BY <1>1, <1>2, SubsetOfCards
    <3>2. Cardinality(A) \in Nat /\ Cardinality(R) \in Nat
      BY <1>1, CardsAreFinite
    <3> QED BY <1>1, <3>1, <3>2, SubsetOfCards
  <2>2. Cardinality(R) \in Nat
    BY <1>1, CardsAreFinite
  <2> QED BY <2>1, <2>2
<1>5. H!Descending(R)[i] = H!Rank(x)
  BY <1>1, <1>2, <1>3, <1>4, DescendingAt
<1> QED BY <1>1, <1>2, <1>5

\* The first of the ranks in order, where there are so many.
LEMMA TopIs ==
  ASSUME NEW R, R \subseteq AllRanks, NEW n \in Nat,
         \A i \in 1 .. n : H!Descending(R)[i] \in AllRanks
  PROVE  /\ H!Top(n, R) \in Seq(AllRanks) /\ Len(H!Top(n, R)) = n
         /\ \A i \in 1 .. n : H!Top(n, R)[i] = H!Descending(R)[i]
<1>1. 1 \in Int /\ n \in Int
  OBVIOUS
<1>2. PICK s : s = H!Descending(R)
  OBVIOUS
<1>3. \A i \in 1 .. n : s[i] \in AllRanks
  BY <1>2
<1>4. /\ SubSeq(s, 1, n) \in Seq(AllRanks)
      /\ Len(SubSeq(s, 1, n)) = IF 1 <= n THEN n - 1 + 1 ELSE 0
      /\ \A i \in 1 .. n - 1 + 1 : SubSeq(s, 1, n)[i] = s[1 + i - 1]
  BY <1>1, <1>3, SubSeqProperties
<1>5. H!Top(n, R) = SubSeq(s, 1, n)
  BY <1>2 DEF H!Top
<1>6. PICK t : t = H!Top(n, R)
  OBVIOUS
<1>7. t \in Seq(AllRanks) /\ Len(t) = n /\ \A i \in 1 .. n : t[i] = s[i]
  BY <1>4, <1>5, <1>6
<1> QED BY <1>2, <1>6, <1>7

\* Leading ranks come one after the other.
LEMMA LeadsFall ==
  ASSUME NEW R, R \subseteq AllRanks
  PROVE  /\ \A a, b : Leads2(R, a, b) => a \in R /\ b \in R /\ a > b
         /\ \A a, b, c : Leads3(R, a, b, c) => c \in R /\ b > c
         /\ \A a, b, c, d, e : Leads5(R, a, b, c, d, e) => d \in R /\ e \in R /\ c > d /\ d > e
<1>1. \A x \in R : x \in Int
  BY DEF AllRanks
<1> QED BY <1>1 DEF First, Leads2, Leads3, Leads5

\* The ranks that are taken when there are that many.
LEMMA TopOne ==
  ASSUME NEW R, R \subseteq AllRanks, NEW a, First(R, a)
  PROVE  H!Top(1, R) = <<a>> /\ a \in AllRanks
<1>1. a \in AllRanks /\ R \ {} = R
  BY DEF First
<1>2. H!Descending(R)[1] = a
  <2>1. {} \subseteq R /\ First(R \ {}, a) /\ (\A y \in {} : y > a) /\ Cardinality({}) = 1 - 1
        /\ 1 \in Nat \ {0}
    BY <1>1, FS_EmptySet
  <2> QED BY <2>1, RankAt
<1>3. PICK t : t = H!Top(1, R)
  OBVIOUS
<1>4. t \in Seq(AllRanks) /\ Len(t) = 1 /\ t[1] = a
  <2>1. 1 \in Nat /\ \A i \in 1 .. 1 : H!Descending(R)[i] \in AllRanks
    BY <1>1, <1>2
  <2>2. /\ t \in Seq(AllRanks) /\ Len(t) = 1
        /\ \A i \in 1 .. 1 : t[i] = H!Descending(R)[i]
    BY <1>3, <2>1, TopIs
  <2> QED BY <1>2, <2>2
<1>5. t = <<t[1]>>
  BY <1>4
<1> QED BY <1>1, <1>3, <1>4, <1>5

\* What the first ranks of an order are.
LEMMA LeadsAt ==
  ASSUME NEW R, R \subseteq AllRanks
  PROVE  /\ \A a, b : Leads2(R, a, b) => H!Descending(R)[1] = a /\ H!Descending(R)[2] = b
         /\ \A a, b, c : Leads3(R, a, b, c) => H!Descending(R)[3] = c
         /\ \A a, b, c, d, e : Leads5(R, a, b, c, d, e) =>
              H!Descending(R)[4] = d /\ H!Descending(R)[5] = e
<1>0. \A x \in R : x \in Int
  BY DEF AllRanks
<1>1. ASSUME NEW a, NEW b, Leads2(R, a, b)
      PROVE  H!Descending(R)[1] = a /\ H!Descending(R)[2] = b
  <2>1. {} \subseteq R /\ First(R \ {}, a) /\ (\A y \in {} : y > a) /\ Cardinality({}) = 1 - 1
        /\ 1 \in Nat \ {0}
    BY <1>1, FS_EmptySet DEF Leads2, First
  <2>2. {a} \subseteq R /\ First(R \ {a}, b) /\ (\A y \in {a} : y > b) /\ Cardinality({a}) = 2 - 1
        /\ 2 \in Nat \ {0}
    <3>1. a \in R /\ a > b /\ First(R \ {a}, b)
      BY <1>1, LeadsFall DEF Leads2
    <3>2. Cardinality({a}) = 1
      BY FS_Singleton
    <3> QED BY <3>1, <3>2
  <2> QED BY <2>1, <2>2, RankAt
<1>2. ASSUME NEW a, NEW b, NEW c, Leads3(R, a, b, c)
      PROVE  H!Descending(R)[3] = c
  <2>1. Leads2(R, a, b) /\ First(R \ {a, b}, c)
    BY <1>2 DEF Leads3
  <2>2. a \in R /\ b \in R /\ a > b /\ b > c /\ c \in R
    BY <1>2, <2>1, LeadsFall
  <2>3. \A y \in {a, b} : y > c
    BY <1>0, <2>2
  <2>4. {a, b} \subseteq R /\ Cardinality({a, b}) = 3 - 1 /\ 3 \in Nat \ {0}
    BY <1>0, <2>2, SizeOfTwo
  <2> QED BY <2>1, <2>3, <2>4, RankAt
<1>3. ASSUME NEW a, NEW b, NEW c, NEW d, NEW e, Leads5(R, a, b, c, d, e)
      PROVE  H!Descending(R)[4] = d /\ H!Descending(R)[5] = e
  <2>1. /\ Leads3(R, a, b, c) /\ Leads2(R, a, b)
        /\ First(R \ {a, b, c}, d) /\ First(R \ {a, b, c, d}, e)
    BY <1>3 DEF Leads5, Leads3
  <2>2. /\ a \in R /\ b \in R /\ c \in R /\ d \in R /\ e \in R
        /\ a > b /\ b > c /\ c > d /\ d > e
    BY <1>3, <2>1, LeadsFall
  <2>3. (\A y \in {a, b, c} : y > d) /\ (\A y \in {a, b, c, d} : y > e)
    BY <1>0, <2>2
  <2>4. Different4(a, b, c, d)
    BY <1>0, <2>2 DEF Different4
  <2>5. /\ {a, b, c} \subseteq R /\ Cardinality({a, b, c}) = 4 - 1
        /\ {a, b, c, d} \subseteq R /\ Cardinality({a, b, c, d}) = 5 - 1
        /\ 4 \in Nat \ {0} /\ 5 \in Nat \ {0}
    <3>1. /\ Cardinality({}) = 0 /\ Cardinality({a}) = 1 /\ Cardinality({a, b}) = 2
          /\ Cardinality({a, b, c}) = 3 /\ Cardinality({a, b, c, d}) = 4
      BY <2>4, SizesOfPrefixes
    <3> QED BY <2>2, <3>1
  <2>6. H!Descending(R)[4] = d
    BY <2>1, <2>3, <2>5, RankAt
  <2>7. H!Descending(R)[5] = e
    BY <2>1, <2>3, <2>5, RankAt
  <2> QED BY <2>6, <2>7
<1> QED BY <1>1, <1>2, <1>3

\* The two highest ranks, in order.
LEMMA TopTwo ==
  ASSUME NEW R, R \subseteq AllRanks, NEW a, NEW b, Leads2(R, a, b)
  PROVE  H!Top(2, R) = <<a, b>>
<1>1. a \in AllRanks /\ b \in AllRanks
  BY LeadsFall
<1>2. H!Descending(R)[1] = a /\ H!Descending(R)[2] = b
  BY LeadsAt
<1>3. PICK t : t = H!Top(2, R)
  OBVIOUS
<1>4. t \in Seq(AllRanks) /\ Len(t) = 2 /\ t[1] = a /\ t[2] = b
  <2>1. 2 \in Nat /\ \A i \in 1 .. 2 : H!Descending(R)[i] \in AllRanks
    <3>1. \A i \in 1 .. 2 : i = 1 \/ i = 2
      OBVIOUS
    <3> QED BY <1>1, <1>2, <3>1
  <2>2. /\ t \in Seq(AllRanks) /\ Len(t) = 2
        /\ \A i \in 1 .. 2 : t[i] = H!Descending(R)[i]
    BY <1>3, <2>1, TopIs
  <2> QED BY <1>2, <2>2
<1>5. t = <<t[1], t[2]>>
  BY <1>4
<1> QED BY <1>3, <1>4, <1>5

\* The three highest ranks, in order.
LEMMA TopThree ==
  ASSUME NEW R, R \subseteq AllRanks, NEW a, NEW b, NEW c, Leads3(R, a, b, c)
  PROVE  H!Top(3, R) = <<a, b, c>>
<1>0. Leads2(R, a, b)
  BY DEF Leads3
<1>1. a \in AllRanks /\ b \in AllRanks /\ c \in AllRanks
  BY <1>0, LeadsFall
<1>2. H!Descending(R)[1] = a /\ H!Descending(R)[2] = b /\ H!Descending(R)[3] = c
  BY <1>0, LeadsAt
<1>3. PICK t : t = H!Top(3, R)
  OBVIOUS
<1>4. t \in Seq(AllRanks) /\ Len(t) = 3 /\ t[1] = a /\ t[2] = b /\ t[3] = c
  <2>1. 3 \in Nat /\ \A i \in 1 .. 3 : H!Descending(R)[i] \in AllRanks
    <3>1. \A i \in 1 .. 3 : i = 1 \/ i = 2 \/ i = 3
      OBVIOUS
    <3> QED BY <1>1, <1>2, <3>1
  <2>2. /\ t \in Seq(AllRanks) /\ Len(t) = 3
        /\ \A i \in 1 .. 3 : t[i] = H!Descending(R)[i]
    BY <1>3, <2>1, TopIs
  <2> QED BY <1>2, <2>2
<1>5. t = <<t[1], t[2], t[3]>>
  BY <1>4
<1> QED BY <1>3, <1>4, <1>5

\* The five highest ranks, in order.
LEMMA TopFive ==
  ASSUME NEW R, R \subseteq AllRanks, NEW a, NEW b, NEW c, NEW d, NEW e, Leads5(R, a, b, c, d, e)
  PROVE  H!Top(5, R) = <<a, b, c, d, e>>
<1>0. Leads2(R, a, b) /\ Leads3(R, a, b, c)
  BY DEF Leads3, Leads5
<1>1. a \in AllRanks /\ b \in AllRanks /\ c \in AllRanks /\ d \in AllRanks /\ e \in AllRanks
  BY <1>0, LeadsFall
<1>2. /\ H!Descending(R)[1] = a /\ H!Descending(R)[2] = b /\ H!Descending(R)[3] = c
      /\ H!Descending(R)[4] = d /\ H!Descending(R)[5] = e
  BY <1>0, LeadsAt
<1>3. PICK t : t = H!Top(5, R)
  OBVIOUS
<1>4. /\ t \in Seq(AllRanks) /\ Len(t) = 5
      /\ t[1] = a /\ t[2] = b /\ t[3] = c /\ t[4] = d /\ t[5] = e
  <2>1. 5 \in Nat /\ \A i \in 1 .. 5 : H!Descending(R)[i] \in AllRanks
    <3>1. \A i \in 1 .. 5 : i = 1 \/ i = 2 \/ i = 3 \/ i = 4 \/ i = 5
      OBVIOUS
    <3> QED BY <1>1, <1>2, <3>1
  <2>2. /\ t \in Seq(AllRanks) /\ Len(t) = 5
        /\ \A i \in 1 .. 5 : t[i] = H!Descending(R)[i]
    BY <1>3, <2>1, TopIs
  <2> QED BY <1>2, <2>2
<1>5. t = <<t[1], t[2], t[3], t[4], t[5]>>
  BY <1>4
<1> QED BY <1>3, <1>4, <1>5

\* There are five leading ranks where four are too few, and so on.
LEMMA LeadsExist ==
  ASSUME NEW R, R \subseteq AllRanks
  PROVE  /\ \/ \E a, b, c, d, e : Leads5(R, a, b, c, d, e)
            \/ \E a, b, c, d : Among(R, a, b, c, d)
         /\ \/ \E a, b, c : Leads3(R, a, b, c)
            \/ \E a, b : Among(R, a, a, b, b)
         /\ \/ \E a, b : Leads2(R, a, b)
            \/ \E a : Among(R, a, a, a, a)
<1> DEFINE F(U) == U = {} \/ \E x \in U : First(U, x)
<1>1. \A U \in SUBSET AllRanks : F(U)
  BY SomeIsFirstRank
<1> HIDE DEF F
<1>2. \A A : R \ A \in SUBSET AllRanks
  OBVIOUS
<1>3. F(R) /\ (\A a : F(R \ {a})) /\ (\A a, b : F(R \ {a, b})) /\ (\A a, b, c : F(R \ {a, b, c}))
      /\ \A a, b, c, d : F(R \ {a, b, c, d})
  BY <1>1, <1>2
<1>4. /\ R = {} => \A a, b, c, d : Among(R, a, b, c, d)
      /\ \A a : R \ {a} = {} => Among(R, a, a, a, a) /\ Among(R, a, a, a, a)
      /\ \A a, b : R \ {a, b} = {} => Among(R, a, a, b, b)
      /\ \A a, b, c : R \ {a, b, c} = {} => Among(R, a, b, c, c)
      /\ \A a, b, c, d : R \ {a, b, c, d} = {} => Among(R, a, b, c, d)
  BY DEF Among
<1>5. (\E a, b : Leads2(R, a, b)) \/ \E a : Among(R, a, a, a, a)
  BY <1>3, <1>4 DEF F, Leads2
<1>6. (\E a, b, c : Leads3(R, a, b, c)) \/ \E a, b : Among(R, a, a, b, b)
  <2>1. ASSUME NEW a, NEW b, Leads2(R, a, b)
        PROVE  (\E c : Leads3(R, a, b, c)) \/ Among(R, a, a, b, b)
    BY <1>3, <1>4, <2>1 DEF F, Leads3
  <2> QED BY <1>5, <2>1
<1>7. (\E a, b, c, d, e : Leads5(R, a, b, c, d, e)) \/ \E a, b, c, d : Among(R, a, b, c, d)
  <2>1. ASSUME NEW a, NEW b, NEW c, Leads3(R, a, b, c)
        PROVE  (\E d, e : Leads5(R, a, b, c, d, e)) \/ \E d : Among(R, a, b, c, d)
    <3>1. Among(R, a, b, c, c) \/ \E d : First(R \ {a, b, c}, d)
      BY <1>3, <1>4 DEF F
    <3>2. ASSUME NEW d, First(R \ {a, b, c}, d)
          PROVE  (\E e : Leads5(R, a, b, c, d, e)) \/ Among(R, a, b, c, d)
      BY <1>3, <1>4, <2>1, <3>2 DEF F, Leads5
    <3> QED BY <3>1, <3>2
  <2> QED BY <1>6, <2>1
<1> QED BY <1>5, <1>6, <1>7

-----------------------------------------------------------------------------
(* Scores put together.                                                    *)

\* A row of one rank.
LEMMA Repeated ==
  ASSUME NEW r
  PROVE  /\ H!Repeat(4, r) = <<r, r, r, r>> /\ H!Repeat(3, r) = <<r, r, r>>
         /\ H!Repeat(2, r) = <<r, r>>
BY DEF H!Repeat

\* Five numbers, some of them of s and the others of t.
LEMMA JoinedFive ==
  ASSUME NEW s \in Seq(Int), NEW t \in Seq(Int), Len(s) + Len(t) = 5
  PROVE  \E u : /\ u = s \o t /\ u = <<u[1], u[2], u[3], u[4], u[5]>>
                /\ \A i \in 1 .. 5 : u[i] = IF i <= Len(s) THEN s[i] ELSE t[i - Len(s)]
<1>1. /\ s \o t \in Seq(Int) /\ Len(s \o t) = Len(s) + Len(t)
      /\ \A i \in 1 .. Len(s) + Len(t) :
            (s \o t)[i] = IF i <= Len(s) THEN s[i] ELSE t[i - Len(s)]
  BY ConcatProperties
<1>2. PICK u : u = s \o t
  OBVIOUS
<1>3. /\ u \in Seq(Int) /\ Len(u) = 5
      /\ \A i \in 1 .. 5 : u[i] = IF i <= Len(s) THEN s[i] ELSE t[i - Len(s)]
  BY <1>1, <1>2
<1>4. u = <<u[1], u[2], u[3], u[4], u[5]>>
  BY <1>3
<1> QED BY <1>2, <1>3, <1>4

\* The scores of the rules, written out.
LEMMA JoinFourOne ==
  ASSUME NEW k \in Int, NEW a \in Int, NEW b \in Int, NEW c \in Int, NEW d \in Int, NEW e \in Int
  PROVE  <<k>> \o <<a, b, c, d>> \o <<e>> = <<k, a, b, c, d, e>>
<1>1. PICK m, s, t : m = <<k>> /\ s = <<a, b, c, d>> /\ t = <<e>>
  OBVIOUS
<1>2. m \in Seq(Int) /\ s \in Seq(Int) /\ t \in Seq(Int)
  BY <1>1
<1>3. /\ Len(s) = 4 /\ Len(t) = 1 /\ s[1] = a /\ s[2] = b /\ s[3] = c /\ s[4] = d
      /\ t[1] = e
  BY <1>1
<1>4. PICK u : /\ u = s \o t /\ u = <<u[1], u[2], u[3], u[4], u[5]>>
               /\ \A i \in 1 .. 5 : u[i] = IF i <= Len(s) THEN s[i] ELSE t[i - Len(s)]
  <2>1. Len(s) + Len(t) = 5
    BY <1>3
  <2> QED BY <1>2, <2>1, JoinedFive
<1>5. u = <<a, b, c, d, e>>
  <2>1. \A i \in 1 .. 5 : u[i] = IF i <= 4 THEN s[i] ELSE t[i - 4]
    BY <1>3, <1>4
  <2>2. u[1] = a /\ u[2] = b /\ u[3] = c /\ u[4] = d /\ u[5] = e
    <3>1. u[1] = s[1] /\ u[2] = s[2] /\ u[3] = s[3] /\ u[4] = s[4] /\ u[5] = t[1]
      BY <2>1
    <3> QED BY <1>3, <3>1
  <2> QED BY <1>4, <2>2
<1>6. (m \o s) \o t = m \o (s \o t)
  BY <1>2, ConcatAssociative
<1>7. m \o u = <<k, a, b, c, d, e>>
  BY <1>1, <1>5, Lines
<1> QED BY <1>1, <1>4, <1>6, <1>7

\* Three of one rank and two others.
LEMMA JoinThreeTwo ==
  ASSUME NEW k \in Int, NEW a \in Int, NEW b \in Int, NEW c \in Int, NEW d \in Int, NEW e \in Int
  PROVE  <<k>> \o <<a, b, c>> \o <<d, e>> = <<k, a, b, c, d, e>>
<1>1. PICK m, s, t : m = <<k>> /\ s = <<a, b, c>> /\ t = <<d, e>>
  OBVIOUS
<1>2. m \in Seq(Int) /\ s \in Seq(Int) /\ t \in Seq(Int)
  BY <1>1
<1>3. /\ Len(s) = 3 /\ Len(t) = 2 /\ s[1] = a /\ s[2] = b /\ s[3] = c
      /\ t[1] = d /\ t[2] = e
  BY <1>1
<1>4. PICK u : /\ u = s \o t /\ u = <<u[1], u[2], u[3], u[4], u[5]>>
               /\ \A i \in 1 .. 5 : u[i] = IF i <= Len(s) THEN s[i] ELSE t[i - Len(s)]
  <2>1. Len(s) + Len(t) = 5
    BY <1>3
  <2> QED BY <1>2, <2>1, JoinedFive
<1>5. u = <<a, b, c, d, e>>
  <2>1. \A i \in 1 .. 5 : u[i] = IF i <= 3 THEN s[i] ELSE t[i - 3]
    BY <1>3, <1>4
  <2>2. u[1] = a /\ u[2] = b /\ u[3] = c /\ u[4] = d /\ u[5] = e
    <3>1. u[1] = s[1] /\ u[2] = s[2] /\ u[3] = s[3] /\ u[4] = t[1] /\ u[5] = t[2]
      BY <2>1
    <3> QED BY <1>3, <3>1
  <2> QED BY <1>4, <2>2
<1>6. (m \o s) \o t = m \o (s \o t)
  BY <1>2, ConcatAssociative
<1>7. m \o u = <<k, a, b, c, d, e>>
  BY <1>1, <1>5, Lines
<1> QED BY <1>1, <1>4, <1>6, <1>7

\* Two of one rank and three others.
LEMMA JoinTwoThree ==
  ASSUME NEW k \in Int, NEW a \in Int, NEW b \in Int, NEW c \in Int, NEW d \in Int, NEW e \in Int
  PROVE  <<k>> \o <<a, b>> \o <<c, d, e>> = <<k, a, b, c, d, e>>
<1>1. PICK m, s, t : m = <<k>> /\ s = <<a, b>> /\ t = <<c, d, e>>
  OBVIOUS
<1>2. m \in Seq(Int) /\ s \in Seq(Int) /\ t \in Seq(Int)
  BY <1>1
<1>3. /\ Len(s) = 2 /\ Len(t) = 3 /\ s[1] = a /\ s[2] = b
      /\ t[1] = c /\ t[2] = d /\ t[3] = e
  BY <1>1
<1>4. PICK u : /\ u = s \o t /\ u = <<u[1], u[2], u[3], u[4], u[5]>>
               /\ \A i \in 1 .. 5 : u[i] = IF i <= Len(s) THEN s[i] ELSE t[i - Len(s)]
  <2>1. Len(s) + Len(t) = 5
    BY <1>3
  <2> QED BY <1>2, <2>1, JoinedFive
<1>5. u = <<a, b, c, d, e>>
  <2>1. \A i \in 1 .. 5 : u[i] = IF i <= 2 THEN s[i] ELSE t[i - 2]
    BY <1>3, <1>4
  <2>2. u[1] = a /\ u[2] = b /\ u[3] = c /\ u[4] = d /\ u[5] = e
    <3>1. u[1] = s[1] /\ u[2] = s[2] /\ u[3] = t[1] /\ u[4] = t[2] /\ u[5] = t[3]
      BY <2>1
    <3> QED BY <1>3, <3>1
  <2> QED BY <1>4, <2>2
<1>6. (m \o s) \o t = m \o (s \o t)
  BY <1>2, ConcatAssociative
<1>7. m \o u = <<k, a, b, c, d, e>>
  BY <1>1, <1>5, Lines
<1> QED BY <1>1, <1>4, <1>6, <1>7

\* Two of one rank, two of another and one more.
LEMMA JoinTwoTwoOne ==
  ASSUME NEW k \in Int, NEW a \in Int, NEW b \in Int, NEW c \in Int, NEW d \in Int, NEW e \in Int
  PROVE  <<k>> \o <<a, b>> \o <<c, d>> \o <<e>> = <<k, a, b, c, d, e>>
<1>1. PICK m, s, t : m = <<k>> /\ s = <<a, b>> /\ t = <<c, d>>
  OBVIOUS
<1>2. m \in Seq(Int) /\ s \in Seq(Int) /\ t \in Seq(Int)
  BY <1>1
<1>3. /\ Len(s) = 2 /\ Len(t) = 2 /\ s[1] = a /\ s[2] = b /\ t[1] = c /\ t[2] = d
  BY <1>1
<1>4. s \o t = <<a, b, c, d>>
  <2>1. /\ s \o t \in Seq(Int) /\ Len(s \o t) = Len(s) + Len(t)
        /\ \A i \in 1 .. Len(s) + Len(t) :
              (s \o t)[i] = IF i <= Len(s) THEN s[i] ELSE t[i - Len(s)]
    BY <1>2, ConcatProperties
  <2>2. PICK u : u = s \o t
    OBVIOUS
  <2>3. u \in Seq(Int) /\ Len(u) = 4 /\ u[1] = a /\ u[2] = b /\ u[3] = c /\ u[4] = d
    BY <1>3, <2>1, <2>2
  <2>4. u = <<u[1], u[2], u[3], u[4]>>
    BY <2>3
  <2> QED BY <2>2, <2>3, <2>4
<1>5. (m \o s) \o t = m \o (s \o t)
  BY <1>2, ConcatAssociative
<1>6. <<k>> \o <<a, b>> \o <<c, d>> = <<k>> \o <<a, b, c, d>>
  BY <1>1, <1>4, <1>5
<1>7. <<k>> \o <<a, b, c, d>> \o <<e>> = <<k, a, b, c, d, e>>
  BY JoinFourOne
<1>8. PICK x, y : x = <<k>> \o <<a, b>> \o <<c, d>> /\ y = <<k>> \o <<a, b, c, d>>
  OBVIOUS
<1>9. x = y
  BY <1>6, <1>8
<1> QED BY <1>7, <1>8, <1>9

-----------------------------------------------------------------------------
(* What seven cards cannot be.                                             *)

\* Two sets have no more cards than each of them together.
LEMMA SizeOfUnion ==
  ASSUME NEW S, S \subseteq Cards, NEW U, U \subseteq Cards
  PROVE  /\ Cardinality(S \cup U) <= Cardinality(S) + Cardinality(U)
         /\ S \cap U = {} => Cardinality(S \cup U) = Cardinality(S) + Cardinality(U)
         /\ S \cup U \subseteq Cards
<1>1. IsFiniteSet(S) /\ IsFiniteSet(U) /\ Cardinality(S) \in Nat /\ Cardinality(U) \in Nat
  BY CardsAreFinite
<1>2. Cardinality(S \cup U) = Cardinality(S) + Cardinality(U) - Cardinality(S \cap U)
  BY <1>1, FS_Union
<1>3. S \cap U \subseteq Cards /\ S \cup U \subseteq Cards
  OBVIOUS
<1>4. Cardinality(S \cap U) \in Nat /\ (S \cap U = {} => Cardinality(S \cap U) = 0)
  BY <1>3, CardsAreFinite, FS_EmptySet
<1> QED BY <1>1, <1>2, <1>3, <1>4

\* There are no more cards than those of the ranks that are counted.
LEMMA RanksCountAll ==
  ASSUME NEW C, C \subseteq Cards, NEW p, NEW q, NEW r, NEW s, Among(H!Ranks(C), p, q, r, s)
  PROVE  Cardinality(C) <= H!Count(C, p) + H!Count(C, q) + H!Count(C, r) + H!Count(C, s)
<1> DEFINE A(x) == {c \in C : H!Rank(c) = x}
<1>1. C = (A(p) \cup A(q)) \cup (A(r) \cup A(s))
  <2>1. \A c \in C : H!Rank(c) = p \/ H!Rank(c) = q \/ H!Rank(c) = r \/ H!Rank(c) = s
    BY DEF Among, H!Ranks
  <2> QED BY <2>1
<1>2. \A x : A(x) \subseteq Cards /\ H!Count(C, x) = Cardinality(A(x))
  BY CountIs
<1> HIDE DEF A
<1>3. Cardinality(A(p) \cup A(q)) <= Cardinality(A(p)) + Cardinality(A(q))
  BY <1>2, SizeOfUnion
<1>4. Cardinality(A(r) \cup A(s)) <= Cardinality(A(r)) + Cardinality(A(s))
  BY <1>2, SizeOfUnion
<1>5. Cardinality(C) <= Cardinality(A(p) \cup A(q)) + Cardinality(A(r) \cup A(s))
  <2>1. A(p) \cup A(q) \subseteq Cards /\ A(r) \cup A(s) \subseteq Cards
    BY <1>2
  <2> QED BY <1>1, <2>1, SizeOfUnion
<1>6. /\ Cardinality(A(p)) \in Nat /\ Cardinality(A(q)) \in Nat /\ Cardinality(A(r)) \in Nat
      /\ Cardinality(A(s)) \in Nat /\ Cardinality(C) \in Nat
      /\ Cardinality(A(p) \cup A(q)) \in Nat /\ Cardinality(A(r) \cup A(s)) \in Nat
  <2>1. A(p) \cup A(q) \subseteq Cards /\ A(r) \cup A(s) \subseteq Cards
    BY <1>2
  <2> QED BY <1>2, <2>1, CardsAreFinite
<1> QED BY <1>2, <1>3, <1>4, <1>5, <1>6

\* A rank counts for four at most, and in one suit for one.
LEMMA CountAtMost ==
  ASSUME NEW C, C \subseteq Cards, NEW r
  PROVE  /\ H!Count(C, r) \in 0 .. 4
         /\ r \notin Quads(C) => H!Count(C, r) <= 3
         /\ r \notin Trips(C) => H!Count(C, r) <= 2
         /\ r \notin Pairs(C) => H!Count(C, r) <= 1
         /\ \A s : H!Count(H!OfSuit(s, C), r) \in 0 .. 1
<1>1. /\ H!Count(C, r) \in 0 .. 4
      /\ r \notin Quads(C) => H!Count(C, r) <= 3
      /\ r \notin Trips(C) => H!Count(C, r) <= 2
      /\ r \notin Pairs(C) => H!Count(C, r) <= 1
  <2>1. CASE r \in H!Ranks(C)
    <3>1. H!Count(C, r) \in 1 .. 4
      BY <2>1, AtLeastIs
    <3>2. /\ r \notin Quads(C) => ~(H!Count(C, r) >= 4)
          /\ r \notin Trips(C) => ~(H!Count(C, r) >= 3)
          /\ r \notin Pairs(C) => ~(H!Count(C, r) >= 2)
      BY <2>1, AtLeastIs
    <3> QED BY <3>1, <3>2
  <2>2. CASE r \notin H!Ranks(C)
    <3>1. {c \in C : H!Rank(c) = r} = {}
      BY <2>2 DEF H!Ranks
    <3>2. H!Count(C, r) = 0
      BY <3>1, CountIs, FS_EmptySet
    <3> QED BY <3>2
  <2> QED BY <2>1, <2>2
<1>2. ASSUME NEW s PROVE H!Count(H!OfSuit(s, C), r) \in 0 .. 1
  <2> DEFINE A == {c \in H!OfSuit(s, C) : H!Rank(c) = r}
  <2>1. \A c, d \in A : c = d
    BY CardFacts DEF H!OfSuit
  <2>2. H!Count(H!OfSuit(s, C), r) = Cardinality(A)
    BY CountIs
  <2> HIDE DEF A
  <2>3. A = {} \/ \E c : A = {c}
    BY <2>1
  <2>4. Cardinality(A) = 0 \/ Cardinality(A) = 1
    BY <2>3, FS_EmptySet, FS_Singleton
  <2> QED BY <2>2, <2>4
<1> QED BY <1>1, <1>2

\* Seven cards have four of one rank only, and five of one suit only.
LEMMA OneQuadOneFlush ==
  ASSUME NEW C, C \subseteq Cards, Cardinality(C) = 7
  PROVE  /\ \A p, q \in Quads(C) : p = q
         /\ \A s, t \in FlushSuits(C) : s = t
<1>1. ASSUME NEW S, S \subseteq C, NEW U, U \subseteq C, S \cap U = {},
             Cardinality(S) >= 4, Cardinality(U) >= 4
      PROVE  FALSE
  <2>1. S \subseteq Cards /\ U \subseteq Cards /\ S \cup U \subseteq C
    BY <1>1
  <2>2. Cardinality(S \cup U) = Cardinality(S) + Cardinality(U)
    BY <1>1, <2>1, SizeOfUnion
  <2>3. Cardinality(S \cup U) <= Cardinality(C)
    BY <2>1, SubsetOfCards
  <2>4. Cardinality(S) \in Nat /\ Cardinality(U) \in Nat
    BY <2>1, CardsAreFinite
  <2> QED BY <1>1, <2>2, <2>3, <2>4
<1>2. ASSUME NEW p \in Quads(C), NEW q \in Quads(C), p # q PROVE FALSE
  <2> DEFINE S == {c \in C : H!Rank(c) = p}
             U == {c \in C : H!Rank(c) = q}
  <2>1. S \subseteq C /\ U \subseteq C /\ S \cap U = {}
    BY <1>2
  <2>2. Cardinality(S) >= 4 /\ Cardinality(U) >= 4
    BY AtLeastIs, CountIs
  <2> HIDE DEF S, U
  <2> QED BY <1>1, <2>1, <2>2
<1>3. ASSUME NEW s \in FlushSuits(C), NEW t \in FlushSuits(C), s # t PROVE FALSE
  <2> DEFINE S == H!OfSuit(s, C)
             U == H!OfSuit(t, C)
  <2>1. S \subseteq C /\ U \subseteq C /\ S \cap U = {}
    BY <1>3 DEF H!OfSuit
  <2>2. Cardinality(S) \in Nat /\ Cardinality(U) \in Nat
    BY <2>1, CardsAreFinite
  <2>3. Cardinality(S) >= 4 /\ Cardinality(U) >= 4
    BY <2>2 DEF FlushSuits
  <2> HIDE DEF S, U
  <2> QED BY <1>1, <2>1, <2>3
<1> QED BY <1>2, <1>3

\* Seven cards show the kickers that the rules ask for.
LEMMA QuadsHaveAKicker ==
  ASSUME NEW C, C \subseteq Cards, Cardinality(C) = 7, NEW q
  PROVE  \E k : First(H!Ranks(C) \ {q}, k)
<1>1. CASE H!Ranks(C) \ {q} = {}
  <2>1. {c \in C : H!Rank(c) = q} = C
    BY <1>1 DEF H!Ranks
  <2>2. H!Count(C, q) = 7
    BY <2>1, CountIs
  <2>3. H!Count(C, q) \in 0 .. 4
    BY CountAtMost
  <2> QED BY <2>2, <2>3
<1>2. CASE H!Ranks(C) \ {q} # {}
  <2>1. H!Ranks(C) \ {q} \subseteq AllRanks
    BY AtLeastIs
  <2> QED BY <1>2, <2>1, SomeIsFirstRank
<1> QED BY <1>1, <1>2

\* There is always a rank that no card has.
LEMMA SomeRankIsMissing ==
  ASSUME NEW C, C \subseteq Cards
  PROVE  13 \notin Pairs(C) /\ 13 \notin Trips(C) /\ 13 \notin Quads(C)
<1>1. 13 \notin H!Ranks(C)
  BY AtLeastIs DEF AllRanks
<1> QED BY <1>1, AtLeastIs

\* Beside three of a kind there are two other ranks.
LEMMA TripsHaveKickers ==
  ASSUME NEW C, C \subseteq Cards, Cardinality(C) = 7, NEW t, Quads(C) = {}, Pairs(C) \subseteq {t}
  PROVE  \E a, b : Leads2(H!Ranks(C) \ {t}, a, b)
<1>1. ASSUME NEW a, Among(H!Ranks(C) \ {t}, a, a, a, a) PROVE FALSE
  <2>1. PICK z : z \notin Pairs(C) /\ Among(H!Ranks(C), t, z, z, z)
    <3>1. CASE a \notin Pairs(C)
      BY <1>1, <3>1 DEF Among
    <3>2. CASE a \in Pairs(C)
      <4>1. 13 \notin Pairs(C) /\ Among(H!Ranks(C), t, 13, 13, 13)
        BY <1>1, <3>2, SomeRankIsMissing DEF Among
      <4> QED BY <4>1
    <3> QED BY <3>1, <3>2
  <2>2. H!Count(C, t) \in 0 .. 4 /\ H!Count(C, z) \in 0 .. 4
    BY CountAtMost
  <2>3. H!Count(C, t) <= 3 /\ H!Count(C, z) <= 1
    BY <2>1, CountAtMost
  <2>4. Cardinality(C) <= H!Count(C, t) + H!Count(C, z) + H!Count(C, z) + H!Count(C, z)
    BY <2>1, RanksCountAll
  <2> QED BY <2>2, <2>3, <2>4
<1>2. H!Ranks(C) \ {t} \subseteq AllRanks
  BY AtLeastIs
<1> QED BY <1>1, <1>2, LeadsExist

\* Beside two pairs there is another rank.
LEMMA TwoPairsHaveAKicker ==
  ASSUME NEW C, C \subseteq Cards, Cardinality(C) = 7, NEW p, NEW q, Trips(C) = {}
  PROVE  \E k : First(H!Ranks(C) \ {p, q}, k)
<1>1. CASE H!Ranks(C) \ {p, q} = {}
  <2>1. Among(H!Ranks(C), p, q, 13, 13)
    BY <1>1 DEF Among
  <2>2. H!Count(C, p) \in 0 .. 4 /\ H!Count(C, q) \in 0 .. 4 /\ H!Count(C, 13) \in 0 .. 4
    BY CountAtMost
  <2>3. H!Count(C, p) <= 2 /\ H!Count(C, q) <= 2 /\ H!Count(C, 13) <= 1
    BY CountAtMost, SomeRankIsMissing
  <2>4. Cardinality(C) <= H!Count(C, p) + H!Count(C, q) + H!Count(C, 13) + H!Count(C, 13)
    BY <2>1, RanksCountAll
  <2> QED BY <2>2, <2>3, <2>4
<1>2. CASE H!Ranks(C) \ {p, q} # {}
  <2>1. H!Ranks(C) \ {p, q} \subseteq AllRanks
    BY AtLeastIs
  <2> QED BY <1>2, <2>1, SomeIsFirstRank
<1> QED BY <1>1, <1>2

\* Beside a pair there are three other ranks.
LEMMA PairHasKickers ==
  ASSUME NEW C, C \subseteq Cards, Cardinality(C) = 7, NEW p, Trips(C) = {}, Pairs(C) \subseteq {p}
  PROVE  \E a, b, c : Leads3(H!Ranks(C) \ {p}, a, b, c)
<1>1. ASSUME NEW a, NEW b, Among(H!Ranks(C) \ {p}, a, a, b, b) PROVE FALSE
  <2>1. PICK y : y \notin Pairs(C) /\ Among(H!Ranks(C) \ {p}, y, y, b, b)
    <3>1. CASE a \notin Pairs(C)
      BY <1>1, <3>1
    <3>2. CASE a \in Pairs(C)
      <4>1. 13 \notin Pairs(C) /\ Among(H!Ranks(C) \ {p}, 13, 13, b, b)
        BY <1>1, <3>2, SomeRankIsMissing DEF Among
      <4> QED BY <4>1
    <3> QED BY <3>1, <3>2
  <2>2. PICK z : z \notin Pairs(C) /\ Among(H!Ranks(C), p, y, z, z)
    <3>1. CASE b \notin Pairs(C)
      BY <2>1, <3>1 DEF Among
    <3>2. CASE b \in Pairs(C)
      <4>1. 13 \notin Pairs(C) /\ Among(H!Ranks(C), p, y, 13, 13)
        BY <2>1, <3>2, SomeRankIsMissing DEF Among
      <4> QED BY <4>1
    <3> QED BY <3>1, <3>2
  <2>3. H!Count(C, p) \in 0 .. 4 /\ H!Count(C, y) \in 0 .. 4 /\ H!Count(C, z) \in 0 .. 4
    BY CountAtMost
  <2>4. H!Count(C, p) <= 2 /\ H!Count(C, y) <= 1 /\ H!Count(C, z) <= 1
    BY <2>1, <2>2, CountAtMost
  <2>5. Cardinality(C) <= H!Count(C, p) + H!Count(C, y) + H!Count(C, z) + H!Count(C, z)
    BY <2>2, RanksCountAll
  <2> QED BY <2>3, <2>4, <2>5
<1>2. H!Ranks(C) \ {p} \subseteq AllRanks
  BY AtLeastIs
<1> QED BY <1>1, <1>2, LeadsExist

\* Where no two cards are of a rank there are five ranks and more.
LEMMA NoPairHasFiveRanks ==
  ASSUME NEW C, C \subseteq Cards, Cardinality(C) = 7, Pairs(C) = {}
  PROVE  \E a, b, c, d, e : Leads5(H!Ranks(C), a, b, c, d, e)
<1>1. ASSUME NEW a, NEW b, NEW c, NEW d, Among(H!Ranks(C), a, b, c, d) PROVE FALSE
  <2>1. /\ H!Count(C, a) \in 0 .. 4 /\ H!Count(C, b) \in 0 .. 4 /\ H!Count(C, c) \in 0 .. 4
        /\ H!Count(C, d) \in 0 .. 4
    BY CountAtMost
  <2>2. /\ H!Count(C, a) <= 1 /\ H!Count(C, b) <= 1 /\ H!Count(C, c) <= 1 /\ H!Count(C, d) <= 1
    BY CountAtMost
  <2>3. Cardinality(C) <= H!Count(C, a) + H!Count(C, b) + H!Count(C, c) + H!Count(C, d)
    BY <1>1, RanksCountAll
  <2> QED BY <2>1, <2>2, <2>3
<1>2. H!Ranks(C) \subseteq AllRanks
  BY AtLeastIs
<1> QED BY <1>1, <1>2, LeadsExist

\* A flush has five ranks.
LEMMA FlushHasFiveRanks ==
  ASSUME NEW C, C \subseteq Cards, NEW s \in FlushSuits(C)
  PROVE  \E a, b, c, d, e : Leads5(H!Ranks(H!OfSuit(s, C)), a, b, c, d, e)
<1>0. PICK F : F = H!OfSuit(s, C)
  OBVIOUS
<1>1. F \subseteq Cards /\ Cardinality(F) >= 5
  BY <1>0 DEF H!OfSuit, FlushSuits
<1>2. ASSUME NEW a, NEW b, NEW c, NEW d, Among(H!Ranks(F), a, b, c, d) PROVE FALSE
  <2>1. /\ H!Count(F, a) \in 0 .. 1 /\ H!Count(F, b) \in 0 .. 1 /\ H!Count(F, c) \in 0 .. 1
        /\ H!Count(F, d) \in 0 .. 1
    BY <1>0, CountAtMost
  <2>2. Cardinality(F) <= H!Count(F, a) + H!Count(F, b) + H!Count(F, c) + H!Count(F, d)
    BY <1>1, <1>2, RanksCountAll
  <2>3. Cardinality(F) \in Nat
    BY <1>1, CardsAreFinite
  <2> QED BY <1>1, <2>1, <2>2, <2>3
<1>3. H!Ranks(F) \subseteq AllRanks
  BY <1>1, AtLeastIs
<1> QED BY <1>0, <1>2, <1>3, LeadsExist

\* Two pairs are two ranks.
LEMMA TwoOfThePairs ==
  ASSUME NEW C, C \subseteq Cards
  PROVE  /\ Cardinality(Pairs(C)) >= 2 => \E p, q : Leads2(Pairs(C), p, q)
         /\ ~(Cardinality(Pairs(C)) >= 2) => \A p, q \in Pairs(C) : p = q
<1>0. PICK R : R = Pairs(C)
  OBVIOUS
<1>1. R \subseteq AllRanks /\ R \subseteq Cards
  <2>1. R \subseteq AllRanks
    BY <1>0, AtLeastIs
  <2>2. AllRanks \subseteq Cards
    BY DEF AllRanks, Cards
  <2> QED BY <2>1, <2>2
<1>2. ASSUME NEW a, Among(R, a, a, a, a), Cardinality(R) >= 2 PROVE FALSE
  <2>1. R = {} \/ R = {a}
    BY <1>2 DEF Among
  <2>2. Cardinality(R) = 0 \/ Cardinality(R) = 1
    BY <2>1, FS_EmptySet, FS_Singleton
  <2> QED BY <1>2, <2>2
<1>3. ASSUME NEW p \in R, NEW q \in R, p # q PROVE Cardinality(R) >= 2
  <2>1. {p, q} \subseteq R /\ Cardinality({p, q}) = 2
    BY <1>3, SizeOfTwo
  <2>2. Cardinality({p, q}) <= Cardinality(R)
    BY <1>1, <2>1, SubsetOfCards
  <2>3. Cardinality(R) \in Nat
    BY <1>1, CardsAreFinite
  <2> QED BY <2>1, <2>2, <2>3
<1>4. Cardinality(R) >= 2 => \E p, q : Leads2(R, p, q)
  BY <1>1, <1>2, LeadsExist
<1>5. ~(Cardinality(R) >= 2) => \A p, q \in R : p = q
  BY <1>3
<1> QED BY <1>0, <1>4, <1>5

-----------------------------------------------------------------------------
(* The best of what seven cards make.                                      *)

\* What each of the nine scores.
LEMMA ScoresOfNine ==
  ASSUME NEW C, C \subseteq Cards, NEW v
  PROVE  /\ StraightFlush(C, v) => v[1] = 8
         /\ Four(C, v) => v[1] = 7
         /\ Full(C, v) => v[1] = 6
         /\ Flush(C, v) => v[1] = 5
         /\ Straight(C, v) => v[1] = 4
         /\ Three(C, v) => v[1] = 3
         /\ TwoPairs(C, v) => v[1] = 2
         /\ OnePair(C, v) => v[1] = 1
         /\ HighCard(C, v) => v[1] = 0
<1>1. StraightFlush(C, v) => v[1] = 8
  BY DEF StraightFlush
<1>2. Four(C, v) => v[1] = 7
  BY DEF Four
<1>3. Full(C, v) => v[1] = 6
  BY DEF Full
<1>4. Flush(C, v) => v[1] = 5
  BY DEF Flush
<1>5. Straight(C, v) => v[1] = 4
  BY DEF Straight
<1>6. Three(C, v) => v[1] = 3
  BY DEF Three
<1>7. TwoPairs(C, v) => v[1] = 2
  BY DEF TwoPairs
<1>8. OnePair(C, v) => v[1] = 1
  BY DEF OnePair
<1>9. HighCard(C, v) => v[1] = 0
  BY DEF HighCard
<1> QED BY <1>1, <1>2, <1>3, <1>4, <1>5, <1>6, <1>7, <1>8, <1>9

\* v is made of the cards, and nothing they make beats it.
IsBest(C, v) == Makes(C, v) /\ \A w : Makes(C, w) => ~H!Beats(w, v)

\* What is not beaten in its category and above is not beaten.
LEMMA BestFromAbove ==
  ASSUME NEW C, C \subseteq Cards, NEW v, Makes(C, v),
         \A w : Makes(C, w) /\ ~Below(w, v) => ~H!Beats(w, v)
  PROVE  IsBest(C, v)
<1>1. ASSUME NEW w, Makes(C, w), Below(w, v) PROVE ~H!Beats(w, v)
  BY <1>1, MakesScores, LowerIsBeaten
<1> QED BY <1>1 DEF IsBest

\* What cards make that is not below a score of the category k.
LEMMA NotBelow ==
  ASSUME NEW C, C \subseteq Cards, NEW v, NEW k \in 0 .. 8, v[1] = k,
         NEW w, Makes(C, w), ~Below(w, v)
  PROVE  \/ StraightFlush(C, w) \/ (k <= 7 /\ Four(C, w)) \/ (k <= 6 /\ Full(C, w))
         \/ (k <= 5 /\ Flush(C, w)) \/ (k <= 4 /\ Straight(C, w)) \/ (k <= 3 /\ Three(C, w))
         \/ (k <= 2 /\ TwoPairs(C, w)) \/ (k <= 1 /\ OnePair(C, w)) \/ (k <= 0 /\ HighCard(C, w))
<1>1. w[1] \in 0 .. 8 => w[1] >= k
  BY DEF Below
<1>2. /\ StraightFlush(C, w) => w[1] = 8
      /\ Four(C, w) => w[1] = 7
      /\ Full(C, w) => w[1] = 6
      /\ Flush(C, w) => w[1] = 5
      /\ Straight(C, w) => w[1] = 4
      /\ Three(C, w) => w[1] = 3
      /\ TwoPairs(C, w) => w[1] = 2
      /\ OnePair(C, w) => w[1] = 1
      /\ HighCard(C, w) => w[1] = 0
  BY ScoresOfNine
<1>3. \/ StraightFlush(C, w) \/ Four(C, w) \/ Full(C, w) \/ Flush(C, w) \/ Straight(C, w)
      \/ Three(C, w) \/ TwoPairs(C, w) \/ OnePair(C, w) \/ HighCard(C, w)
  BY MakesOneOfNine
<1> QED BY <1>1, <1>2, <1>3

\* A score of a category with five numbers that does not exceed another's does not beat it.
LEMMA NotExceeded ==
  ASSUME NEW v, NEW w, NEW k, NEW a, NEW b, NEW c, NEW d, NEW e,
         NEW f, NEW g, NEW h, NEW i, NEW j,
         LineScore(w, k, f, g, h, i, j), LineScore(v, k, a, b, c, d, e),
         ~Exceeds(f, g, h, i, j, a, b, c, d, e)
  PROVE  ~H!Beats(w, v)
BY LineBeats

\* Falling ranks do not exceed the leading ones.
LEMMA LeadingAreBest ==
  ASSUME NEW R, R \subseteq AllRanks, NEW a, NEW b, NEW c, NEW d, NEW e, Leads5(R, a, b, c, d, e),
         NEW f \in R, NEW g \in R, NEW h \in R, NEW i \in R, NEW j \in R, Kind(0, f, g, h, i, j)
  PROVE  ~Exceeds(f, g, h, i, j, a, b, c, d, e)
<1>1. f > g /\ g > h /\ h > i /\ i > j
  BY DEF Kind
<1>2. \A x \in R : x \in Int
  BY DEF AllRanks
<1>3. a \in R /\ b \in R /\ c \in R /\ d \in R /\ e \in R
  BY DEF Leads5, Leads3, Leads2, First
<1>4. f <= a /\ (g # a => g <= b) /\ (h # a /\ h # b => h <= c)
      /\ (i # a /\ i # b /\ i # c => i <= d)
      /\ (j # a /\ j # b /\ j # c /\ j # d => j <= e)
  BY DEF Leads5, Leads3, Leads2, First
<1>5. f \in Int /\ g \in Int /\ h \in Int /\ i \in Int /\ j \in Int
      /\ a \in Int /\ b \in Int /\ c \in Int /\ d \in Int /\ e \in Int
  BY <1>2, <1>3
<1> QED BY <1>1, <1>4, <1>5 DEF Exceeds

\* The straight flush to the highest rank is the best that can be.
LEMMA BestStraightFlush ==
  ASSUME NEW C, C \subseteq Cards, NEW h, First(StraightFlushes(C), h)
  PROVE  IsBest(C, <<8, h>>)
<1>1. PICK v : v = <<8, h>>
  OBVIOUS
<1>2. \A x \in StraightFlushes(C) : x \in AllRanks
  BY DEF StraightFlushes, H!Straights, AllRanks, H!Ace
<1>3. h \in StraightFlushes(C) /\ \A x \in StraightFlushes(C) : x <= h
  BY DEF First
<1>4. Makes(C, v) /\ v[1] = 8
  <2>1. StraightFlush(C, v)
    BY <1>1, <1>3 DEF StraightFlush
  <2> QED BY <1>1, <2>1, NineAreMade
<1>5. ASSUME NEW w, Makes(C, w), ~Below(w, v) PROVE ~H!Beats(w, v)
  <2>1. StraightFlush(C, w)
    <3>1. 8 \in 0 .. 8
      OBVIOUS
    <3> QED BY <1>4, <1>5, <3>1, NotBelow
  <2>2. PICK g \in StraightFlushes(C) : w = <<8, g>>
    BY <2>1 DEF StraightFlush
  <2>3. PairScore(w, 8, g) /\ PairScore(v, 8, h)
    BY <1>1, <1>2, <1>3, <2>2 DEF PairScore
  <2>4. ~(g > h)
    BY <1>2, <1>3 DEF AllRanks
  <2> QED BY <2>3, <2>4, PairBeats
<1> QED BY <1>1, <1>4, <1>5, BestFromAbove

\* Four of a kind, with the highest kicker.
LEMMA BestFour ==
  ASSUME NEW C, C \subseteq Cards, StraightFlushes(C) = {}, NEW q, Quads(C) = {q},
         NEW k, First(H!Ranks(C) \ {q}, k)
  PROVE  IsBest(C, <<7, q, q, q, q, k>>)
<1>1. PICK v : v = <<7, q, q, q, q, k>>
  OBVIOUS
<1>2. H!Ranks(C) \subseteq AllRanks /\ q \in H!Ranks(C) /\ q \in Quads(C)
  BY AtLeastIs
<1>3. k \in H!Ranks(C) /\ k # q /\ \A x \in H!Ranks(C) : x # q => x <= k
  BY DEF First
<1>4. Makes(C, v) /\ v[1] = 7
  <2>1. Four(C, v)
    BY <1>1, <1>2, <1>3 DEF Four
  <2> QED BY <1>1, <2>1, NineAreMade
<1>5. ASSUME NEW w, Makes(C, w), ~Below(w, v) PROVE ~H!Beats(w, v)
  <2>1. Four(C, w)
    <3>1. StraightFlush(C, w) \/ Four(C, w)
      <4>1. 7 \in 0 .. 8
        OBVIOUS
      <4> QED BY <1>4, <1>5, <4>1, NotBelow
    <3> QED BY <3>1 DEF StraightFlush
  <2>2. PICK x \in H!Ranks(C) : x # q /\ w = <<7, q, q, q, q, x>>
    BY <2>1 DEF Four
  <2>3. LineScore(w, 7, q, q, q, q, x) /\ LineScore(v, 7, q, q, q, q, k)
    BY <1>1, <1>2, <1>3, <2>2 DEF LineScore, AreRanks
  <2>4. ~Exceeds(q, q, q, q, x, q, q, q, q, k)
    <3>1. q \in Int /\ x \in Int /\ k \in Int /\ x <= k
      BY <1>2, <1>3, <2>2 DEF AllRanks
    <3> QED BY <3>1 DEF Exceeds
  <2> QED BY <2>3, <2>4, NotExceeded
<1> QED BY <1>1, <1>4, <1>5, BestFromAbove

\* The highest three of a kind with the highest other pair.
LEMMA BestFull ==
  ASSUME NEW C, C \subseteq Cards, StraightFlushes(C) = {}, Quads(C) = {},
         NEW t, First(Trips(C), t), NEW p, First(Pairs(C) \ {t}, p)
  PROVE  IsBest(C, <<6, t, t, t, p, p>>)
<1>1. PICK v : v = <<6, t, t, t, p, p>>
  OBVIOUS
<1>2. /\ \A x \in Trips(C) : x \in AllRanks
      /\ \A x \in Pairs(C) : x \in AllRanks
  BY AtLeastIs
<1>3. /\ t \in Trips(C) /\ \A x \in Trips(C) : x <= t
      /\ p \in Pairs(C) /\ p # t /\ \A x \in Pairs(C) : x # t => x <= p
  BY DEF First
<1>4. Makes(C, v) /\ v[1] = 6
  <2>1. Full(C, v)
    BY <1>1, <1>2, <1>3 DEF Full
  <2> QED BY <1>1, <2>1, NineAreMade
<1>5. ASSUME NEW w, Makes(C, w), ~Below(w, v) PROVE ~H!Beats(w, v)
  <2>1. Full(C, w)
    <3>1. StraightFlush(C, w) \/ Four(C, w) \/ Full(C, w)
      <4>1. 6 \in 0 .. 8
        OBVIOUS
      <4> QED BY <1>4, <1>5, <4>1, NotBelow
    <3> QED BY <3>1 DEF StraightFlush, Four
  <2>2. PICK x \in Trips(C), y \in Pairs(C) : x # y /\ w = <<6, x, x, x, y, y>>
    BY <2>1 DEF Full
  <2>3. LineScore(w, 6, x, x, x, y, y) /\ LineScore(v, 6, t, t, t, p, p)
    BY <1>1, <1>2, <1>3, <2>2 DEF LineScore, AreRanks
  <2>4. ~Exceeds(x, x, x, y, y, t, t, t, p, p)
    <3>1. x \in Int /\ y \in Int /\ t \in Int /\ p \in Int /\ x <= t /\ (x = t => y <= p)
      BY <1>2, <1>3, <2>2 DEF AllRanks
    <3> QED BY <3>1 DEF Exceeds
  <2> QED BY <2>3, <2>4, NotExceeded
<1> QED BY <1>1, <1>4, <1>5, BestFromAbove

\* Nothing of these cards is a full house.
NoFull(C) == \A t \in Trips(C), p \in Pairs(C) : t = p

\* The five highest cards of the suit.
LEMMA BestFlush ==
  ASSUME NEW C, C \subseteq Cards, StraightFlushes(C) = {}, Quads(C) = {}, NoFull(C),
         NEW s, FlushSuits(C) = {s}, NEW a, NEW b, NEW c, NEW d, NEW e,
         Leads5(H!Ranks(H!OfSuit(s, C)), a, b, c, d, e)
  PROVE  IsBest(C, <<5, a, b, c, d, e>>)
<1>1. PICK v, R : v = <<5, a, b, c, d, e>> /\ R = H!Ranks(H!OfSuit(s, C))
  OBVIOUS
<1>2. R \subseteq AllRanks
  <2>1. H!OfSuit(s, C) \subseteq Cards
    BY DEF H!OfSuit
  <2> QED BY <1>1, <2>1, AtLeastIs
<1>3. a \in R /\ b \in R /\ c \in R /\ d \in R /\ e \in R /\ Kind(0, a, b, c, d, e)
  <2>1. Leads5(R, a, b, c, d, e) /\ Leads3(R, a, b, c) /\ Leads2(R, a, b)
    BY <1>1 DEF Leads5, Leads3
  <2> QED BY <1>2, <2>1, LeadsFall DEF Kind
<1>4. Makes(C, v) /\ v[1] = 5
  <2>1. Flush(C, v)
    BY <1>1, <1>3 DEF Flush
  <2> QED BY <1>1, <2>1, NineAreMade
<1>5. ASSUME NEW w, Makes(C, w), ~Below(w, v) PROVE ~H!Beats(w, v)
  <2>1. Flush(C, w)
    <3>1. StraightFlush(C, w) \/ Four(C, w) \/ Full(C, w) \/ Flush(C, w)
      <4>1. 5 \in 0 .. 8
        OBVIOUS
      <4> QED BY <1>4, <1>5, <4>1, NotBelow
    <3>2. ~Full(C, w)
      BY DEF Full, NoFull
    <3> QED BY <3>1, <3>2 DEF StraightFlush, Four
  <2>2. PICK f \in R, g \in R, h \in R, i \in R, j \in R :
          Kind(0, f, g, h, i, j) /\ w = <<5, f, g, h, i, j>>
    BY <1>1, <2>1 DEF Flush
  <2>3. LineScore(w, 5, f, g, h, i, j) /\ LineScore(v, 5, a, b, c, d, e)
    BY <1>1, <1>2, <1>3, <2>2 DEF LineScore, AreRanks
  <2>4. ~Exceeds(f, g, h, i, j, a, b, c, d, e)
    BY <1>1, <1>2, <2>2, LeadingAreBest
  <2> QED BY <2>3, <2>4, NotExceeded
<1> QED BY <1>1, <1>4, <1>5, BestFromAbove

\* The straight to the highest rank.
LEMMA BestStraight ==
  ASSUME NEW C, C \subseteq Cards, StraightFlushes(C) = {}, Quads(C) = {}, NoFull(C),
         FlushSuits(C) = {}, NEW h, First(H!Straights(C), h)
  PROVE  IsBest(C, <<4, h>>)
<1>1. PICK v : v = <<4, h>>
  OBVIOUS
<1>2. \A x \in H!Straights(C) : x \in AllRanks
  BY DEF H!Straights, AllRanks, H!Ace
<1>3. h \in H!Straights(C) /\ \A x \in H!Straights(C) : x <= h
  BY DEF First
<1>4. Makes(C, v) /\ v[1] = 4
  <2>1. Straight(C, v)
    BY <1>1, <1>3 DEF Straight
  <2> QED BY <1>1, <2>1, NineAreMade
<1>5. ASSUME NEW w, Makes(C, w), ~Below(w, v) PROVE ~H!Beats(w, v)
  <2>1. Straight(C, w)
    <3>1. StraightFlush(C, w) \/ Four(C, w) \/ Full(C, w) \/ Flush(C, w) \/ Straight(C, w)
      <4>1. 4 \in 0 .. 8
        OBVIOUS
      <4> QED BY <1>4, <1>5, <4>1, NotBelow
    <3>2. ~Full(C, w)
      BY DEF Full, NoFull
    <3> QED BY <3>1, <3>2 DEF StraightFlush, Four, Flush
  <2>2. PICK g \in H!Straights(C) : w = <<4, g>>
    BY <2>1 DEF Straight
  <2>3. PairScore(w, 4, g) /\ PairScore(v, 4, h)
    BY <1>1, <1>2, <1>3, <2>2 DEF PairScore
  <2>4. ~(g > h)
    BY <1>2, <1>3 DEF AllRanks
  <2> QED BY <2>3, <2>4, PairBeats
<1> QED BY <1>1, <1>4, <1>5, BestFromAbove

\* Three of a kind, with the two highest kickers.
LEMMA BestThree ==
  ASSUME NEW C, C \subseteq Cards, StraightFlushes(C) = {}, Quads(C) = {},
         FlushSuits(C) = {}, H!Straights(C) = {}, NEW t \in Trips(C), Pairs(C) = {t},
         NEW a, NEW b, Leads2(H!Ranks(C) \ {t}, a, b)
  PROVE  IsBest(C, <<3, t, t, t, a, b>>)
<1>1. PICK v : v = <<3, t, t, t, a, b>>
  OBVIOUS
<1>2. /\ H!Ranks(C) \subseteq AllRanks /\ t \in H!Ranks(C)
      /\ \A x \in Trips(C) : x = t
  BY AtLeastIs
<1>3. /\ a \in H!Ranks(C) /\ a # t /\ \A x \in H!Ranks(C) : x # t => x <= a
      /\ b \in H!Ranks(C) /\ b # t /\ b # a /\ \A x \in H!Ranks(C) : x # t /\ x # a => x <= b
  BY DEF Leads2, First
<1>4. Makes(C, v) /\ v[1] = 3
  <2>1. Kind(3, t, t, t, a, b)
    BY <1>2, <1>3 DEF Kind, AllRanks
  <2>2. Three(C, v)
    BY <1>1, <1>3, <2>1 DEF Three
  <2> QED BY <1>1, <2>2, NineAreMade
<1>5. ASSUME NEW w, Makes(C, w), ~Below(w, v) PROVE ~H!Beats(w, v)
  <2>1. Three(C, w)
    <3>1. \/ StraightFlush(C, w) \/ Four(C, w) \/ Full(C, w) \/ Flush(C, w) \/ Straight(C, w)
          \/ Three(C, w)
      <4>1. 3 \in 0 .. 8
        OBVIOUS
      <4> QED BY <1>4, <1>5, <4>1, NotBelow
    <3>2. ~Full(C, w)
      BY <1>2 DEF Full
    <3> QED BY <3>1, <3>2 DEF StraightFlush, Four, Flush, Straight
  <2>2. PICK x \in H!Ranks(C), y \in H!Ranks(C) : Kind(3, t, t, t, x, y) /\ w = <<3, t, t, t, x, y>>
    BY <1>2, <2>1 DEF Three
  <2>3. LineScore(w, 3, t, t, t, x, y) /\ LineScore(v, 3, t, t, t, a, b)
    BY <1>1, <1>2, <1>3, <2>2 DEF LineScore, AreRanks
  <2>4. ~Exceeds(t, t, t, x, y, t, t, t, a, b)
    <3>1. x # t /\ y # t /\ x > y
      BY <2>2 DEF Kind
    <3>2. t \in Int /\ x \in Int /\ y \in Int /\ a \in Int /\ b \in Int
      BY <1>2, <1>3, <2>2 DEF AllRanks
    <3>3. x <= a /\ (y # a => y <= b)
      BY <1>3, <3>1
    <3> QED BY <3>1, <3>2, <3>3 DEF Exceeds
  <2> QED BY <2>3, <2>4, NotExceeded
<1> QED BY <1>1, <1>4, <1>5, BestFromAbove

\* The two highest pairs, with the highest kicker.
LEMMA BestTwoPairs ==
  ASSUME NEW C, C \subseteq Cards, StraightFlushes(C) = {}, FlushSuits(C) = {},
         H!Straights(C) = {}, Trips(C) = {}, NEW p, NEW q, Leads2(Pairs(C), p, q),
         NEW k, First(H!Ranks(C) \ {p, q}, k)
  PROVE  IsBest(C, <<2, p, p, q, q, k>>)
<1>1. PICK v : v = <<2, p, p, q, q, k>>
  OBVIOUS
<1>2. /\ H!Ranks(C) \subseteq AllRanks /\ Quads(C) = {}
      /\ \A x \in Pairs(C) : x \in AllRanks
  BY AtLeastIs
<1>3. /\ p \in Pairs(C) /\ \A x \in Pairs(C) : x <= p
      /\ q \in Pairs(C) /\ q # p /\ \A x \in Pairs(C) : x # p => x <= q
      /\ k \in H!Ranks(C) /\ k # p /\ k # q /\ \A x \in H!Ranks(C) : x # p /\ x # q => x <= k
  BY DEF Leads2, First
<1>4. Makes(C, v) /\ v[1] = 2
  <2>1. Kind(2, p, p, q, q, k)
    BY <1>2, <1>3 DEF Kind, AllRanks
  <2>2. TwoPairs(C, v)
    BY <1>1, <1>3, <2>1 DEF TwoPairs
  <2> QED BY <1>1, <2>2, NineAreMade
<1>5. ASSUME NEW w, Makes(C, w), ~Below(w, v) PROVE ~H!Beats(w, v)
  <2>1. TwoPairs(C, w)
    <3>1. \/ StraightFlush(C, w) \/ Four(C, w) \/ Full(C, w) \/ Flush(C, w) \/ Straight(C, w)
          \/ Three(C, w) \/ TwoPairs(C, w)
      <4>1. 2 \in 0 .. 8
        OBVIOUS
      <4> QED BY <1>4, <1>5, <4>1, NotBelow
    <3> QED BY <1>2, <3>1 DEF StraightFlush, Four, Full, Flush, Straight, Three
  <2>2. PICK x \in Pairs(C), y \in Pairs(C), z \in H!Ranks(C) :
          Kind(2, x, x, y, y, z) /\ w = <<2, x, x, y, y, z>>
    BY <2>1 DEF TwoPairs
  <2>3. LineScore(w, 2, x, x, y, y, z) /\ LineScore(v, 2, p, p, q, q, k)
    BY <1>1, <1>2, <1>3, <2>2 DEF LineScore, AreRanks
  <2>4. ~Exceeds(x, x, y, y, z, p, p, q, q, k)
    <3>1. x > y /\ z # x /\ z # y
      BY <2>2 DEF Kind
    <3>2. x \in Int /\ y \in Int /\ z \in Int /\ p \in Int /\ q \in Int /\ k \in Int
      BY <1>2, <1>3, <2>2 DEF AllRanks
    <3>3. x <= p /\ (y # p => y <= q) /\ (z # p /\ z # q => z <= k)
      BY <1>3, <2>2
    <3> QED BY <3>1, <3>2, <3>3 DEF Exceeds
  <2> QED BY <2>3, <2>4, NotExceeded
<1> QED BY <1>1, <1>4, <1>5, BestFromAbove

\* The pair, with the three highest kickers.
LEMMA BestPair ==
  ASSUME NEW C, C \subseteq Cards, StraightFlushes(C) = {}, FlushSuits(C) = {},
         H!Straights(C) = {}, Trips(C) = {}, NEW p, Pairs(C) = {p},
         NEW a, NEW b, NEW c, Leads3(H!Ranks(C) \ {p}, a, b, c)
  PROVE  IsBest(C, <<1, p, p, a, b, c>>)
<1>1. PICK v : v = <<1, p, p, a, b, c>>
  OBVIOUS
<1>2. H!Ranks(C) \subseteq AllRanks /\ Quads(C) = {} /\ p \in Pairs(C) /\ p \in H!Ranks(C)
  BY AtLeastIs
<1>3. /\ a \in H!Ranks(C) /\ a # p /\ \A x \in H!Ranks(C) : x # p => x <= a
      /\ b \in H!Ranks(C) /\ b # p /\ b # a /\ \A x \in H!Ranks(C) : x # p /\ x # a => x <= b
      /\ c \in H!Ranks(C) /\ c # p /\ c # a /\ c # b
      /\ \A x \in H!Ranks(C) : x # p /\ x # a /\ x # b => x <= c
  BY DEF Leads3, Leads2, First
<1>4. Makes(C, v) /\ v[1] = 1
  <2>1. Kind(1, p, p, a, b, c)
    BY <1>2, <1>3 DEF Kind, AllRanks
  <2>2. OnePair(C, v)
    BY <1>1, <1>2, <1>3, <2>1 DEF OnePair
  <2> QED BY <1>1, <2>2, NineAreMade
<1>5. ASSUME NEW w, Makes(C, w), ~Below(w, v) PROVE ~H!Beats(w, v)
  <2>1. OnePair(C, w)
    <3>1. \/ StraightFlush(C, w) \/ Four(C, w) \/ Full(C, w) \/ Flush(C, w) \/ Straight(C, w)
          \/ Three(C, w) \/ TwoPairs(C, w) \/ OnePair(C, w)
      <4>1. 1 \in 0 .. 8
        OBVIOUS
      <4> QED BY <1>4, <1>5, <4>1, NotBelow
    <3>2. ~TwoPairs(C, w)
      <4>1. ~Kind(2, p, p, p, p, p) /\ \A z : ~Kind(2, p, p, p, p, z)
        BY <1>2 DEF Kind, AllRanks
      <4>2. \A x \in Pairs(C) : x = p
        OBVIOUS
      <4> QED BY <4>1, <4>2 DEF TwoPairs
    <3> QED BY <1>2, <3>1, <3>2 DEF StraightFlush, Four, Full, Flush, Straight, Three
  <2>2. PICK x \in H!Ranks(C), y \in H!Ranks(C), z \in H!Ranks(C) :
          Kind(1, p, p, x, y, z) /\ w = <<1, p, p, x, y, z>>
    <3>1. \A x \in Pairs(C) : x = p
      OBVIOUS
    <3> QED BY <2>1, <3>1 DEF OnePair
  <2>3. LineScore(w, 1, p, p, x, y, z) /\ LineScore(v, 1, p, p, a, b, c)
    BY <1>1, <1>2, <1>3, <2>2 DEF LineScore, AreRanks
  <2>4. ~Exceeds(p, p, x, y, z, p, p, a, b, c)
    <3>1. x > y /\ y > z /\ x # p /\ y # p /\ z # p
      BY <2>2 DEF Kind
    <3>2. /\ x \in Int /\ y \in Int /\ z \in Int /\ p \in Int
          /\ a \in Int /\ b \in Int /\ c \in Int
      BY <1>2, <1>3, <2>2 DEF AllRanks
    <3>3. x <= a /\ (y # a => y <= b) /\ (z # a /\ z # b => z <= c)
      BY <1>3, <3>1
    <3> QED BY <3>1, <3>2, <3>3 DEF Exceeds
  <2> QED BY <2>3, <2>4, NotExceeded
<1> QED BY <1>1, <1>4, <1>5, BestFromAbove

\* The five highest ranks.
LEMMA BestHighCard ==
  ASSUME NEW C, C \subseteq Cards, StraightFlushes(C) = {}, FlushSuits(C) = {},
         H!Straights(C) = {}, Pairs(C) = {}, NEW a, NEW b, NEW c, NEW d, NEW e,
         Leads5(H!Ranks(C), a, b, c, d, e)
  PROVE  IsBest(C, <<0, a, b, c, d, e>>)
<1>1. PICK v, R : v = <<0, a, b, c, d, e>> /\ R = H!Ranks(C)
  OBVIOUS
<1>2. R \subseteq AllRanks /\ Quads(C) = {} /\ Trips(C) = {}
  BY <1>1, AtLeastIs
<1>3. a \in R /\ b \in R /\ c \in R /\ d \in R /\ e \in R /\ Kind(0, a, b, c, d, e)
  <2>1. Leads5(R, a, b, c, d, e) /\ Leads3(R, a, b, c) /\ Leads2(R, a, b)
    BY <1>1 DEF Leads5, Leads3
  <2> QED BY <1>2, <2>1, LeadsFall DEF Kind
<1>4. Makes(C, v) /\ v[1] = 0
  <2>1. HighCard(C, v)
    BY <1>1, <1>3 DEF HighCard
  <2> QED BY <1>1, <2>1, NineAreMade
<1>5. ASSUME NEW w, Makes(C, w), ~Below(w, v) PROVE ~H!Beats(w, v)
  <2>1. HighCard(C, w)
    <3>1. \/ StraightFlush(C, w) \/ Four(C, w) \/ Full(C, w) \/ Flush(C, w) \/ Straight(C, w)
          \/ Three(C, w) \/ TwoPairs(C, w) \/ OnePair(C, w) \/ HighCard(C, w)
      BY <1>5, MakesOneOfNine
    <3> QED BY <1>2, <3>1 DEF StraightFlush, Four, Full, Flush, Straight, Three, TwoPairs, OnePair
  <2>2. PICK f \in R, g \in R, h \in R, i \in R, j \in R :
          Kind(0, f, g, h, i, j) /\ w = <<0, f, g, h, i, j>>
    BY <1>1, <2>1 DEF HighCard
  <2>3. LineScore(w, 0, f, g, h, i, j) /\ LineScore(v, 0, a, b, c, d, e)
    BY <1>1, <1>2, <1>3, <2>2 DEF LineScore, AreRanks
  <2>4. ~Exceeds(f, g, h, i, j, a, b, c, d, e)
    BY <1>1, <1>2, <2>2, LeadingAreBest
  <2> QED BY <2>3, <2>4, NotExceeded
<1> QED BY <1>1, <1>4, <1>5, BestFromAbove

-----------------------------------------------------------------------------
(* The rules.                                                              *)

\* The rules, with the names of what they look for.
LEMMA RulesAre ==
  ASSUME NEW C
  PROVE  \E f :
    /\ FlushSuits(C) # {} => f \in FlushSuits(C)
    /\ H!Rules(C) =
       IF StraightFlushes(C) # {} THEN <<8, H!Max(StraightFlushes(C))>>
       ELSE IF Quads(C) # {}
         THEN <<7>> \o H!Repeat(4, H!Max(Quads(C))) \o H!Top(1, H!Ranks(C) \ Quads(C))
       ELSE IF Trips(C) # {} /\ Pairs(C) \ {H!Max(Trips(C))} # {}
         THEN <<6>> \o H!Repeat(3, H!Max(Trips(C)))
                \o H!Repeat(2, H!Max(Pairs(C) \ {H!Max(Trips(C))}))
       ELSE IF FlushSuits(C) # {} THEN <<5>> \o H!Top(5, H!Ranks(H!OfSuit(f, C)))
       ELSE IF H!Straights(C) # {} THEN <<4, H!Max(H!Straights(C))>>
       ELSE IF Trips(C) # {}
         THEN <<3>> \o H!Repeat(3, H!Max(Trips(C))) \o H!Top(2, H!Ranks(C) \ Trips(C))
       ELSE IF Cardinality(Pairs(C)) >= 2
         THEN <<2>> \o H!Repeat(2, H!Top(2, Pairs(C))[1]) \o H!Repeat(2, H!Top(2, Pairs(C))[2])
                \o H!Top(1, H!Ranks(C) \ {H!Top(2, Pairs(C))[1], H!Top(2, Pairs(C))[2]})
       ELSE IF Pairs(C) # {}
         THEN <<1>> \o H!Repeat(2, H!Max(Pairs(C))) \o H!Top(3, H!Ranks(C) \ Pairs(C))
       ELSE <<0>> \o H!Top(5, H!Ranks(C))
<1> DEFINE fl == {s \in 0 .. 3 : H!Cardinality(H!OfSuit(s, C)) >= 5}
           sf == UNION {H!Straights(H!OfSuit(s, C)) : s \in fl}
           f0 == CHOOSE s \in fl : TRUE
           quads == H!AtLeast(4, C)
           trips == H!AtLeast(3, C)
           pairs == H!AtLeast(2, C)
<1>1. H!Rules(C) =
    IF sf # {} THEN <<8, H!Max(sf)>>
    ELSE IF quads # {}
      THEN <<7>> \o H!Repeat(4, H!Max(quads)) \o H!Top(1, H!Ranks(C) \ quads)
    ELSE IF trips # {} /\ pairs \ {H!Max(trips)} # {}
      THEN <<6>> \o H!Repeat(3, H!Max(trips)) \o H!Repeat(2, H!Max(pairs \ {H!Max(trips)}))
    ELSE IF fl # {} THEN <<5>> \o H!Top(5, H!Ranks(H!OfSuit(f0, C)))
    ELSE IF H!Straights(C) # {} THEN <<4, H!Max(H!Straights(C))>>
    ELSE IF trips # {}
      THEN <<3>> \o H!Repeat(3, H!Max(trips)) \o H!Top(2, H!Ranks(C) \ trips)
    ELSE IF H!Cardinality(pairs) >= 2
      THEN <<2>> \o H!Repeat(2, H!Top(2, pairs)[1]) \o H!Repeat(2, H!Top(2, pairs)[2])
             \o H!Top(1, H!Ranks(C) \ {H!Top(2, pairs)[1], H!Top(2, pairs)[2]})
    ELSE IF pairs # {}
      THEN <<1>> \o H!Repeat(2, H!Max(pairs)) \o H!Top(3, H!Ranks(C) \ pairs)
    ELSE <<0>> \o H!Top(5, H!Ranks(C))
  BY Zenon DEF H!Rules
<1>2. fl = FlushSuits(C) /\ (fl # {} => f0 \in fl)
  BY SameCardinality DEF FlushSuits
<1>3. sf = StraightFlushes(C)
  BY <1>2 DEF StraightFlushes
<1>4. H!Cardinality(pairs) = Cardinality(pairs)
  BY SameCardinality
<1>5. quads = Quads(C) /\ trips = Trips(C) /\ pairs = Pairs(C)
  BY DEF Quads, Trips, Pairs
<1> HIDE DEF fl, sf, f0, quads, trips, pairs
<1> WITNESS f0
<1>6. FlushSuits(C) # {} => f0 \in FlushSuits(C)
  BY <1>2
<1> QED BY <1>1, <1>2, <1>3, <1>4, <1>5, <1>6, Zenon

\* What the rules say of seven cards is the best that five of them make.
LEMMA RulesAreBest ==
  ASSUME NEW C, C \subseteq Cards, Cardinality(C) = 7
  PROVE  IsBest(C, H!Rules(C))
<1> DEFINE SF == StraightFlushes(C)
           Q == Quads(C)
           Ts == Trips(C)
           Ps == Pairs(C)
           F == FlushSuits(C)
           S == H!Straights(C)
           R == H!Ranks(C)
<1>1. PICK f :
        /\ F # {} => f \in F
        /\ H!Rules(C) =
             IF SF # {} THEN <<8, H!Max(SF)>>
             ELSE IF Q # {} THEN <<7>> \o H!Repeat(4, H!Max(Q)) \o H!Top(1, R \ Q)
             ELSE IF Ts # {} /\ Ps \ {H!Max(Ts)} # {}
               THEN <<6>> \o H!Repeat(3, H!Max(Ts)) \o H!Repeat(2, H!Max(Ps \ {H!Max(Ts)}))
             ELSE IF F # {} THEN <<5>> \o H!Top(5, H!Ranks(H!OfSuit(f, C)))
             ELSE IF S # {} THEN <<4, H!Max(S)>>
             ELSE IF Ts # {} THEN <<3>> \o H!Repeat(3, H!Max(Ts)) \o H!Top(2, R \ Ts)
             ELSE IF Cardinality(Ps) >= 2
               THEN <<2>> \o H!Repeat(2, H!Top(2, Ps)[1]) \o H!Repeat(2, H!Top(2, Ps)[2])
                      \o H!Top(1, R \ {H!Top(2, Ps)[1], H!Top(2, Ps)[2]})
             ELSE IF Ps # {} THEN <<1>> \o H!Repeat(2, H!Max(Ps)) \o H!Top(3, R \ Ps)
             ELSE <<0>> \o H!Top(5, R)
  BY RulesAre
<1>2. /\ R \subseteq AllRanks /\ Q \subseteq Ts /\ Ts \subseteq Ps /\ Ps \subseteq R
      /\ Q \subseteq AllRanks /\ Ts \subseteq AllRanks /\ Ps \subseteq AllRanks
  BY AtLeastIs
<1>3. SF \subseteq AllRanks /\ S \subseteq AllRanks
  BY DEF StraightFlushes, H!Straights, AllRanks, H!Ace
<1>4. (\A p, q \in Q : p = q) /\ (\A s, t \in F : s = t)
  BY OneQuadOneFlush
<1>5. /\ Cardinality(Ps) >= 2 => \E p, q : Leads2(Ps, p, q)
      /\ ~(Cardinality(Ps) >= 2) => \A p, q \in Ps : p = q
  BY TwoOfThePairs
<1>6. /\ 0 \in Int /\ 1 \in Int /\ 2 \in Int /\ 3 \in Int /\ 5 \in Int /\ 6 \in Int /\ 7 \in Int
      /\ \A x \in AllRanks : x \in Int
  BY DEF AllRanks
<1> HIDE DEF SF, Q, Ts, Ps, F, S, R
<1>7. CASE SF # {}
  <2>1. PICK h : First(SF, h)
    BY <1>3, <1>7, SomeIsFirstRank
  <2>2. H!Rules(C) = <<8, h>>
    <3>1. H!Max(SF) = h
      BY <1>3, <2>1, MaxIsFirst
    <3> QED BY <1>1, <1>7, <3>1
  <2>3. IsBest(C, <<8, h>>)
    BY <2>1, BestStraightFlush DEF SF
  <2> QED BY <2>2, <2>3
<1>8. CASE SF = {} /\ Q # {}
  <2>1. PICK q \in Q : Q = {q}
    BY <1>4, <1>8
  <2>2. PICK k : First(R \ {q}, k)
    BY QuadsHaveAKicker DEF R
  <2>3. H!Rules(C) = <<7, q, q, q, q, k>>
    <3>1. H!Max(Q) = q
      <4>1. First(Q, q)
        BY <1>2, <2>1 DEF First, AllRanks
      <4> QED BY <1>2, <4>1, MaxIsFirst
    <3>2. H!Rules(C) = <<7>> \o H!Repeat(4, q) \o H!Top(1, R \ {q})
      BY <1>1, <1>8, <2>1, <3>1
    <3>3. H!Top(1, R \ {q}) = <<k>> /\ k \in AllRanks
      <4>1. R \ {q} \subseteq AllRanks
        BY <1>2
      <4> QED BY <2>2, <4>1, TopOne
    <3>4. H!Repeat(4, q) = <<q, q, q, q>>
      BY Repeated
    <3>5. q \in Int /\ k \in Int
      BY <1>2, <1>6, <3>3
    <3>6. <<7>> \o <<q, q, q, q>> \o <<k>> = <<7, q, q, q, q, k>>
      BY <1>6, <3>5, JoinFourOne
    <3> QED BY <3>2, <3>3, <3>4, <3>6
  <2>4. IsBest(C, <<7, q, q, q, q, k>>)
    BY <1>8, <2>1, <2>2, BestFour DEF SF, Q, R
  <2> QED BY <2>3, <2>4
<1>9. CASE SF = {} /\ Q = {} /\ Ts # {} /\ Ps \ {H!Max(Ts)} # {}
  <2>1. PICK t : First(Ts, t)
    BY <1>2, <1>9, SomeIsFirstRank
  <2>2. H!Max(Ts) = t /\ t \in Ts
    BY <1>2, <2>1, MaxIsFirst DEF First
  <2>3. Ps \ {t} \subseteq AllRanks /\ Ps \ {t} # {}
    BY <1>2, <1>9, <2>2
  <2>4. PICK p : First(Ps \ {t}, p)
    BY <2>3, SomeIsFirstRank
  <2>5. H!Max(Ps \ {t}) = p /\ p \in Ps
    BY <2>3, <2>4, MaxIsFirst DEF First
  <2>6. H!Rules(C) = <<6, t, t, t, p, p>>
    <3>1. H!Rules(C) = <<6>> \o H!Repeat(3, t) \o H!Repeat(2, p)
      BY <1>1, <1>9, <2>2, <2>5
    <3>2. H!Repeat(3, t) = <<t, t, t>> /\ H!Repeat(2, p) = <<p, p>>
      BY Repeated
    <3>3. t \in Int /\ p \in Int
      BY <1>2, <1>6, <2>2, <2>5
    <3>4. <<6>> \o <<t, t, t>> \o <<p, p>> = <<6, t, t, t, p, p>>
      BY <1>6, <3>3, JoinThreeTwo
    <3> QED BY <3>1, <3>2, <3>4
  <2>7. IsBest(C, <<6, t, t, t, p, p>>)
    BY <1>9, <2>1, <2>4, BestFull DEF SF, Q, Ts, Ps
  <2> QED BY <2>6, <2>7
<1>10. ASSUME ~(Ts # {} /\ Ps \ {H!Max(Ts)} # {})
       PROVE  NoFull(C) /\ (Ts # {} => \E t \in Ts : Ps = {t} /\ Ts = {t} /\ H!Max(Ts) = t)
  <2>1. CASE Ts = {}
    BY <2>1 DEF NoFull, Ts
  <2>2. CASE Ts # {}
    <3>1. PICK t : First(Ts, t)
      BY <1>2, <2>2, SomeIsFirstRank
    <3>2. H!Max(Ts) = t /\ t \in Ts
      BY <1>2, <3>1, MaxIsFirst DEF First
    <3>3. Ps = {t} /\ Ts = {t}
      BY <1>2, <1>10, <2>2, <3>2
    <3>4. NoFull(C)
      BY <3>3 DEF NoFull, Ts, Ps
    <3> QED BY <3>2, <3>3, <3>4
  <2> QED BY <2>1, <2>2
<1>11. CASE SF = {} /\ Q = {} /\ ~(Ts # {} /\ Ps \ {H!Max(Ts)} # {}) /\ F # {}
  <2>1. NoFull(C)
    BY <1>10, <1>11
  <2>2. f \in F /\ F = {f}
    BY <1>1, <1>4, <1>11
  <2>3. PICK a, b, c, d, e : Leads5(H!Ranks(H!OfSuit(f, C)), a, b, c, d, e)
    BY <2>2, FlushHasFiveRanks DEF F
  <2>4. H!Rules(C) = <<5, a, b, c, d, e>>
    <3>1. H!Rules(C) = <<5>> \o H!Top(5, H!Ranks(H!OfSuit(f, C)))
      BY <1>1, <1>11
    <3>2. H!Ranks(H!OfSuit(f, C)) \subseteq AllRanks
      <4>1. H!OfSuit(f, C) \subseteq Cards
        BY DEF H!OfSuit
      <4> QED BY <4>1, AtLeastIs
    <3>3. H!Top(5, H!Ranks(H!OfSuit(f, C))) = <<a, b, c, d, e>>
      BY <2>3, <3>2, TopFive
    <3>4. <<5>> \o <<a, b, c, d, e>> = <<5, a, b, c, d, e>>
      BY Lines
    <3> QED BY <3>1, <3>3, <3>4
  <2>5. IsBest(C, <<5, a, b, c, d, e>>)
    BY <1>11, <2>1, <2>2, <2>3, BestFlush DEF SF, Q, F
  <2> QED BY <2>4, <2>5
<1>12. CASE SF = {} /\ Q = {} /\ ~(Ts # {} /\ Ps \ {H!Max(Ts)} # {}) /\ F = {} /\ S # {}
  <2>1. NoFull(C)
    BY <1>10, <1>12
  <2>2. PICK h : First(S, h)
    BY <1>3, <1>12, SomeIsFirstRank
  <2>3. H!Rules(C) = <<4, h>>
    <3>1. H!Max(S) = h
      BY <1>3, <2>2, MaxIsFirst
    <3> QED BY <1>1, <1>12, <3>1
  <2>4. IsBest(C, <<4, h>>)
    BY <1>12, <2>1, <2>2, BestStraight DEF SF, Q, F, S
  <2> QED BY <2>3, <2>4
<1>13. CASE SF = {} /\ Q = {} /\ ~(Ts # {} /\ Ps \ {H!Max(Ts)} # {}) /\ F = {} /\ S = {} /\ Ts # {}
  <2>1. PICK t \in Ts : Ps = {t} /\ Ts = {t} /\ H!Max(Ts) = t
    BY <1>10, <1>13
  <2>2. PICK a, b : Leads2(R \ {t}, a, b)
    <3>1. Ps \subseteq {t}
      BY <2>1
    <3> QED BY <1>13, <3>1, TripsHaveKickers DEF Q, Ps, R
  <2>3. H!Rules(C) = <<3, t, t, t, a, b>>
    <3>1. H!Rules(C) = <<3>> \o H!Repeat(3, t) \o H!Top(2, R \ {t})
      BY <1>1, <1>13, <2>1
    <3>2. R \ {t} \subseteq AllRanks
      BY <1>2
    <3>3. H!Top(2, R \ {t}) = <<a, b>>
      BY <2>2, <3>2, TopTwo
    <3>4. t \in Int /\ a \in Int /\ b \in Int
      BY <1>2, <1>6, <2>1, <2>2, <3>2, LeadsFall
    <3>5. <<3>> \o <<t, t, t>> \o <<a, b>> = <<3, t, t, t, a, b>>
      BY <1>6, <3>4, JoinThreeTwo
    <3>6. H!Repeat(3, t) = <<t, t, t>>
      BY Repeated
    <3> QED BY <3>1, <3>3, <3>5, <3>6
  <2>4. IsBest(C, <<3, t, t, t, a, b>>)
    BY <1>13, <2>1, <2>2, BestThree DEF SF, Q, F, S, Ts, Ps, R
  <2> QED BY <2>3, <2>4
<1>14. CASE SF = {} /\ Q = {} /\ F = {} /\ S = {} /\ Ts = {} /\ Cardinality(Ps) >= 2
  <2>1. PICK p, q : Leads2(Ps, p, q)
    BY <1>5, <1>14
  <2>2. p \in Ps /\ q \in Ps
    BY <1>2, <2>1, LeadsFall
  <2>3. PICK k : First(R \ {p, q}, k)
    BY <1>14, TwoPairsHaveAKicker DEF Ts, R
  <2>4. H!Rules(C) = <<2, p, p, q, q, k>>
    <3>1. H!Top(2, Ps) = <<p, q>>
      BY <1>2, <2>1, TopTwo
    <3>2. H!Top(2, Ps)[1] = p /\ H!Top(2, Ps)[2] = q
      BY <3>1
    <3>3. H!Rules(C) = <<2>> \o H!Repeat(2, p) \o H!Repeat(2, q) \o H!Top(1, R \ {p, q})
      BY <1>1, <1>14, <3>2
    <3>4. H!Top(1, R \ {p, q}) = <<k>> /\ k \in AllRanks
      <4>1. R \ {p, q} \subseteq AllRanks
        BY <1>2
      <4> QED BY <2>3, <4>1, TopOne
    <3>5. H!Repeat(2, p) = <<p, p>> /\ H!Repeat(2, q) = <<q, q>>
      BY Repeated
    <3>6. p \in Int /\ q \in Int /\ k \in Int
      BY <1>2, <1>6, <2>2, <3>4
    <3>7. <<2>> \o <<p, p>> \o <<q, q>> \o <<k>> = <<2, p, p, q, q, k>>
      BY <1>6, <3>6, JoinTwoTwoOne
    <3> QED BY <3>3, <3>4, <3>5, <3>7
  <2>5. IsBest(C, <<2, p, p, q, q, k>>)
    BY <1>14, <2>1, <2>3, BestTwoPairs DEF SF, F, S, Ts, Ps, R
  <2> QED BY <2>4, <2>5
<1>15. CASE SF = {} /\ Q = {} /\ F = {} /\ S = {} /\ Ts = {} /\ ~(Cardinality(Ps) >= 2) /\ Ps # {}
  <2>1. PICK p \in Ps : Ps = {p}
    BY <1>5, <1>15
  <2>2. PICK a, b, c : Leads3(R \ {p}, a, b, c)
    <3>1. Ps \subseteq {p}
      BY <2>1
    <3> QED BY <1>15, <3>1, PairHasKickers DEF Ts, Ps, R
  <2>3. H!Rules(C) = <<1, p, p, a, b, c>>
    <3>1. H!Max(Ps) = p
      <4>1. First(Ps, p)
        BY <1>2, <2>1 DEF First, AllRanks
      <4> QED BY <1>2, <4>1, MaxIsFirst
    <3>2. H!Rules(C) = <<1>> \o H!Repeat(2, p) \o H!Top(3, R \ {p})
      BY <1>1, <1>15, <2>1, <3>1
    <3>3. R \ {p} \subseteq AllRanks
      BY <1>2
    <3>4. H!Top(3, R \ {p}) = <<a, b, c>>
      BY <2>2, <3>3, TopThree
    <3>5. p \in Int /\ a \in Int /\ b \in Int /\ c \in Int
      <4>1. Leads2(R \ {p}, a, b)
        BY <2>2 DEF Leads3
      <4> QED BY <1>2, <1>6, <2>1, <2>2, <3>3, <4>1, LeadsFall
    <3>6. H!Repeat(2, p) = <<p, p>>
      BY Repeated
    <3>7. <<1>> \o <<p, p>> \o <<a, b, c>> = <<1, p, p, a, b, c>>
      BY <1>6, <3>5, JoinTwoThree
    <3> QED BY <3>2, <3>4, <3>6, <3>7
  <2>4. IsBest(C, <<1, p, p, a, b, c>>)
    BY <1>15, <2>1, <2>2, BestPair DEF SF, F, S, Ts, Ps, R
  <2> QED BY <2>3, <2>4
<1>16. CASE SF = {} /\ Q = {} /\ F = {} /\ S = {} /\ Ts = {} /\ ~(Cardinality(Ps) >= 2) /\ Ps = {}
  <2>1. PICK a, b, c, d, e : Leads5(R, a, b, c, d, e)
    BY <1>16, NoPairHasFiveRanks DEF Ps, R
  <2>2. H!Rules(C) = <<0, a, b, c, d, e>>
    <3>1. H!Rules(C) = <<0>> \o H!Top(5, R)
      BY <1>1, <1>16
    <3>2. H!Top(5, R) = <<a, b, c, d, e>>
      BY <1>2, <2>1, TopFive
    <3>3. <<0>> \o <<a, b, c, d, e>> = <<0, a, b, c, d, e>>
      BY Lines
    <3> QED BY <3>1, <3>2, <3>3
  <2>3. IsBest(C, <<0, a, b, c, d, e>>)
    BY <1>16, <2>1, BestHighCard DEF SF, F, S, Ps, R
  <2> QED BY <2>2, <2>3
<1> QED BY <1>7, <1>8, <1>9, <1>11, <1>12, <1>13, <1>14, <1>15, <1>16

\* Of seven cards, score7 finds what the rules say.
LEMMA Score7IsByTheRules ==
  ASSUME NEW C, C \subseteq Cards, Cardinality(C) = 7
  PROVE  H!Score7(C) = H!Rules(C)
<1>1. Makes(C, H!Rules(C)) /\ \A w : Makes(C, w) => ~H!Beats(w, H!Rules(C))
  BY RulesAreBest DEF IsBest
<1> QED BY <1>1, BestOfSeven

\* The cards of a showdown stay what they are dealt.
Dealt == app = "showdown" => seven \in H!kSubset(7, DECK)

\* The seven cards are cards of the deck, and seven.
LEMMA DealtIsInvariant == Spec => []Dealt
<1>1. Init => Dealt
  BY DEF Init, Dealt, H!Init
<1>2. Dealt /\ [Next]_vars => Dealt'
  BY DEF Dealt, Next, InBlackjack, InPoker, InTicTacToe, vars
<1> QED BY <1>1, <1>2, PTL DEF Spec

\* Whatever the seven cards of a player are, a showdown ranks them by the rules
\* of poker (score5, cmp and score7 of poker.ts).
THEOREM ShowdownsRankByTheRules == Spec => []BestHandIsRight
<1>1. Dealt => BestHandIsRight
  <2> SUFFICES ASSUME app = "showdown", seven \in H!kSubset(7, DECK)
               PROVE  H!Score7(seven) = H!Rules(seven)
    BY DEF Dealt, BestHandIsRight, H!BestHandIsRight
  <2>1. seven \subseteq DECK /\ Cardinality(seven) = 7
    BY SameCardinality DEF H!kSubset
  <2>2. seven \subseteq Cards
    BY <2>1, PokerAssumption DEF Cards
  <2> QED BY <2>1, <2>2, Score7IsByTheRules
<1> QED BY <1>1, DealtIsInvariant, PTL
=============================================================================
