---------------------------- MODULE PokerHands ----------------------------
(***************************************************************************)
(* How poker.ts ranks the hands of a showdown: score5, cmp and score7 of   *)
(* src/src/templates/examples/poker.ts.  A card is 13 * suit + rank, with  *)
(* rank 0 the deuce and rank 12 the ace; a score is a sequence of numbers. *)
(* Operators named X_Y are faulty variants of X that nothing uses.         *)
(***************************************************************************)
EXTENDS Integers, FiniteSets, Sequences, SequencesExt

CONSTANT DECK  \* the cards that are dealt

VARIABLE seven  \* the hole cards of a player and the community cards

Rank(c) == c % 13
Suit(c) == c \div 13
Ace == 12

Count(cards, r) == Cardinality({c \in cards : Rank(c) = r})
Ranks(cards) == {Rank(c) : c \in cards}

\* The ranks of the cards, each card after the cards that go before it.
Sorted(cards, before) ==
  [i \in 1 .. Cardinality(cards) |->
     Rank(CHOOSE c \in cards : Cardinality(before[c]) = i - 1)]

Higher(c, d) == Rank(c) > Rank(d) \/ (Rank(c) = Rank(d) /\ c > d)

Descending(cards) == Sorted(cards, [c \in cards |-> {d \in cards : Higher(d, c)}])

\* The ranks, the most frequent ones first and the higher of equals first.
Outranks(cards, c, d) ==
  LET n == Count(cards, Rank(c))
      m == Count(cards, Rank(d)) IN
  n > m \/ (n = m /\ Higher(c, d))

ByGroup(cards) ==
  Sorted(cards, [c \in cards |-> {d \in cards : Outranks(cards, d, c)}])

StraightHigh_NoWheel(five) ==
  LET ranks == Ranks(five) IN
  IF Cardinality(ranks) = 5 /\ Max(ranks) - Min(ranks) = 4 THEN Max(ranks) ELSE -1

\* The rank a straight of these five cards ends with, or -1; an ace may start one.
StraightHigh(five) ==
  LET ranks == Ranks(five) IN
  IF Cardinality(ranks) = 5 /\ Max(ranks) - Min(ranks) = 4 THEN Max(ranks)
  ELSE IF ranks = {Ace, 3, 2, 1, 0} THEN 3 ELSE -1

Score5(five) ==
  LET flush == Cardinality({Suit(c) : c \in five}) = 1
      straight == StraightHigh(five)
      groups == ByGroup(five)
      counts == [i \in 1 .. 5 |-> Count(five, groups[i])] IN
  CASE flush /\ straight >= 0 -> <<8, straight>>
    [] counts[1] = 4 -> <<7>> \o groups
    [] counts[1] = 3 /\ counts[4] = 2 -> <<6>> \o groups
    [] flush /\ straight < 0 -> <<5>> \o Descending(five)
    [] straight >= 0 /\ ~flush -> <<4, straight>>
    [] counts[1] = 3 /\ counts[4] = 1 /\ ~flush -> <<3>> \o groups
    [] counts[1] = 2 /\ counts[3] = 2 /\ ~flush -> <<2>> \o groups
    [] counts[1] = 2 /\ counts[3] = 1 /\ ~flush -> <<1>> \o groups
    [] OTHER -> <<0>> \o Descending(five)

At(score, i) == IF i <= Len(score) THEN score[i] ELSE 0

\* cmp(a, b) > 0: the first numbers that differ decide.
Beats(a, b) ==
  \E i \in 1 .. Max({Len(a), Len(b)}) :
    At(a, i) > At(b, i) /\ \A j \in 1 .. i - 1 : At(a, j) = At(b, j)

\* The best score of five of the seven cards.
Score7(cards) ==
  LET scores == {Score5(five) : five \in kSubset(5, cards)} IN
  CHOOSE best \in scores : \A other \in scores : ~Beats(other, best)

-----------------------------------------------------------------------------
\* A showdown scores the seven cards of each player, whichever they are.
Init == seven \in kSubset(7, DECK)

-----------------------------------------------------------------------------
(* The rules of poker, read off the seven cards at once.                   *)

Top(n, ranks) == SubSeq(Descending(ranks), 1, n)
AtLeast(n, cards) == {r \in Ranks(cards) : Count(cards, r) >= n}
OfSuit(s, cards) == {c \in cards : Suit(c) = s}
EndsStraight(h, cards) == \A k \in 0 .. 4 : (h - k + 13) % 13 \in Ranks(cards)
Straights(cards) == {h \in 3 .. Ace : EndsStraight(h, cards)}
Repeat(n, r) == [i \in 1 .. n |-> r]

Rules(cards) ==
  LET flushes == {s \in 0 .. 3 : Cardinality(OfSuit(s, cards)) >= 5}
      straightFlush == UNION {Straights(OfSuit(s, cards)) : s \in flushes}
      quads == AtLeast(4, cards)
      trips == AtLeast(3, cards)
      pairs == AtLeast(2, cards)
      Best(ranks) == Max(ranks)
      Others(ranks) == Ranks(cards) \ ranks IN
  IF straightFlush # {} THEN <<8, Best(straightFlush)>>
  ELSE IF quads # {}
    THEN <<7>> \o Repeat(4, Best(quads)) \o Top(1, Others(quads))
  ELSE IF trips # {} /\ pairs \ {Best(trips)} # {}
    THEN <<6>> \o Repeat(3, Best(trips)) \o Repeat(2, Best(pairs \ {Best(trips)}))
  ELSE IF flushes # {}
    THEN <<5>> \o Top(5, Ranks(OfSuit(CHOOSE s \in flushes : TRUE, cards)))
  ELSE IF Straights(cards) # {} THEN <<4, Best(Straights(cards))>>
  ELSE IF trips # {} THEN <<3>> \o Repeat(3, Best(trips)) \o Top(2, Others(trips))
  ELSE IF Cardinality(pairs) >= 2
    THEN LET two == Top(2, pairs) IN
         <<2>> \o Repeat(2, two[1]) \o Repeat(2, two[2]) \o Top(1, Others({two[1], two[2]}))
  ELSE IF pairs # {} THEN <<1>> \o Repeat(2, Best(pairs)) \o Top(3, Others(pairs))
  ELSE <<0>> \o Top(5, Ranks(cards))

\* A showdown scores every player's seven cards as the rules of poker do: the
\* wheel is a straight to the five, of two triples or three pairs the best are
\* taken, and the kickers that decide come from the other cards (score7).
BestHandIsRight == Score7(seven) = Rules(seven)
=============================================================================
