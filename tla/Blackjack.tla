----------------------------- MODULE Blackjack -----------------------------
(***************************************************************************)
(* The blackjack app of src/src/templates/examples/blackjack.ts: several   *)
(* players against one dealer.  As with Poker, RoomCoordinator calls its   *)
(* applyAction for one action at a time, and an action that is returned    *)
(* unchanged is a stuttering step.                                         *)
(*                                                                         *)
(* A card is its cardValue, 11 for an ace; a hand counts how many it has   *)
(* of each, for the order in which they came decides nothing.  Drawing may *)
(* give any card: that the two decks run dry is left out.                  *)
(* Operators named X_Y are faulty variants of X that no action uses.       *)
(***************************************************************************)
EXTENDS Integers, FiniteSets, Sequences, SequencesExt

CONSTANTS
  SEATS,      \* the seats of the table, in order
  START,      \* chips a player sits down with
  MIN_BET,
  MAX_HANDS,  \* hands a player may hold after splits
  CARDS,      \* the card values that are dealt
  MaxChips,   \* bound: no new round once somebody has more
  MaxCards,   \* bound: a hand with so many is not hit
  MaxDraws,   \* bound: cards the dealer draws; longer draws are cut off
  None

Ace == 11
DEALER_STANDS_ON == 17

VARIABLE table

Seated(t) == DOMAIN t.players
Hands(t, s) == t.players[s].hands

\* The seats of S in the order of the table.
InOrder(S) ==
  FoldLeft(LAMBDA order, s : IF s \in S THEN Append(order, s) ELSE order, << >>, SEATS)

-----------------------------------------------------------------------------
(* Cards and hands.                                                        *)

Count(cards) == MapThenSumSet(LAMBDA c : cards[c], CARDS)
Hard(cards) == MapThenSumSet(LAMBDA c : cards[c] * (IF c = Ace THEN 1 ELSE c), CARDS)

\* The best total up to 21: one ace may count 11, a second one never can.
HandValue(cards) ==
  LET hard == Hard(cards) IN
  IF (Ace \in CARDS /\ cards[Ace] > 0) /\ hard + 10 <= 21 THEN hard + 10 ELSE hard

IsBlackjack(cards) == Count(cards) = 2 /\ HandValue(cards) = 21

With(cards, c) == [cards EXCEPT ![c] = @ + 1]
Two(c, d) == With(With([x \in CARDS |-> 0], c), d)
FirstTwo == {Two(pair[1], pair[2]) : pair \in CARDS \X CARDS}

MakeHand(cards, bet, fromSplit) ==
  [cards |-> cards, bet |-> bet, done |-> FALSE, busted |-> FALSE,
   fromSplit |-> fromSplit, net |-> 0]

\* The first hand of s that is still played, 0 when the seat is done.
FirstLiveHand(t, s) ==
  LET live == {i \in DOMAIN Hands(t, s) : ~Hands(t, s)[i].done} IN
  IF live = {} THEN 0 ELSE Min(live)

\* The seat k places after s in the order of play; None comes before the first.
After(hand, s, k) ==
  hand[((SelectInSeq(hand, LAMBDA x : x = s) - 1 + k) % Len(hand)) + 1]

NextActor(t, s) ==
  LET playing == {k \in 1 .. Len(t.hand) : FirstLiveHand(t, After(t.hand, s, k)) # 0} IN
  IF playing = {} THEN None ELSE After(t.hand, s, Min(playing))

Focus_Stays(t, s) == [t EXCEPT !.toAct = s]

\* It is the turn of s, on the first of its hands still in play.
Focus(t, s) == [t EXCEPT !.toAct = s, !.players[s].active = FirstLiveHand(t, s)]

-----------------------------------------------------------------------------
(* The dealer and the end of a round.                                      *)

AnyLive(t) ==
  \E s \in ToSet(t.hand) : \E i \in DOMAIN Hands(t, s) : ~Hands(t, s)[i].busted

Bag(seq) == [c \in CARDS |-> Cardinality({i \in DOMAIN seq : seq[i] = c})]

Stands(d) == HandValue(Bag(d)) >= DEALER_STANDS_ON

\* What the dealer can end with, having drawn to 17 from the pair it was dealt.
DealerEnds ==
  [pair \in CARDS \X CARDS |->
     {d \in {pair \o draws : draws \in BoundedSeq(CARDS, MaxDraws)} :
        Stands(d) /\ \A n \in 2 .. Len(d) - 1 : ~Stands(SubSeq(d, 1, n))}]

\* The dealer draws unless every hand is busted.
DealerHands(t) == IF AnyLive(t) THEN DealerEnds[t.dealer] ELSE {t.dealer}

Payout_SplitNatural(hand, dealer) ==
  LET mine == HandValue(hand.cards)
      theirs == HandValue(Bag(dealer))
      natural == IsBlackjack(hand.cards)
      dealerNatural == IsBlackjack(Bag(dealer)) IN
  IF hand.busted THEN 0
  ELSE IF natural /\ ~dealerNatural THEN (hand.bet * 5) \div 2
  ELSE IF dealerNatural /\ ~natural THEN 0
  ELSE IF theirs > 21 \/ mine > theirs THEN hand.bet * 2
  ELSE IF mine = theirs THEN hand.bet
  ELSE 0

Payout(hand, dealer) ==
  LET mine == HandValue(hand.cards)
      theirs == HandValue(Bag(dealer))
      natural == IsBlackjack(hand.cards) /\ ~hand.fromSplit
      dealerNatural == IsBlackjack(Bag(dealer)) IN
  IF hand.busted THEN 0
  ELSE IF natural /\ ~dealerNatural THEN (hand.bet * 5) \div 2
  ELSE IF dealerNatural /\ ~natural THEN 0
  ELSE IF theirs > 21 \/ mine > theirs THEN hand.bet * 2
  ELSE IF mine = theirs THEN hand.bet
  ELSE 0

\* playDealerAndResolve, once the dealer holds d: every hand is paid.
Resolve(t, d) ==
  LET Settled(s) ==
        LET pay == [i \in DOMAIN Hands(t, s) |-> Payout(Hands(t, s)[i], d)] IN
        [t.players[s] EXCEPT
           !.chips = @ + MapThenSumSet(LAMBDA i : pay[i], DOMAIN pay),
           !.hands = [i \in DOMAIN pay |->
                       [Hands(t, s)[i] EXCEPT !.net = pay[i] - Hands(t, s)[i].bet]]]
  IN [t EXCEPT !.players = [s \in Seated(t) |->
                              IF s \in ToSet(t.hand) THEN Settled(s) ELSE t.players[s]],
               !.dealer = d,
               !.dealerReveal = TRUE,
               !.results = HandValue(Bag(d)),
               !.phase = "done",
               !.toAct = None]

\* The tables play can go on with: the turn of next, or the end of the round.
PlayOn(t, next) ==
  IF next # None THEN {Focus(t, next)} ELSE {Resolve(t, d) : d \in DealerHands(t)}

AfterAction(t) ==
  PlayOn(t, IF FirstLiveHand(t, t.toAct) # 0 THEN t.toAct ELSE NextActor(t, t.toAct))

-----------------------------------------------------------------------------
(* applyAction, one action per type.                                       *)

Sit(s) ==
  /\ s \notin Seated(table)
  /\ table' = [table EXCEPT
       !.players = [x \in Seated(table) \cup {s} |->
                      IF x = s THEN [chips |-> START, bet |-> 0, hands |-> << >>, active |-> 1]
                      ELSE table.players[x]],
       !.phase = IF @ = "waiting" THEN "betting" ELSE @]

NewRound_KeepsBets ==
  /\ table.phase = "done"
  /\ \A s \in Seated(table) : table.players[s].chips <= MaxChips
  /\ table' = [table EXCEPT
       !.players = [s \in Seated(table) |->
                      [table.players[s] EXCEPT !.hands = << >>, !.active = 1]],
       !.dealer = << >>, !.dealerReveal = FALSE, !.hand = << >>, !.results = None,
       !.phase = "betting", !.toAct = None]

\* Anybody may ask for it, after a round.
NewRound ==
  /\ table.phase = "done"
  /\ \A s \in Seated(table) : table.players[s].chips <= MaxChips
  /\ table' = [table EXCEPT
       !.players = [s \in Seated(table) |->
                      [table.players[s] EXCEPT !.bet = 0, !.hands = << >>, !.active = 1]],
       !.dealer = << >>, !.dealerReveal = FALSE, !.hand = << >>, !.results = None,
       !.phase = "betting", !.toAct = None]

Bet(s, amount) ==
  /\ table.phase = "betting"
  /\ s \in Seated(table)
  /\ table.players[s].bet = 0
  /\ amount \in MIN_BET .. table.players[s].chips
  /\ table' = [table EXCEPT !.players[s].chips = @ - amount, !.players[s].bet = amount]

\* Anybody may deal; whoever has bet is in.  Naturals are done at once.
Deal ==
  LET betters == InOrder({s \in Seated(table) : table.players[s].bet > 0})
      Dealt(s, cards) ==
        [table.players[s] EXCEPT
           !.hands = <<[MakeHand(cards, table.players[s].bet, FALSE) EXCEPT
                          !.done = IsBlackjack(cards)]>>,
           !.active = 1]
  IN
  /\ table.phase = "betting"
  /\ betters # << >>
  /\ \E up, hole \in CARDS, cards \in [ToSet(betters) -> FirstTwo] :
       LET t == [table EXCEPT
                   !.players = [s \in Seated(table) |->
                                  IF s \in DOMAIN cards THEN Dealt(s, cards[s])
                                  ELSE table.players[s]],
                   !.hand = betters, !.dealer = <<up, hole>>, !.dealerReveal = FALSE,
                   !.results = None, !.phase = "playing"]
       IN table' \in PlayOn(t, NextActor(t, None))

\* The active hand of the seat to act.
Active == Hands(table, table.toAct)[table.players[table.toAct].active]
MayPlay == table.phase = "playing" /\ ~Active.done

SetActive(hand) ==
  [table EXCEPT !.players[table.toAct].hands[table.players[table.toAct].active] = hand]

Hit(c) ==
  /\ MayPlay
  /\ Count(Active.cards) < MaxCards
  /\ LET cards == With(Active.cards, c) IN
     table' \in AfterAction(SetActive([Active EXCEPT !.cards = cards,
                                                     !.busted = HandValue(cards) > 21,
                                                     !.done = HandValue(cards) >= 21]))

Stand ==
  /\ MayPlay
  /\ table' \in AfterAction(SetActive([Active EXCEPT !.done = TRUE]))

Pays(t, s, amount) == [t EXCEPT !.players[s].chips = @ - amount]

Double(c) ==
  LET cards == With(Active.cards, c) IN
  /\ MayPlay
  /\ Count(Active.cards) = 2
  /\ table.players[table.toAct].chips >= Active.bet
  /\ table' \in AfterAction(Pays(SetActive([Active EXCEPT !.cards = cards, !.bet = 2 * @,
                                                          !.busted = HandValue(cards) > 21,
                                                          !.done = TRUE]),
                                 table.toAct, Active.bet))

\* Two cards of one value, v, become two hands with a new card each.
Split(c, d) ==
  LET p == table.players[table.toAct] IN
  /\ MayPlay
  /\ Len(p.hands) < MAX_HANDS
  /\ p.chips >= Active.bet
  /\ \E v \in CARDS :
       /\ Active.cards = Two(v, v)
       /\ LET Half(new) == [MakeHand(Two(v, new), Active.bet, TRUE) EXCEPT
                              !.done = v = Ace \/ HandValue(Two(v, new)) = 21]
              hands == SubSeq(p.hands, 1, p.active - 1) \o <<Half(c), Half(d)>>
                         \o SubSeq(p.hands, p.active + 1, Len(p.hands))
          IN table' \in AfterAction(Pays([table EXCEPT !.players[table.toAct].hands = hands],
                                         table.toAct, Active.bet))

Play == \/ Stand
        \/ \E c \in CARDS : Hit(c) \/ Double(c)
        \/ \E c, d \in CARDS : Split(c, d)

-----------------------------------------------------------------------------
(* What a viewer is shown.                                                 *)

\* Hands are face up; of the dealer only the first card until it plays.
View(t) ==
  [t EXCEPT !.dealer = IF t.dealerReveal THEN @ ELSE [i \in DOMAIN @ |-> IF i = 1 THEN @[i] ELSE None]]

-----------------------------------------------------------------------------

Init ==
  table = [phase |-> "waiting", players |-> << >>, dealer |-> << >>, dealerReveal |-> FALSE,
           hand |-> << >>, toAct |-> None, results |-> None]

Next ==
  \/ \E s \in ToSet(SEATS) : Sit(s) \/ \E amount \in MIN_BET .. MaxChips : Bet(s, amount)
  \/ NewRound
  \/ Deal
  \/ Play

vars == table

Spec == Init /\ [][Next]_vars

-----------------------------------------------------------------------------
(* Properties.                                                             *)

StakeOf(t, s) ==
  CASE t.phase = "betting" -> t.players[s].bet
    [] t.phase = "playing" -> MapThenSumSet(LAMBDA i : Hands(t, s)[i].bet, DOMAIN Hands(t, s))
    [] OTHER -> 0
Wealth(t, s) == t.players[s].chips + StakeOf(t, s)
Won(t, s) == MapThenSumSet(LAMBDA i : Hands(t, s)[i].net, DOMAIN Hands(t, s))

\* What a seat owns, chips and stakes together, changes only when a round ends
\* and then by what its hands won or lost: bets, doubles, splits and new rounds
\* never make or lose a chip, and stake none that the seat does not have.
StakesAreSettledOnce ==
  [][\A s \in Seated(table) :
       /\ table'.players[s].chips >= 0
       /\ Wealth(table', s) - Wealth(table, s) =
            IF table.phase # "done" /\ table'.phase = "done" THEN Won(table', s) ELSE 0]_vars

\* What the cards can add up to, each ace as 1 or as 11.
Totals(cards) ==
  LET hard == Hard(cards)
      aces == IF Ace \in CARDS THEN cards[Ace] ELSE 0
  IN {hard + 10 * k : k \in 0 .. aces}

\* The rank of a hand by the rules of the game: its best total up to 21; a natural
\* is above any other 21, and a bust below everything.
Rank(cards, fromSplit) ==
  LET fit == {n \in Totals(cards) : n <= 21} IN
  CASE fit = {} -> -1
    [] Count(cards) = 2 /\ 21 \in fit /\ ~fromSplit -> 22
    [] OTHER -> Max(fit)

PaidByTheRules(h, dealer) ==
  LET mine == Rank(h.cards, h.fromSplit)
      theirs == Rank(Bag(dealer), FALSE) IN
  /\ (mine = -1 \/ mine < theirs) => h.net = -h.bet
  /\ (mine # -1 /\ mine = theirs) => h.net = 0
  /\ mine > theirs => h.net = IF mine = 22 THEN (3 * h.bet) \div 2 ELSE h.bet

\* After a round every hand has won exactly what its rank against the dealer's
\* pays: naturals 3 to 2, and none of two cards that a split left; ties nothing;
\* a bust loses even when the dealer busts.
HandsArePaidByTheRules ==
  table.phase = "done" =>
    \A s \in Seated(table) : \A i \in DOMAIN Hands(table, s) :
      PaidByTheRules(Hands(table, s)[i], table.dealer)

\* Nobody can tell the dealer's second card before the dealer plays: whatever it
\* is, every viewer is shown the same.
HoleCardIsHidden ==
  table.phase = "playing" =>
    \A c \in CARDS : View([table EXCEPT !.dealer[2] = c]) = View(table)
=============================================================================
