---------------------------- MODULE ExampleApps ----------------------------
(***************************************************************************)
(* The games among the templates of src/src/templates/registry.ts: a room  *)
(* is created with one of them, and only that one is played in it.  Poker  *)
(* comes in two parts: a table that is played at, where a showdown ranks   *)
(* the hands in any way, and one showdown of which all cards are known.    *)
(***************************************************************************)
EXTENDS Integers, FiniteSets, SequencesExt

CONSTANTS
  SEATS, START, None,                          \* of both card games
  MIN_BET, MAX_HANDS, CARDS,                   \* of blackjack
  MaxChips, MaxCards, MaxDraws,                \* bounds of blackjack
  TABLE,                                       \* the seats of its table
  SB, BB, DECK,                                \* of poker and its showdown
  X, O, Draw                                   \* of tic-tac-toe

ASSUME BlackjackAssumption ==
  /\ MIN_BET \in 1 .. START
  /\ MAX_HANDS \in Nat \ {0}
  /\ CARDS \subseteq 2 .. 11
  /\ MaxDraws \in Nat
  /\ TABLE \in Seq(ToSet(TABLE))
  /\ None \notin ToSet(TABLE) \cup Int

ASSUME PokerAssumption ==
  /\ BB \in Nat /\ SB \in 1 .. BB
  /\ START \in Nat /\ START > SB + BB
  /\ SEATS \in Seq(ToSet(SEATS))
  /\ None \notin ToSet(SEATS)
  /\ DECK \subseteq 0 .. 51

ASSUME TicTacToeAssumption == Cardinality({X, O, None, Draw}) = 4

VARIABLES app, table, state, seven, game

B == INSTANCE Blackjack WITH SEATS <- TABLE
P == INSTANCE Poker
H == INSTANCE PokerHands
T == INSTANCE TicTacToe

templates == {"blackjack", "poker", "showdown", "tictactoe"}

Init ==
  /\ app \in templates
  /\ B!Init /\ P!Init /\ T!Init
  /\ IF app = "showdown" THEN H!Init ELSE seven = {}

InBlackjack(A) == app = "blackjack" /\ A /\ UNCHANGED <<app, state, seven, game>>
InPoker(A) == app = "poker" /\ A /\ UNCHANGED <<app, table, seven, game>>
InTicTacToe(A) == app = "tictactoe" /\ A /\ UNCHANGED <<app, table, state, seven>>

Next == InBlackjack(B!Next) \/ InPoker(P!Next) \/ InTicTacToe(T!Next)

vars == <<app, table, state, seven, game>>

\* Whoever is to act plays in the end: there is no clock in the code, so this is
\* what the players are asked for.
Fairness ==
  WF_vars(InBlackjack(B!Play) \/ InPoker(\E s \in ToSet(SEATS) : P!Act(s)))

Spec == Init /\ [][Next]_vars

FairSpec == Spec /\ Fairness

-----------------------------------------------------------------------------
(* The properties of the games, stated in their modules.                   *)

\* Naturals win 3 to 2, other hands even money by their best total, ties nothing,
\* and busts always lose (applyAction, playDealerAndResolve).
HandsArePaidByTheRules == app = "blackjack" => B!HandsArePaidByTheRules

\* Stakes are settled when a round ends, and by what the hands won
\* (playDealerAndResolve).
StakesAreSettledOnce == B!StakesAreSettledOnce

\* At no table of poker are chips made or lost (postBlind, applyAction,
\* doShowdown).
ChipsAreConserved == app = "poker" => P!ChipsAreConserved

\* Bets of poker are covered by the bet that was raised to (applyAction).
BetsAreCovered == app = "poker" => P!BetsAreCovered

\* Nobody is left out when a street of poker ends (afterAction, progress).
StreetsEndAnswered == P!StreetsEndAnswered

\* A showdown ranks the hands by the rules (score7).
BestHandIsRight == app = "showdown" => H!BestHandIsRight

\* Neither the dealer's second card nor the cards of a player of poker who need
\* not show them can be told (the view of blackjack.ts and of poker.ts).
CardsStayHidden ==
  /\ app = "blackjack" => B!HoleCardIsHidden
  /\ app = "poker" => P!OnlyTheShowdownShows

\* Board, turn and winner of tic-tac-toe tell the same story (applyAction).
BoardIsLegal == app = "tictactoe" => T!BoardIsLegal

\* Rounds of blackjack and hands of poker end when the players play, whatever they
\* play: raises and draws are bounded by the chips and by 21 (afterAction, progress).
RoundsEnd ==
  (table.phase = "playing" \/ state.phase \in P!Streets)
    ~> (table.phase = "done" \/ state.phase = "showdown")
=============================================================================
