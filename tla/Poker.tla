------------------------------- MODULE Poker -------------------------------
(***************************************************************************)
(* The Texas Hold'em app of src/src/templates/examples/poker.ts: its       *)
(* applyAction is called by RoomCoordinator, one action at a time, with    *)
(* the seat of the sender.                                                 *)
(*                                                                         *)
(* Cards are left out: a showdown may rank the hands in any way (how it    *)
(* does is in PokerHands).  An action that applyAction returns unchanged   *)
(* is a stuttering step.                                                   *)
(* Operators named X_Y are faulty variants of X that no action uses.       *)
(***************************************************************************)
EXTENDS Integers, FiniteSets, Sequences, SequencesExt

CONSTANTS
  SEATS,      \* the seats of the table, in order
  START,      \* chips a player sits down with
  SB, BB,     \* the blinds
  None

VARIABLE state

Streets == {"preflop", "flop", "turn", "river"}
NextStreet == [preflop |-> "flop", flop |-> "turn", turn |-> "river"]

Seated(t) == DOMAIN t.players

\* The seats of S in the order of the table.
InOrder(S) ==
  FoldLeft(LAMBDA order, s : IF s \in S THEN Append(order, s) ELSE order, << >>, SEATS)

InHand(t) == ToSet(t.hand)
InHandSeats(t) == {s \in InHand(t) : ~t.players[s].folded}

-----------------------------------------------------------------------------
(* Whose turn it is.                                                       *)

CanActNow(t, s) ==
  /\ s \in InHand(t)
  /\ ~t.players[s].folded
  /\ ~t.players[s].allIn
  /\ t.players[s].chips > 0

NeedsToAct(t, s) ==
  /\ CanActNow(t, s)
  /\ ~t.players[s].acted \/ t.players[s].bet < t.currentBet

\* The seat k places after s in a sequence of seats that may lack s.
After(seats, s, k) ==
  seats[((SelectInSeq(seats, LAMBDA x : x = s) - 1 + k) % Len(seats)) + 1]

NextActor_NoWrap(t, s) ==
  LET behind == Len(t.hand) - SelectInSeq(t.hand, LAMBDA x : x = s)
      waiting == {k \in 1 .. behind : NeedsToAct(t, After(t.hand, s, k))} IN
  IF waiting = {} THEN None ELSE After(t.hand, s, Min(waiting))

\* The first seat after s that needs to act, at last s itself.
NextActor(t, s) ==
  LET waiting == {k \in 1 .. Len(t.hand) : NeedsToAct(t, After(t.hand, s, k))} IN
  IF waiting = {} THEN None ELSE After(t.hand, s, Min(waiting))

FirstActor(t, s) == IF NeedsToAct(t, s) THEN s ELSE NextActor(t, s)

-----------------------------------------------------------------------------
(* How a betting round and a hand end.                                     *)

ResetRound(t) ==
  [t EXCEPT !.players = [s \in Seated(t) |->
                           IF s \in InHand(t)
                           THEN [t.players[s] EXCEPT !.bet = 0, !.acted = FALSE]
                           ELSE t.players[s]],
            !.currentBet = 0,
            !.minRaise = BB]

\* The hand is over: the pot goes to the seats of share.
Pay(t, share) ==
  [t EXCEPT !.players = [s \in Seated(t) |->
                           IF s \in DOMAIN share
                           THEN [t.players[s] EXCEPT !.chips = @ + share[s]]
                           ELSE t.players[s]],
            !.pot = 0,
            !.phase = "showdown",
            !.toAct = None]

AwardFold_Shows(t, winner) == Pay([t EXCEPT !.reveal = TRUE], [s \in {winner} |-> t.pot])

\* Everybody else folded: the winner need not show.
AwardFold(t, winner) == Pay([t EXCEPT !.reveal = FALSE], [s \in {winner} |-> t.pot])

Split_LosesRemainder(t, winners) ==
  Pay(t, [s \in winners |-> t.pot \div Cardinality(winners)])

\* Equal shares; the first winner of the hand's order has the remainder too.
Split(t, winners) ==
  LET n == Cardinality(winners)
      first == t.hand[SelectInSeq(t.hand, LAMBDA s : s \in winners)] IN
  Pay([t EXCEPT !.reveal = TRUE],
      [s \in winners |-> (t.pot \div n) + (IF s = first THEN t.pot % n ELSE 0)])

\* doShowdown, for each way the hands may rank.
DoShowdown(t) == {Split(t, w) : w \in (SUBSET InHandSeats(t)) \ {{}}}

\* The next street, when two players can still bet; otherwise the board is
\* run out to the showdown, with the same outcome on each street.
Progress(t) ==
  IF t.phase = "river" THEN DoShowdown(t)
  ELSE IF Cardinality({s \in InHand(t) : CanActNow(t, s)}) < 2 THEN DoShowdown(ResetRound(t))
  ELSE LET next == [ResetRound(t) EXCEPT !.phase = NextStreet[t.phase]] IN
       {[next EXCEPT !.toAct = FirstActor(next, After(t.hand, t.button, 1))]}

\* The tables an action can lead to once its bet is made.
AfterAction(t) ==
  LET live == InHandSeats(t)
      next == NextActor(t, t.toAct) IN
  IF Cardinality(live) = 1 THEN {AwardFold(t, s) : s \in live}
  ELSE IF next # None THEN {[t EXCEPT !.toAct = next]}
  ELSE Progress(t)

-----------------------------------------------------------------------------
(* Starting a hand.                                                        *)

PostBlind(t, s, amount) ==
  LET paid == Min({amount, t.players[s].chips}) IN
  [t EXCEPT !.players[s].chips = @ - paid,
            !.players[s].bet = paid,
            !.players[s].allIn = (t.players[s].chips = paid),
            !.pot = @ + paid]

Dealt(player) ==
  [player EXCEPT !.folded = FALSE, !.allIn = FALSE, !.bet = 0, !.acted = FALSE]

\* startHand, for two or more participants.
StartHand(t, participants) ==
  LET button == After(participants, t.button, 1)
      headsUp == Len(participants) = 2
      sb == IF headsUp THEN button ELSE After(participants, button, 1)
      bb == After(participants, sb, 1)
      dealt == [t EXCEPT !.players = [s \in Seated(t) |->
                                        IF s \in ToSet(participants) THEN Dealt(t.players[s])
                                        ELSE t.players[s]],
                         !.pot = 0, !.hand = participants, !.button = button,
                         !.reveal = FALSE]
      table == [PostBlind(PostBlind(dealt, sb, SB), bb, BB)
                  EXCEPT !.currentBet = BB, !.minRaise = BB, !.phase = "preflop"] IN
  [table EXCEPT !.toAct = FirstActor(table, After(participants, bb, 1))]

-----------------------------------------------------------------------------
(* applyAction.                                                            *)

Sit(s) ==
  /\ s \notin Seated(state)
  /\ state' = [state EXCEPT !.players = [x \in Seated(state) \cup {s} |->
       IF x = s THEN [chips |-> START, bet |-> 0, folded |-> FALSE,
                      allIn |-> FALSE, acted |-> FALSE]
       ELSE state.players[x]]]

Start ==
  LET participants == InOrder({s \in Seated(state) : state.players[s].chips > 0}) IN
  /\ state.phase \in {"waiting", "showdown"}
  /\ Len(participants) >= 2
  /\ state' = StartHand(state, participants)

\* It is the turn of s.
MayBet(s) ==
  /\ state.phase \in Streets
  /\ s = state.toAct
  /\ ~state.players[s].folded
  /\ ~state.players[s].allIn

Bet_NeverAllIn(s, amount) ==
  [state EXCEPT !.players[s].chips = @ - amount,
                !.players[s].bet = @ + amount,
                !.players[s].acted = TRUE,
                !.pot = @ + amount]

\* The table once s has put amount more into the pot.
Bet(s, amount) ==
  [state EXCEPT !.players[s].chips = @ - amount,
                !.players[s].bet = @ + amount,
                !.players[s].allIn = (state.players[s].chips = amount),
                !.players[s].acted = TRUE,
                !.pot = @ + amount]

Fold(s) ==
  /\ MayBet(s)
  /\ state' \in AfterAction([state EXCEPT !.players[s].folded = TRUE,
                                          !.players[s].acted = TRUE])

Check(s) ==
  /\ MayBet(s)
  /\ state.players[s].bet = state.currentBet
  /\ state' \in AfterAction([state EXCEPT !.players[s].acted = TRUE])

\* A player short of the bet goes all-in.
Call(s) ==
  LET need == state.currentBet - state.players[s].bet IN
  /\ MayBet(s)
  /\ need > 0
  /\ state' \in AfterAction(Bet(s, Min({need, state.players[s].chips})))

\* Raising to amount.  An amount that takes all the chips may be less than
\* the minimal raise, and even less than the bet.
Raise(s, amount) ==
  LET chips == state.players[s].chips
      allIn == amount - state.players[s].bet >= chips
      target == IF allIn THEN state.players[s].bet + chips ELSE amount
      paid == Bet(s, target - state.players[s].bet) IN
  /\ MayBet(s)
  /\ amount > state.players[s].bet
  /\ allIn \/ amount >= state.currentBet + state.minRaise
  /\ state' \in AfterAction(
       IF target <= state.currentBet THEN paid
       ELSE [paid EXCEPT !.minRaise = target - state.currentBet,
                         !.currentBet = target,
                         !.players = [x \in Seated(paid) |->
                            IF x # s /\ CanActNow(paid, x)
                            THEN [paid.players[x] EXCEPT !.acted = FALSE]
                            ELSE paid.players[x]]])

-----------------------------------------------------------------------------
(* view: whose hole cards are turned up for the viewer in seat me.         *)

View(t, me) ==
  {s \in Seated(t) :
     \/ s = me
     \/ t.phase = "showdown" /\ t.reveal /\ s \in InHandSeats(t)}

-----------------------------------------------------------------------------

AllChips == START * Len(SEATS)

Init ==
  state = [phase |-> "waiting", players |-> << >>, hand |-> << >>, pot |-> 0,
           currentBet |-> 0, minRaise |-> BB, toAct |-> None, button |-> None,
           reveal |-> FALSE]

Act(s) ==
  \/ Fold(s)
  \/ Check(s)
  \/ Call(s)
  \/ \E amount \in 1 .. AllChips : Raise(s, amount)

Next ==
  \/ \E s \in ToSet(SEATS) : Sit(s) \/ Act(s)
  \/ Start

Spec == Init /\ [][Next]_state

-----------------------------------------------------------------------------
(* Properties.                                                             *)

\* Blinds, bets, all-ins, split pots and remainders neither make nor lose a
\* chip: what the players have and the pot add up to what they sat down with.
ChipsAreConserved ==
  /\ SumFunction([s \in Seated(state) |-> state.players[s].chips]) + state.pot
       = START * Cardinality(Seated(state))
  /\ \A s \in Seated(state) : state.players[s].chips >= 0

\* Nobody in the hand has bet more than the others are asked for, and a player
\* is marked all-in exactly when no chips are left (applyAction).
BetsAreCovered ==
  state.phase \in Streets =>
    \A s \in InHand(state) : /\ state.players[s].bet <= state.currentBet
                             /\ state.players[s].allIn <=> state.players[s].chips = 0

\* A street ends only when each of the others in the hand has answered the
\* bet, or has no chips to (nextActor, afterAction, progress).
StreetsEndAnswered ==
  [][state.phase \in Streets /\ state'.phase # state.phase /\ Cardinality(InHandSeats(state')) > 1
       => \A s \in InHandSeats(state) \ {state.toAct} :
            \/ state.players[s].allIn
            \/ state.players[s].acted /\ state.players[s].bet = state.currentBet]_state

\* Another player's hole cards are turned up only when two players or more went
\* to the showdown, and then only theirs: neither folding, nor winning because
\* the others folded, nor having been left out of the hand shows any (view).
OnlyTheShowdownShows ==
  \A me \in Seated(state) : \A s \in View(state, me) \ {me} :
    /\ state.phase = "showdown"
    /\ s \in InHandSeats(state) /\ Cardinality(InHandSeats(state)) > 1
=============================================================================
