----------------------------- MODULE TicTacToe -----------------------------
(***************************************************************************)
(* The tic-tac-toe app of src/src/templates/examples/tictactoe.ts, driven  *)
(* by RoomCoordinator one action at a time.  An action that applyAction    *)
(* returns unchanged is a stuttering step.                                 *)
(* Operators named X_Y are faulty variants of X that no action uses.       *)
(***************************************************************************)
EXTENDS Integers, FiniteSets, FiniteSetsExt

CONSTANTS X, O, None, Draw

Seats == {X, O}
Cells == 0 .. 8
Lines == {{0, 1, 2}, {3, 4, 5}, {6, 7, 8},
          {0, 3, 6}, {1, 4, 7}, {2, 5, 8},
          {0, 4, 8}, {2, 4, 6}}

VARIABLE game

Other(s) == IF s = X THEN O ELSE X

Fresh == [board |-> [c \in Cells |-> None], turn |-> X, winner |-> None]

Owns(board, s, line) == \A c \in line : board[c] = s

Evaluate_FullFirst(board) ==
  IF \A c \in Cells : board[c] # None THEN Draw
  ELSE LET w == {s \in Seats : \E line \in Lines : Owns(board, s, line)} IN
       IF w = {} THEN None ELSE CHOOSE s \in w : TRUE

\* The winner, a draw once the board is full without one, or None.
Evaluate(board) ==
  LET w == {s \in Seats : \E line \in Lines : Owns(board, s, line)} IN
  IF w # {} THEN CHOOSE s \in w : TRUE
  ELSE IF \A c \in Cells : board[c] # None THEN Draw ELSE None

-----------------------------------------------------------------------------
(* applyAction.                                                            *)

Move(s, cell) ==
  /\ game.winner = None
  /\ s = game.turn
  /\ game.board[cell] = None
  /\ LET board == [game.board EXCEPT ![cell] = s] IN
     game' = [board |-> board, turn |-> Other(s), winner |-> Evaluate(board)]

\* Anybody may ask for it, at any time.
Rematch == game' = Fresh

-----------------------------------------------------------------------------

Init == game = Fresh

Next == Rematch \/ \E s \in Seats, cell \in Cells : Move(s, cell)

Spec == Init /\ [][Next]_game

-----------------------------------------------------------------------------
(* Properties.                                                             *)

Marks(s) == {c \in Cells : game.board[c] = s}
Won(s) == \E line \in Lines : line \subseteq Marks(s)

\* The board tells the same story as turn and winner: X is at most one mark
\* ahead and then it is O's turn, no player has a line unless declared the
\* winner, a game won by the last free cell is no draw, and nobody who has won
\* is overtaken (applyAction, evaluate).
BoardIsLegal ==
  /\ game.turn = X <=> Cardinality(Marks(X)) = Cardinality(Marks(O))
  /\ game.turn = O <=> Cardinality(Marks(X)) = Cardinality(Marks(O)) + 1
  /\ \A s \in Seats : Won(s) <=> game.winner = s
  /\ game.winner = Draw <=> Marks(None) = {} /\ ~Won(X) /\ ~Won(O)
=============================================================================
