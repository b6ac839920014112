------------------------- MODULE MCRoomCoordinator -------------------------
(* Model values for the runs of RoomCoordinator.                           *)
EXTENDS RoomCoordinator, TLC

CONSTANTS ann, bob, X, O, flat, deep, m1, m2

\* Slots 1 and 2 are ann's and bob's; slot 3 is ann's second tab, 4 an editor.
TwoPlayers == <<ann, bob>>
WithEditor == <<ann, bob, ann, ann>>

NewShape == (1 :> flat @@ 2 :> deep)
\* An app that declares no seats has spectators only.
SeatOrNone == (1 :> <<X>> @@ 2 :> << >>)
OneSeat == [v \in {1, 2} |-> <<X>>]
OtherSeats == (1 :> <<X, O>> @@ 2 :> <<O>>)

\* Actions are told apart, not looked at.
MoveSymmetry == Permutations(Moves)

BetweenTurns == {"queued", "project"}
BetweenOrProbing == {"queued", "probe", "project"}
SandboxCalls == {"seats", "seed", "probe", "migrate", "reprobe", "reset",
                 "reduce", "project"}
\* Not during a refresh: between turns, or while a reducer or a view runs.
AppRuns == {"queued", "reduce", "project"}
AnyTime == {"queued"} \cup SandboxCalls
\* The app's own handlers: its reducer and its view.
AppCalls == {"reduce", "project"}
=============================================================================
