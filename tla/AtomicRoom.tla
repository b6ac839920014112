----------------------------- MODULE AtomicRoom -----------------------------
(***************************************************************************)
(* What the realtime engine of src/src/realtime/coordinator.ts promises:   *)
(* a room is one game, an action a client submitted is decided at most     *)
(* once, on the game as all decisions before left it, and the game is only *)
(* started over when the code of the app has changed.                      *)
(***************************************************************************)
EXTENDS Integers, Sequences

CONSTANTS Moves, Versions

VARIABLES
  game,      \* the actions the state is made of, in order
  version,   \* the code version the state belongs to, 0 before the first
  pending,   \* submitted, not decided
  submitted  \* all actions ever submitted

vars == <<game, version, pending, submitted>>

Init ==
  /\ game = << >>
  /\ version = 0
  /\ pending = {}
  /\ submitted = {}

Submit(move) ==
  /\ move \in Moves \ submitted
  /\ submitted' = submitted \cup {move}
  /\ pending' = pending \cup {move}
  /\ UNCHANGED <<game, version>>

\* The action enters the game, or leaves it as it is.
Decide(move) ==
  /\ move \in pending
  /\ pending' = pending \ {move}
  /\ game' \in {game, Append(game, move)}
  /\ version' \in Versions \cup {version}
  /\ UNCHANGED submitted

\* The app's code changed: the game goes on in it, or starts over.
ChangeCode ==
  /\ version' \in Versions \ {version}
  /\ game' \in {game, << >>}
  /\ UNCHANGED <<pending, submitted>>

\* A restart loses what was not decided, and nothing else.
Lose ==
  /\ pending # {}
  /\ pending' = {}
  /\ UNCHANGED <<game, version, submitted>>

Next ==
  \/ \E move \in Moves : Submit(move) \/ Decide(move)
  \/ ChangeCode
  \/ Lose

Spec == Init /\ [][Next]_vars

=============================================================================
