--------------------------- MODULE MCExampleApps ---------------------------
(* The tables and the deck of the run of ExampleApps.                      *)
EXTENDS ExampleApps

CONSTANTS P1, P2, P3

ThreeSeats == <<P1, P2, P3>>
TwoSeats == <<P1, P2>>

\* The ace to the five of spades, four aces, three deuces, a pair of threes and the
\* six, the jack and the queen of other suits: its sevens end as every kind of hand
\* from high card to straight flush, with wheels and higher straights, two triples
\* and three pairs among them.
SmallDeck == {0, 1, 2, 3, 12, 13, 14, 17, 22, 25, 26, 38, 49, 51}
=============================================================================
