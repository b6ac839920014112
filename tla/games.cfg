SPECIFICATION FairSpec
CONSTANTS
  P1 = P1
  P2 = P2
  P3 = P3
  None = None
  SEATS <- ThreeSeats
  TABLE <- TwoSeats
  START = 4
  MIN_BET = 2
  MAX_HANDS = 2
  CARDS = {10, 11}
  MaxChips = 4
  MaxCards = 4
  MaxDraws = 3
  SB = 1
  BB = 2
  X = X
  O = O
  Draw = Draw
  DECK <- SmallDeck
INVARIANTS
  HandsArePaidByTheRules
  ChipsAreConserved
  BetsAreCovered
  BestHandIsRight
  CardsStayHidden
  BoardIsLegal
PROPERTIES
  StakesAreSettledOnce
  StreetsEndAnswered RoundsEnd
CHECK_DEADLOCK FALSE
