CONSTANTS
  ann = ann
  bob = bob
  X = X
  O = O
  flat = flat
  deep = deep
  m1 = m1
  m2 = m2
  None = None
  Conns = {1, 2}
  Token <- TwoPlayers
  Spectators = {}
  Moves = {m1}
  Versions = {1, 2}
  Shape <- NewShape
  SeatNames <- OneSeat
  HasView = {1}
  Migrates = {}
  MaxQueue = 2
  PromoteAt <- BetweenOrProbing
  FaultsAt <- AppCalls
  Rejects = FALSE
  Crashes = TRUE
SPECIFICATION FairSpec
PROPERTY EveryHandlerEnds EveryJoinIsWelcomed
