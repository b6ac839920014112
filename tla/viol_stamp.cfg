CONSTANTS
  ann = ann
  bob = bob
  X = X
  O = O
  flat = flat
  deep = deep
  m1 = m1
  m2 = m2
  None = None
  Conns = {1, 2}
  Token <- TwoPlayers
  Spectators = {}
  Moves = {m1, m2}
  Versions = {1, 2}
  Shape <- NewShape
  SeatNames <- OneSeat
  HasView = {1}
  Migrates = {}
  MaxQueue = 3
  PromoteAt <- AppRuns
  FaultsAt = {}
  Rejects = FALSE
  Crashes = FALSE
SPECIFICATION Spec
INVARIANT RoomMatchesLiveCode
