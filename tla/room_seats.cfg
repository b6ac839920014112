CONSTANTS
  ann = ann
  bob = bob
  X = X
  O = O
  flat = flat
  deep = deep
  m1 = m1
  m2 = m2
  None = None
  Conns = {1, 2, 3, 4}
  Token <- WithEditor
  Spectators = {4}
  Moves = {m1}
  Versions = {1, 2}
  Shape <- NewShape
  SeatNames <- OtherSeats
  HasView = {1}
  Migrates = {1, 2}
  MaxQueue = 3
  PromoteAt <- BetweenTurns
  FaultsAt = {}
  Rejects = FALSE
  Crashes = FALSE
SPECIFICATION Spec
INVARIANT SeatsAreBound QuietClientsSeeState
