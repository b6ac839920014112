CONSTANTS
  ann = ann
  bob = bob
  X = X
  O = O
  flat = flat
  deep = deep
  m1 = m1
  m2 = m2
  None = None
  Conns = {1, 2}
  Token <- TwoPlayers
  Spectators = {}
  Moves = {m1, m2}
  Versions = {1, 2}
  Shape <- NewShape
  SeatNames <- SeatOrNone
  HasView = {1}
  Migrates = {1}
  MaxQueue = 2
  PromoteAt <- AnyTime
  FaultsAt <- SandboxCalls
  Rejects = TRUE
  Crashes = TRUE
SPECIFICATION Spec
INVARIANT TypeOK
PROPERTY ImplementsAtomicRoom StampsFit
SYMMETRY MoveSymmetry
