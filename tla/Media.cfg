CONSTANTS
  None = None
  Foreign = Foreign
  c1 = c1
  c2 = c2
  v1 = v1
  Configs = {c1, c2}
  Viewers = {v1}
  GopLimit = 2
  MaxTime = 1
  MaxPackets = 5
  MaxConnections = 3
  MaxRefused = 1
SPECIFICATION Spec
INVARIANTS
  ViewersInStep
  JoinersCanPlay
  Timeline
SYMMETRY MCSymmetry
CHECK_DEADLOCK FALSE
