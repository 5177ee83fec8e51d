CONSTANTS
  None = None
  Other = Other
  Relays = {s1, s2}
  Clients = {c1, c2, c3, c4}
  reconnect = TRUE
  maxReconnectAttempts = 2
  MaxStarts = 2
SPECIFICATION Spec
INVARIANTS
  HoldsWhileConnected
  NeverIdle
  TaskLifetime
SYMMETRY MCSymmetry
CHECK_DEADLOCK FALSE
