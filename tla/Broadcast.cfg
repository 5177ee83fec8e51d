CONSTANTS
  r1 = r1
  r2 = r2
  f1 = f1
  f2 = f2
  p1 = p1
  b1 = b1
  b2 = b2
  None = None
  Servers = {b1, b2}
  Rtmp = {r1, r2}
  Flv = {f1, f2}
  Push = {p1}
  address <- MCAddress
  PublishAuth = TRUE
  PlayAuth = TRUE
  MaxCommands = 1
SPECIFICATION FairSpec
INVARIANTS
  FollowsConnections
  EndedExactlyOnce
  StatsSpanReconnects
  RegistryInOrder
PROPERTIES
  KeepsPublication
  EverythingEnds
CHECK_DEADLOCK FALSE
