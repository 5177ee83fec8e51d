CONSTANTS
  None = None
  b1 = b1
  b2 = b2
  p1 = p1
  p2 = p2
  p3 = p3
  v1 = v1
  r1 = r1
  r2 = r2
  Servers = {b1, b2}
  Publishers = {p1, p2, p3}
  Viewers = {v1}
  Records = {r1, r2}
  address <- MCAddress
  MaxToggles = 1
  MaxStarts = 2
SPECIFICATION Spec
INVARIANTS
  RowsInOrder
  RecorderFollowsStream
  AutoRecordsAll
SYMMETRY MCSymmetry
CHECK_DEADLOCK FALSE
