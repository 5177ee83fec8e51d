SPECIFICATION HistorySpec
CONSTANTS
  Null = Null
  Missing = Missing
  None = None
  c1 = c1
  c2 = c2
  r = r
  live = live
  one = one
  two = two
  home = home
  away = away
  Ids = {c1, c2, r}
  Relays = {r}
  PathOf <- PathOfSession
  AddressOf <- AddressOfSession
  Docs <- Rows
  Changes = {}
  Filters = {}
  Partitions = {0}
  PartitionOf <- InOneFile
  Requests <- Queries
  PageSizes = {2}
  Walks <- OneByOne
  Cap = 2
  MaxBatch = 0
  MaxOps = 4
  MaxTime = 3
  MaxRuns = 2
SYMMETRY MCSymmetry
INVARIANTS
  PagesMissNothing
  ClientsRecorded
CHECK_DEADLOCK FALSE
