SPECIFICATION Spec
CONSTANTS
  Null = Null
  Missing = Missing
  Ids = {"a", "b", "c"}
  Docs <- Versions
  Changes <- Versions
  Filters <- Olds
  Partitions = {0, 1}
  PartitionOf <- Placed
  Cap = 2
  MaxBatch = 2
  MaxOps = 3
INVARIANTS
  UnmarkedIsSaved
  CapHolds
PROPERTIES
  OldestGoFirst
CHECK_DEADLOCK FALSE
