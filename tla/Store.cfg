CONSTANTS
  None = None
  Files = {f1, f2}
  MaxVersion = 2
  MaxFailures = 1
  MaxStarts = 2
  MaxCalls = 2
SPECIFICATION FairSpec
INVARIANTS
  ChangesInSight
  WholeFiles
  SavedIsKept
PROPERTIES
  NothingGoesBack
  Saved
CHECK_DEADLOCK FALSE
