SPECIFICATION FairSpec
CONSTANTS
  tracks = 2
  Policies <- MCPolicies
  MaxAttempts = 2
  MaxCSeq = 8
  MaxWire = 2
  MaxFaults = 3
INVARIANTS
  OneCallThenNone
  AnswerOwed
PROPERTIES
  GetsThere
CHECK_DEADLOCK FALSE
