SPECIFICATION Spec
CONSTANTS
  None = None
  Lines <- MCLines
  MaxLines = 4
  SeqRange = 8
  GapLimit = 3
  TsRange = 16
  FirstSeq = 6
  FirstTs = 14
  Configs = {1, 2}
  MaxParts = 3
  MaxBurst = 3
  MaxPackets = 6
  MaxMissed = 2
  MaxTime = 2
INVARIANTS
  SectionsApart
  WholeIfInStep
  FragmentsComeBack
  UnderItsHeader
  ExactClock
CHECK_DEADLOCK FALSE
