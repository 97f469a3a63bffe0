SPECIFICATION Spec
CONSTANTS
  NPoint = 1
  NTria = 1
  NPMax = 5
  NTMax = 5
  PointBytes = 3
  TriaBytes = 2
  AdjaBytes = 1
  MetBytes = 1
  MemMax = 35
  GapNum = 1
  GapDen = 2
  Int32Limit = 9
  MaxPoint = 6
  MaxTria = 5
  MaxCalls = 2
INVARIANT
  NextIdFree
CHECK_DEADLOCK FALSE
