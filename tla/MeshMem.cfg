SPECIFICATION OneCall
CONSTANTS
  NPoint = 2
  NTria = 1
  NPMax = 4
  NTMax = 4
  PointBytes = 3
  TriaBytes = 2
  AdjaBytes = 1
  MetBytes = 1
  MemMax = 34
  GapNum = 1
  GapDen = 2
  Int32Limit = 5
  MaxPoint = 6
  MaxTria = 6
  MaxCalls = 1
INVARIANTS
  TypeOK
  Budget
  PackedDense
  VertexListOK
  TriaListOK
PROPERTIES
  VertexIds
  TriaIds
CHECK_DEADLOCK FALSE
