SPECIFICATION Spec
CONSTANTS
  Coords <- SquareCoords
  Faces <- SquareFaces
  Required <- SquareRequired
  NPMax = 8
  NTMax = 8
  MaxOps = 5
  MaxMoves = 1
INVARIANTS
  TypeOK
  Conform
  TagsAgree
  Oriented
  NoOrphan
PROPERTIES
  RegionsKept
  SingularKept
  NoNewBridge
CHECK_DEADLOCK FALSE
