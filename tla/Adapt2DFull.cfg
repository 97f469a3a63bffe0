SPECIFICATION Spec
CONSTANTS
  Coords <- SquareCoords
  Faces <- SquareFaces
  Required <- SquareRequired
  NPMax = 8
  NTMax = 8
  MaxOps = 5
  MaxMoves = 1
INVARIANT
  ConformMesh
CHECK_DEADLOCK FALSE
