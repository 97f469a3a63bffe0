SPECIFICATION WaveSpec
CONSTANTS
  Coords <- SquareCoords
  Faces <- SquareFaces
  Required <- SquareRequired
  NPMax = 6
  NTMax = 9
  MaxOps = 0
  MaxMoves = 0
  Options <- SomeOptions
  MaxIt = 2
  MaxMarks = 2
  MaxPerWalk = 1
INVARIANT
  VerticesInUse
CHECK_DEADLOCK FALSE
