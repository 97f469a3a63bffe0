SPECIFICATION WaveSpec
CONSTANTS
  Coords <- SquareCoords
  Faces <- SquareFaces
  Required <- SquareRequired
  NPMax = 9
  NTMax = 9
  MaxOps = 0
  MaxMoves = 0
  Options <- SomeOptions
  MaxIt = 2
  MaxMarks = 2
  MaxPerWalk = 1
INVARIANTS
  WaveTypeOK
  WaveConform
  WaveTagsAgree
  Oriented
  WaveNoOrphan
PROPERTIES
  RegionsKept
  SingularKept
  Terminates
CHECK_DEADLOCK FALSE
