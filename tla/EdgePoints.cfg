SPECIFICATION PointSpec
CONSTANTS
  e1 = e1
  e2 = e2
  e3 = e3
  e4 = e4
  Keys = {e1, e2, e3, e4}
  Values = {1, 2, 3, 4, 5, 6}
  Tags = {1, 2, 3}
  HSiz = 1
  HMax = 2
  CellLimit = 6
  GapNum = 1
  GapDen = 2
INVARIANT
  PointsInHash
SYMMETRY EdgeSymmetry
CHECK_DEADLOCK FALSE
