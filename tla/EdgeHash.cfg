SPECIFICATION Spec
CONSTANTS
  e1 = e1
  e2 = e2
  e3 = e3
  e4 = e4
  Keys = {e1, e2, e3, e4}
  Values = {1, 2}
  Tags = {1, 2, 3}
  HSiz = 1
  HMax = 2
  CellLimit = 6
  GapNum = 1
  GapDen = 2
INVARIANTS
  TypeOK
  ChainsApart
  UnusedCells
PROPERTY
  MapOK
SYMMETRY EdgeSymmetry
CHECK_DEADLOCK FALSE
