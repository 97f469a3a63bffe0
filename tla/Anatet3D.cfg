SPECIFICATION Spec
CONSTANT Meshes <- AllMeshes
INVARIANTS
  TypeOK
  Filled
  FacesMatch
  PointsInUse
  BoundaryKept
  TagsInherited
  OrientationKept
  RefusalsEnd
PROPERTY
  CutAsSimulated
CHECK_DEADLOCK FALSE
