SPECIFICATION Spec
CONSTANT Inputs <- AllInputs
INVARIANTS
  TypeOK
  SidesApart
  Conform
  Manifold
CHECK_DEADLOCK FALSE
