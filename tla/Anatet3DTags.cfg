SPECIFICATION Spec
CONSTANT Meshes <- OneTet
INVARIANT TagsStored
CHECK_DEADLOCK FALSE
