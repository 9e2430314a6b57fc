SPECIFICATION Spec
CONSTANT Registries <- FloatUnions
INVARIANT FloatUnionsByRule
CHECK_DEADLOCK FALSE
