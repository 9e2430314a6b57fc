SPECIFICATION Spec
CONSTANT Registries <- Dangling
INVARIANT NestedDefined
CHECK_DEADLOCK FALSE
