SPECIFICATION Spec
CONSTANT Registries <- AllRegistries
INVARIANTS NothingUndefined GoMatchesC SkippedExactly DescriptorIsABI
CHECK_DEADLOCK FALSE
