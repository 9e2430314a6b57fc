SPECIFICATION Spec
CONSTANT Families <- SupportedFamilies
INVARIANTS PlacedWhole NoBackfill ReturnComplete CallNeverPanics
CHECK_DEADLOCK FALSE
