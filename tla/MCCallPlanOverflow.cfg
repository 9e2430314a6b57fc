SPECIFICATION Spec
CONSTANT Families <- HFAFamily
INVARIANT CallNeverPanics
CHECK_DEADLOCK FALSE
