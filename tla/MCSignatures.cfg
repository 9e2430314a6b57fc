SPECIFICATION Spec
CONSTANT Sources <- AllSources
INVARIANTS NamesDeclared WordsAreTheirs DispatchCarries ReturnKept
CHECK_DEADLOCK FALSE
