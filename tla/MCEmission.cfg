SPECIFICATION FairSpec
CONSTANTS
  Namespaces = {"A", "B", "C"}
  Metadatas <- Evolving
  Filters <- AllOrSome
  MaxRuns = 3
  None = None
INVARIANTS SelfCleaning ImportsExist NoImportCycle
PROPERTIES OnlyItsOwn RunEnds
CHECK_DEADLOCK FALSE
