SPECIFICATION FairSpec
CONSTANTS
  N = 3
  Counts <- MCCounts
INVARIANTS ResultAcyclic OnlyCyclesSevered EmbeddingsKept
PROPERTIES Terminates
CHECK_DEADLOCK FALSE
