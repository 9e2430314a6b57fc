SPECIFICATION UpdateSpec
CONSTANTS
  Versions = {1, 2}
  IRNamespaces = {"A", "B"}
  NamespacesOf <- Growing
  FetchFlags = {}
  Killable = TRUE
  MaxSchema = 2
  MaxCommands = 5
INVARIANTS FetchTellsTheTruth CacheIsWinmd
CHECK_DEADLOCK FALSE
