SPECIFICATION Spec
CONSTANTS
  Winmds <- AllWinmds
  Export <- MCExport
  Rank <- MCRank
  IID <- MCIID
  CloserName <- MCCloserName
  Procs = "Procs"
  None = None
INVARIANTS DeclaredOnce NoSilentLoss NamesKept SlotsMatchWinmd ClosersCallFunctions
CHECK_DEADLOCK FALSE
