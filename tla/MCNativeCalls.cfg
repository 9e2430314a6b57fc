SPECIFICATION FairSpec
CONSTANTS
  Goroutines = {g1, g2}
  MaxCalls = 3
  MaxFrames = 3
  MaxMoves = 1
  Routes <- MCRoutes
  None = None
INVARIANTS FrameExclusive CalleeSeesItsCall OwnResult WritesReachGo
PROPERTIES EveryCallEnds
CHECK_DEADLOCK FALSE
