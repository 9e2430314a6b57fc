SPECIFICATION FairSpec
CONSTANTS
  Goroutines = {g1, g2}
  DLLs = {"d1"}
  Procs = {"p1", "p2"}
  Dll <- MCDll
  NoG = NoG
  NoProc = NoProc
  Nil = Nil
INVARIANTS SameAnswer AnswerMatchesImage AtMostOneLookup NoDataRace
PROPERTIES ResultsAreFinal ImplementsTable EveryCallReturns
