SPECIFICATION FairSpec
CONSTANTS
  MaxStarts = 2
  MaxLines = 2
  Parts = 3
  MaxTerminal = 1
INVARIANTS
  SessionInv
  WholeLines
PROPERTIES
  QuitReachesReader
  LinesArrive
  TerminateReturns
CHECK_DEADLOCK FALSE
