SPECIFICATION Spec
CONSTANTS
  MaxStarts = 2
  MaxLines = 1
  Parts = 2
  MaxTerminal = 2
PROPERTIES
  QuitReachesReaders
CHECK_DEADLOCK FALSE
