SPECIFICATION FairSpec
CONSTANTS
  MaxStarts = 1
  MaxLines = 1
  Parts = 2
  MaxTerminal = 2
PROPERTIES
  DeathReported
CHECK_DEADLOCK FALSE
