SPECIFICATION LineSpec
CONSTANTS
  None = None
  Octal <- OctalOf
  Depth = 2
  Width = 2
  Lines <- AllLines
INVARIANTS
  ReadBack
  OwnedOnce
CHECK_DEADLOCK FALSE
