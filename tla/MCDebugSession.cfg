SPECIFICATION FairSpec
CONSTANTS
  SessionTypes <- AllTypes
  MaxSessions = 2
  MaxRecords = 2
  RunMayFail = TRUE
  GdbMayDie = TRUE
INVARIANTS
  CaughtUp
  ViewMatches
  NoHangInSession
PROPERTIES
  FinishedIsFinal
  StopIsShown
CHECK_DEADLOCK FALSE
