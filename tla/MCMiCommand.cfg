SPECIFICATION FairSpec
CONSTANTS
  MaxCommands = 3
  MaxRecords = 2
  LinesMayBeUnparsable = TRUE
  GdbMayDie = TRUE
INVARIANTS
  ChannelInv
  NoUnlockedRace
  ResultsAreFreed
  InOrder
PROPERTIES
  CommandReturns
  RecordsHandled
  SyncSpec
CHECK_DEADLOCK FALSE
