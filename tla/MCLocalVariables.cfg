SPECIFICATION Spec
CONSTANTS
  Frames <- MCFrames
  Locals <- MCLocals
  Paths <- MCPaths
  Creatable <- MCCreatable
  MaxIds = 8
  MaxEvents = 3
INVARIANTS
  OneMeaning
  ListOfOneGdb
  ShowsSelectedFrame
  MembersLive
PROPERTIES
  NoMemberLeft
CHECK_DEADLOCK FALSE
