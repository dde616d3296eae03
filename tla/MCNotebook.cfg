SPECIFICATION Spec
CONSTANTS
  Files <- MCFiles
  Names <- MCNames
  Normal <- MCNormal
  LastLine = 2
  Places <- MCPlaces
  MaxFilesOpened = 2
  MaxEvents = 1
INVARIANTS
  MarksAreListed
  OpenOnce
  StopInView
  NoArrowLeft
CHECK_DEADLOCK FALSE
