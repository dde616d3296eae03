SPECIFICATION Spec
CONSTANTS
  Files <- MCFiles
  Names <- MCNames
  Normal <- MCNormal
  LastLine = 2
  Places <- MCPlaces
  MaxFilesOpened = 2
  MaxEvents = 1
INVARIANTS
  OldestCloses
CHECK_DEADLOCK FALSE
