SPECIFICATION Spec
CONSTANTS
  Answers <- TwoAnswers
  Sessions <- TwoSessions
  Texts <- SomeTexts
  Capitals <- Letters
  Crosses <- SomeCrosses
  MaxTabs = 2
INVARIANTS
  ChecksTell
  PanelsLive
  FilesShown
  SessionsShown
CHECK_DEADLOCK FALSE
