SPECIFICATION Spec
CONSTANTS
  a = a
  z = z
  f = f
  gone = gone
  A = A
  B = B
  NoSpec = NoSpec
  Specs = {a, z, f, gone}
  ByLine = {a, z, gone}
  Clickable = {a, gone}
  Lands <- LandsOn
  Main = a
  Forms <- Entered
  Files = {A, B}
  MaxNumber = 2
  MaxEvents = 2
INVARIANTS
  ListFresh
  SavedSurvives
  ShownIsNamed
PROPERTIES
  FilesKept
  MirrorSpec
CONSTRAINT FewSaved
SYMMETRY Symmetry
CHECK_DEADLOCK FALSE
