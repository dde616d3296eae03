SPECIFICATION Spec
CONSTANTS
  Names = {"a", "b"}
  NoName = ""
  Marks = {"m"}
  NoPath = "none"
INVARIANTS
  ListFresh
  NamesFound
PROPERTIES
  OthersKept
