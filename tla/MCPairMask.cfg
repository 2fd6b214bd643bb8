SPECIFICATION MaskSpec
CONSTANTS
  AtomTypes = {"C", "O"}
  All = "all"
  Indices = {0, 1}
  Structures <- MCStructures
INVARIANTS
  MaskTypeOK
  FreshMaskIsUsed
  TypeMaskIsSpread
PROPERTIES
  LastWordIsKept
  EvaluationKeepsMasks
