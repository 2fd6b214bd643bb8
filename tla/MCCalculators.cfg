SPECIFICATION MCSpec
CONSTANTS
  Components = {"ticker", "pdf", "debye", "parts", "data"}
  None = None
  NoLast = NoLast
  Value = value
  Config = {own, other}
  NoArchive = NoArchive
  Largest = 1
  MaxFirst = 1
  MaxRestarts = 1
  Types <- MCTypes
  Aliases = {"X", "N"}
  RadiationType <- MCRadiationType
  Generations = 2
  Calculators = {p, d}
  PDFs = {p}
  KindOf <- MCKindOf
  Standard <- MCStandard
  Atom = "C"
  Sources = {"O", "Zz"}
  NoValue = NoValue
  Values = {8}
  Slopes = {5}
  Epsilon = 1
  One = 8
  MaxEdits = 3
  NoDigit = NoDigit
INVARIANTS
  TypesOK
  GridIsSum
  ResultsFitGrids
  FreshSumIsSum
  ReadsInside
  TypesKnowThemselves
  FreshConfig
  AttributesResolve
  PathIsCurrent
  TornTablesAreRight
  TablesResolveAlike
PROPERTIES
  ClickIsNoticed
  StaleStaysStale
