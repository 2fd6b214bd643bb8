SPECIFICATION MCSpec
CONSTANTS
  Parts = {"sum", "bonds"}
  FullSum = FALSE
  FixedSites = FALSE
  Workers = {w0, w1}
  NCpu = 2
  Structures <- MCStructures
  NoLast = NoLast
  SitesPerCpu = 4
  MaxPath = 2
SYMMETRY Alike
INVARIANTS
  TypesOK
  MergedIsSum
  ListsAllBonds
  PopsWhatItHas
