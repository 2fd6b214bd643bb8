SPECIFICATION MCSpec
CONSTANTS
  Parts = {"bonds"}
  FullSum = FALSE
  FixedSites = FALSE
  Workers = {w0, w1}
  NCpu = 2
  Structures <- MCStructures
  NoLast = NoLast
  SitesPerCpu = 4
  MaxPath = 2
INVARIANT WorkersPopWhatTheyHave
