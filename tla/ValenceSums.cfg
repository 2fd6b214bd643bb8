SPECIFICATION MCSpec
CONSTANTS
  Parts = {"valence"}
  Nil = Nil
  NoDigit = NoDigit
  MaxIndex = 8
  MaxRadius = 14
  MaxSkips = 30000
  Grid = 16
  Kinds = {"atomic", "periodic", "crystal"}
  L <- MCL
  MaxDiagonal = 6
  Positions <- MCPositions
  MaxAtoms = 2
  SymOps <- MCSymOps
  Precisions = {0, 4}
  Radii <- MCRadii
INVARIANT SumsAreValences
