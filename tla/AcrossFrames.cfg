SPECIFICATION Spec
CONSTANTS
  FullSum = FALSE
  FixedSites = FALSE
  NoLast = NoLast
  NoStructure <- MCEmpty
  Structures <- MixedStructures
  Presets = {}
  Configs = {"c1", "c2"}
  Masks <- OneMask
  Unknown = {"Xx"}
  MaxTick = 3
PROPERTY SumAcrossFrames
