SPECIFICATION MCSpec
CONSTANTS
  FullSum = FALSE
  FixedSites = FALSE
  NoLast = NoLast
  NoStructure <- MCEmpty
  Structures <- MixedStructures
  Presets <- CarelessPresets
  Configs = {"c1", "c2"}
  Masks <- OneMask
  Unknown = {"Xx"}
  MaxTick = 3
INVARIANTS
  TypesOK
  FreshValueIsSum
PROPERTIES
  EvalYieldsSum
