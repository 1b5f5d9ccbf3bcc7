CONSTANTS
  s1 = s1
  s2 = s2
  Symbols <- MCSymbols
  Ids <- MCIds
  Lowest <- MCLowest
  Highest <- MCHighest
  DefaultSettings <- MCDefaultSettings
  BatchIds <- MCBatchIds
  DefaultPoints <- MCDefaultPoints
  Files <- MCFiles
  Precision = 2
  ConfigCap = 2
  ResetCap = 1
  MaxBatches = 1
  MaxEdits = 1
  MaxFresh = 1
SPECIFICATION Spec
SYMMETRY SymbolSymmetry
INVARIANTS
  UnscopedPatchesConverge
  TradedConfigsAreDurable
  GenerationSamplesItsGrid
PROPERTIES
  PatchTouchesItsScope
