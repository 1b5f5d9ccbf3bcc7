CONSTANTS
  s1 = s1
  r1 = r1
  r2 = r2
  NoRun = NoRun
  Symbols <- MCSymbols
  Runs <- MCRuns
  MaxBatches = 2
  MaxControls = 1
  MaxGrids = 1
  MaxFresh = 1
  MaxOpen = 1
SPECIFICATION Spec
SYMMETRY RunSymmetry
VIEW WithoutCandidates
INVARIANTS
  FleetHasCurrentConfigs
  NoTradesOfReplacedFleet
  ActiveRunIsOpen
