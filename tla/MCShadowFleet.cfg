CONSTANTS
  c1 = c1
  r1 = r1
  NoRun = NoRun
  Runs = {r1}
  Configs = {c1}
  Config <- MCConfig
  ChurnHold = 1
  Window = 3
  PruneTrades = 2
  PruneLoss = 0
  PruneIdle = 4
  Shrink <- MCShrink
  Unit = 32
  PolicyMinTrades = 40
  PolicyMaxStops <- MCMaxStops
  Books <- MCBooks
  Gaps <- MCGaps
  Offsets = {0, 1}
  MaxTs = 5
  MaxRecomputes = 1
  MaxSwitches = 1
SPECIFICATION Spec
CHECK_DEADLOCK FALSE
INVARIANTS
  EveryCloseReported
  NaturalKeysDiffer
PROPERTIES
  ReportedUnderEntryRun
  NoPositionOutlivesItsHold
