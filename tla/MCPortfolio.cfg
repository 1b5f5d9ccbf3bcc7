CONSTANTS
  A = A  B = B
  blank = blank
  Configured <- MCConfigured
  Blank = blank
  DefaultIds <- MCDefaults
  Symbols = {1, 2}
  ShortlistSize = 1
  MaxActive = 1
  MinAge = 0
  MinClosed = 0
  FastStreak = 2
  FastWindow = 0
  LongStreak = 3
  CooldownTime = 2
  RebalanceInterval = 1
  HistoryCap = 2
  Outcomes <- MCOutcomes
  MaxHold = 1
  MaxNow = 2
  MaxEvents = 3
  MaxResets = 1
SPECIFICATION PortfolioSpec
INVARIANTS NoOverlap SettledIsDurable
PROPERTIES CooldownRespected PaperFollowsTheEntry
CHECK_DEADLOCK FALSE
