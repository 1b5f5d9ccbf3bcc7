CONSTANTS
  binance = binance  gate = gate  s1 = s1
  Symbols = {s1}
  Exchanges = {binance, gate}
  Configured <- MCConfigured
  Default <- MCDefault
  Skew <- MCSkew
  Jitter = 1
  Window = 2
  RecomputeEvery = 2
  MaxSample = 5
  MaxQuoteAge = 3
  MaxQuoteSkew = 3
  TriggerSpread = 10
  Books <- MCBooks
  Start = 5
  MaxNow = 8
SPECIFICATION LeadLagSpec
INVARIANTS LeaderIsNewer SignalIsTradable
CHECK_DEADLOCK FALSE
