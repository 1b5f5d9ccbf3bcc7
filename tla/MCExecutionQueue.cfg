CONSTANTS
  s1 = s1
  s2 = s2
  Symbols <- MCSymbols
  NoIntent = NoIntent
  Capacity = 1
  TimeoutStreak = 2
  Cooldown = 2
  MaxAge = 1
  MaxIntents = 3
  MaxTime = 4
SPECIFICATION Spec
INVARIANTS
  DepthNeverDrifts
  EveryIntentAccounted
  NoPreTripIntentSent
PROPERTIES
  KillSwitchRecovers
