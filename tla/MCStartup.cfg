CONSTANTS
  Sockets <- MCSockets
  Symbols = {1, 2, 3}
  Capacity <- MCCapacity
  RegistryMax = 3
  MaxBackoff = 1
  MaxQuotes = 3
  MaxFailures = 2
  Replies <- MCReplies
  MinVolume = 1
  Fallback = {1}
  Blacklist = {1}
  MaxStrategy = 1
  MaxScreener = 2
  HftCore = FALSE
  PerSocket = 1
  MaxIds = 2
SPECIFICATION Spec
INVARIANTS SubscriptionsSurvive
PROPERTIES SubscribedSymbolsAreFed BookIsLatest
CHECK_DEADLOCK FALSE
