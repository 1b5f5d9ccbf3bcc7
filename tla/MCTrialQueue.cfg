CONSTANTS
  MaxSubs = 2
  Takeover = {2}
  Immovable = {1}
  MaxCrashes = 1
SPECIFICATION Spec
CHECK_DEADLOCK FALSE
INVARIANTS
  RunEndsWithClient
PROPERTIES
  Implements
  StaleNeverApplied
  QueueDrains
