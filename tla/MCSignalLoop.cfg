CONSTANTS
  NumSymbols = 5
  WordBits = 2
  Budget = 3
SPECIFICATION SignalSpec
INVARIANTS
  BacklogNeverOverstated
PROPERTIES
  EveryMarkedChecked
