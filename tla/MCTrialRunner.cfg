CONSTANTS
  c1 = c1  c2 = c2
  Callers = {c1, c2}
  Drivers = {1, 2}
  Cycles = 2
  Requests <- MCRequests
  RefFiles <- MCRefFiles
  Findings <- MCFindings
  ConfigIds = {1}
  RefsCap = 2
  ConfigsCap = 2
  MaxLogs = 2
  MaxHistory = 1
  MaxJobs = 2
  MaxLines = 1
SPECIFICATION RunnerSpec
INVARIANTS OneJobAtATime FinishedLogIsComplete
PROPERTIES StopEndsTheJob ReferencesAccumulate
CHECK_DEADLOCK FALSE
