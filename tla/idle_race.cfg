\* isIdle answers true about a pool that was never idle.
CONSTANTS
  r1 = r1
  r2 = r2
  t1 = t1
  NoTask = NoTask
  Tasks <- MCTasks
  Priority <- MCPriority
  Rounds <- MCRounds
  ThreadCount = 1
  MaxThreads = 2
  SpawnMayFail = FALSE
SPECIFICATION IdleSpec
CHECK_DEADLOCK FALSE
INVARIANTS
  IdleMeansIdle
