\* Two rounds and another task, one to two workers; the loop may stop at
\* the bound, and the model stops where the code's behaviour is undefined.
CONSTANTS
  r1 = r1
  r2 = r2
  t1 = t1
  NoTask = NoTask
  Tasks <- MCTasks
  Priority <- MCPriority
  Rounds <- MCRounds
  ThreadCount = 1
  MaxThreads = 2
  SpawnMayFail = TRUE
SPECIFICATION IdleSpec
CHECK_DEADLOCK FALSE
INVARIANTS
  PeriodicTypeOK
  AtMostOneLate
  UnfinishedWereReported
  OnlyLateIsLost
  OnlyPopMisleadsIdle
PROPERTIES
  LoopEnds
