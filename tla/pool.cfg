\* Growth from one to three workers, thread creation may fail.
CONSTANTS
  t1 = t1
  t2 = t2
  t3 = t3
  NoTask = NoTask
  Tasks <- MCTasks
  Priority <- MCPriority
  ThreadCount = 1
  MaxThreads = 3
  SpawnMayFail = TRUE
SPECIFICATION Spec
INVARIANTS
  TypeOK
  ActiveCount
  NoLostWakeup
  DrainedOnDestroy
PROPERTIES
  AcceptedTasksRun
  DestroyTerminates
  ImplementsTaskPool
