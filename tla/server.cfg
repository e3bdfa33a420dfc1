\* Three connections, two io_context threads, everything may fail.
CONSTANTS
  c1 = c1
  c2 = c2
  c3 = c3
  NoConn = NoConn
  Conns <- MCConns
  IoThreads = 2
  PoolLimit = 2
  MayFail <- MCAllFailures
SPECIFICATION Spec
INVARIANTS
  TypeOK
  NothingOutlivesRouter
  OnlyFailuresDrop
  EnqueueIsWelcome
PROPERTIES
  ImplementsService
  KeepsAccepting
  PooledIsTaken
  EndsWithChain
