\* Two io_context threads, either of which another session may end.
CONSTANTS
  IoThreads = 2
  Deadline <- MCDeadline
  OthersThrow = TRUE
SPECIFICATION Spec
INVARIANTS
  TypeOK
  OnlyDeadlineDropsReply
  ClosedBeforeRelease
  OnlyTimerSharesSocket
PROPERTIES
  LateExpirySparesResponse
  SessionEnds
  ImplementsExchange
