\* The timer reports no request while one is complete.
CONSTANTS
  IoThreads = 1
  Deadline <- MCDeadline
  OthersThrow = FALSE
SPECIFICATION Spec
PROPERTIES
  TimeoutMeansNoRequest
