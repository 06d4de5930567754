SPECIFICATION FairSpec
CONSTANTS
  NWorkers = 2
  QueueSize = 1
  MaxTasks = 1
  MaxSpurious = 0
  CreateMayFail = TRUE
PROPERTY InitFailureReturns
\* A failed thread_pool_init may wait for ever in pthread_join.
CHECK_DEADLOCK FALSE
