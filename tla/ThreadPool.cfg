SPECIFICATION FairSpec
CONSTANTS
  NWorkers = 3
  QueueSize = 2
  MaxTasks = 5
  MaxSpurious = 1
  CreateMayFail = TRUE
\* A failed thread_pool_init may wait for ever in pthread_join.
CHECK_DEADLOCK FALSE
INVARIANTS
  TypeOK
  TasksAccounted
  NoLostWakeup
  QuietWhenReturned
PROPERTIES
  ImplementsTaskPool
  CallsReturn
