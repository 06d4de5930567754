SPECIFICATION FairNumberedSpec
CONSTANTS
  c1 = c1
  c2 = c2
  c3 = c3
  NoClient = NoClient
  NoTask = NoTask
  Clients <- TwoClients
  Long <- OneLong
  NFds = 2
  NWorkers = 2
  QueueSize = 1
  MaxEvents = 2
  Segments = 2
  RegisterMayFail = TRUE
  WaitMayFail = TRUE
  AcceptMayFail = TRUE
INVARIANTS
  TypeOK
  OneHolder
  NoStrandedConnection
PROPERTIES
  ReplyOnce
  EveryRequestConcluded
  UsesTaskPool
