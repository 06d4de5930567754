SPECIFICATION FairSpec
CONSTANTS
  c1 = c1
  c2 = c2
  c3 = c3
  NoClient = NoClient
  Clients <- ThreeClients
  Long <- Nobody
  NFds = 1
  NWorkers = 1
  QueueSize = 1
  MaxEvents = 1
  Segments = 1
  RegisterMayFail = FALSE
  WaitMayFail = FALSE
  AcceptMayFail = FALSE
\* The clients may all have left, or wait behind the edge for ever.
CHECK_DEADLOCK FALSE
PROPERTIES
  EveryConnectionAccepted
