SPECIFICATION MCSpec
CONSTANTS
  c1 = c1
  c2 = c2
  c3 = c3
  h1 = h1
  h2 = h2
  Clients <- TwoClients
  Versions <- BothVersions
  Chunk = 2
  MaxEvents = 2
  MaxSends = 3
  Faults <- AllFaults
  Listen = Listen
  Hosts <- TwoHosts
  HostOf <- OnOneEach
  Ports <- TwoPorts
  Portings <- OneOrTwo
  MaxLines <- TwoAndOne
  MaxDoubled <- EchoDouble
  Peers <- ThreeClients
  MaxClients = 2
  FdLimits <- FewOrEnough
  MaxMessages = 1
  SelectMayFail = TRUE
  NoClient = NoClient
\* The clients may stop sending and the servers may have ended.
CHECK_DEADLOCK FALSE
INVARIANTS TypesOK NeverBlocksNorForgets InStep NeverMisled
PROPERTIES EveryoneServed
