SPECIFICATION FairSpec
CONSTANTS
  c1 = c1
  c2 = c2
  c3 = c3
  Clients <- ThreeClients
  MaxClients = 2
  FdLimits <- FewOrEnough
  MaxMessages = 1
  SelectMayFail = TRUE
  NoClient = NoClient
\* The clients may have said all they will and the server may have ended.
CHECK_DEADLOCK FALSE
PROPERTIES EveryClientServed
