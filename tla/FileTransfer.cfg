SPECIFICATION FairSpec
CONSTANTS
  c1 = c1
  c2 = c2
  Clients <- TwoClients
  Commands <- TwoCommands
  Sizes = {0, 2}
  MaxSize = 2
  MaxGrowth = 1
  Plans <- ThreeCommands
  Chunk = 2
  Buffer = 2
  Missing = Missing
  Nobody = Nobody
\* A client and the server may wait for each other for ever.
CHECK_DEADLOCK FALSE
INVARIANTS TypeOK WholeInStep
PROPERTIES EveryDownloadEnds
