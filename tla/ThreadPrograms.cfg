SPECIFICATION MCSpec
CONSTANTS
  Producers = {p1, p2}
  Consumers = {k1, k2, k3}
  Items = 2
  MaxSpurious = 1
  Threads = {t1, t2}
  Rounds = 2
  Programs = {"counter", "queue"}
  MaxFailures = 1
  Free = Free
  Builds = {"ros", "sim"}
  MaxStarts = 2
  MaxPosted = 2
  MaxSignals = 1
  Size = 3
  Buf = 2
  Sources = {"pipe", "file"}
  Faults = {"read", "write"}
INVARIANTS
  TypesOK
  NothingLost
  CopiedInOrder
  HeldWhileUsed
PROPERTIES
  EveryoneReturns
