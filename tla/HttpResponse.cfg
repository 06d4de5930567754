SPECIFICATION FairSpec
CONSTANTS
  MaxSize = 4
  Chunk = 2
  SockBuf = 3
  TextLen = 3
  Numbers <- SmallNumbers
  MaxEdits = 1
  Kinds <- AllKinds
\* The process may be killed (Sigpipe) or done: nothing is left to do.
CHECK_DEADLOCK FALSE
INVARIANTS
  TypeOK
  BodySound
  RangeAnswered
PROPERTIES
  WorkerReleased
