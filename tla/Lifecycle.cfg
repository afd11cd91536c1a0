SPECIFICATION FairSpec
CONSTANTS
  h1 = h1
  h2 = h2
  c1 = c1
  c2 = c2
  His <- MCHis
  History = h1
  Client <- MCClient
  WriterCap = 1
  IndexCap = 2
  WorkerCap = 1
  MaxInit = 2
  Limits <- MCLimits
  Nil = Nil
CHECK_DEADLOCK FALSE
INVARIANTS
  TypeOK
  LinesBehindHeader
  OffsetIsSize
PROPERTIES
  ClosedIsFlushed
  CallsReturn
  CloseEnds
