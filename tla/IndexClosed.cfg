SPECIFICATION Spec
CONSTANTS
  r1 = r1
  r2 = r2
  r3 = r3
  Requester <- MCRequester
  MaxPar = 1
  NumCacheDBs = 2
  IndexCaps <- MCSmall
  WorkerCap = 1
  MayClose = TRUE
  Nil = Nil
CHECK_DEADLOCK FALSE
INVARIANTS
  NoSendOnClosed
