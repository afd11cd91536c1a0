SPECIFICATION FairSpec
CONSTANTS
  r1 = r1
  r2 = r2
  r3 = r3
  Requester <- MCRequester
  MaxPar = 2
  NumCacheDBs = 2
  IndexCaps <- MCCaps
  WorkerCap = 1
  MayClose = TRUE
  Nil = Nil
CHECK_DEADLOCK FALSE
INVARIANTS
  StoppedWorkerDrained
  NilHasRoom
PROPERTIES
  ImplementsService
  EveryQueryAnswered
  IndexStops
