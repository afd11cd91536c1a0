SPECIFICATION FairSpec
CONSTANTS
  u1 = u1
  u2 = u2
  u3 = u3
  u4 = u4
  User <- MCUser
  maxOpen = 3
  MaxInit = 2
CHECK_DEADLOCK FALSE
INVARIANTS
  CounterAhead
  ReturnFindsRoom
  NoNilConnection
  ClosePoolReturns
PROPERTIES
  EveryoneServed
