SPECIFICATION FairSpec
CONSTANTS
  k1 = k1
  c1 = c1
  c2 = c2
  Kinds <- MCKinds
  Key <- MCKey
  Caller <- MCCaller
  CacheExpires = 2
  ExtendExpires = 1
  ClearEveryN = 2
  cEvCap = 1
  MaxKnown = 3
  MaxItems = 2
  hash = hash
  eofhash = eofhash
  Absent = Absent
  NoItem = NoItem
  NoCall = NoCall
  Nil = Nil
INVARIANTS
  EntryIsTrue
  KeepsItsTime
  NoOrphan
PROPERTIES
  StaleSetKeepsNewer
  ItemsDelete
