SPECIFICATION FairSpec
CONSTANTS
  h1 = h1
  h2 = h2
  c1 = c1
  c2 = c2
  Hash <- MCHash
  Client <- MCClient
  L1CacheExpires = 2
  MaxQueue = 3
  CasePass = CasePass
  CaseDupes = CaseDupes
  CaseAdded = CaseAdded
  Absent = Absent
  NoAnswer = NoAnswer
  NoHash = NoHash
  NoItem = NoItem
INVARIANTS
  OneHolder
  KnownUntilExpiry
PROPERTIES
  AddedExpires
