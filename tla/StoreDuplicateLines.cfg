SPECIFICATION StoreSpec
CONSTANTS
  h1 = h1
  h2 = h2
  h3 = h3
  k1 = k1
  k2 = k2
  c1 = c1
  c2 = c2
  Hash <- MCPair
  Key <- MCPairKey
  Char <- MCPairKey
  Client <- MCClient
  Writer = Writer
  LineLen <- MCShort
  HeaderLen = 1
  KeyField = 2
  TimeField = 3
  BUFIOBUFFER = 9
  MaxOffset = 9
  eofhash = eofhash
  NoHash = NoHash
  BadLine = BadLine
  WriterCap = 1
  Faults <- NoFaults
  MaxLines = 2
  MaxEntries = 2
  CasePass = CasePass
  CaseDupes = CaseDupes
  CaseRetry = CaseRetry
  CaseAdded = CaseAdded
  NoReply = NoReply
  NoJob = NoJob
  NoObject = NoObject
CHECK_DEADLOCK FALSE
INVARIANTS
  NoDuplicateLines
