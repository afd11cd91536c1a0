SPECIFICATION StoreSpec
CONSTANTS
  h1 = h1
  h2 = h2
  h3 = h3
  k1 = k1
  k2 = k2
  c1 = c1
  c2 = c2
  Hash <- MCPair
  Key <- MCPairKey
  Char <- MCPairKey
  Client <- MCClient
  Writer = Writer
  LineLen <- MCMixed
  HeaderLen = 1
  KeyField = 2
  TimeField = 3
  BUFIOBUFFER = 12
  MaxOffset = 40
  eofhash = eofhash
  NoHash = NoHash
  BadLine = BadLine
  WriterCap = 1
  Faults <- All
  MaxLines = 3
  MaxEntries = 3
  CasePass = CasePass
  CaseDupes = CaseDupes
  CaseRetry = CaseRetry
  CaseAdded = CaseAdded
  NoReply = NoReply
  NoJob = NoJob
  NoObject = NoObject
CHECK_DEADLOCK FALSE
INVARIANTS
  StoreTypeOK
  IndexCoversFile
  NoFalseDupes
  OffsetIsEnd
  CompleteLinesOnly
  FseekFindsLine
PROPERTIES
  AppendOnly
