SPECIFICATION FairSpec
CONSTANTS
  Object = {o1, o2}
  Malformed = {o2}
  TCPchanQ = 2
  Modes = {"tcp", "unix"}
  Retries = {0, 1}
  MaxPut = 2
  MaxFault = 2
  CaseAdded = CaseAdded
  CaseDupes = CaseDupes
  Refused = Refused
  Banner = Banner
  ReadError = ReadError
  NoAnswer = NoAnswer
  NilObject = NilObject
  NoObject = NoObject
INVARIANTS AnswerIsOwn HandedAsAsked LostPerConnection
PROPERTY AnsweredUnlessStuck
CHECK_DEADLOCK FALSE
