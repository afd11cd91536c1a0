SPECIFICATION FairSpec
CONSTANTS
  Object = {o1, o2}
  Malformed = {}
  TCPchanQ = 2
  Modes = {"tcp"}
  Retries = {0}
  MaxPut = 1
  MaxFault = 0
  CaseAdded = CaseAdded
  CaseDupes = CaseDupes
  Refused = Refused
  Banner = Banner
  ReadError = ReadError
  NoAnswer = NoAnswer
  NilObject = NilObject
  NoObject = NoObject
PROPERTY ServerAnswers
CHECK_DEADLOCK FALSE
