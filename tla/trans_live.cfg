SPECIFICATION FairSpec
CONSTANTS
  Frame = {f1, f2}
  AckReq = {f1, f2}
  Cmd = {}
  None = None
  MaxNumSend = 2
  TimeOutTick = 2
  NumSendMod = 4
  MaxInbox = 1
  Nacks = FALSE
  L1Timeout = TRUE
INVARIANT SendsBounded
PROPERTY SentOrGivenUp
