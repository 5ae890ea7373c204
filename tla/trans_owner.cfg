SPECIFICATION Spec
CONSTANTS
  Frame = {f1, f2, g}
  AckReq = {f1, f2}
  Cmd = {c}
  None = None
  MaxNumSend = 2
  TimeOutTick = 2
  NumSendMod = 4
  MaxInbox = 1
  Nacks = TRUE
  L1Timeout = TRUE
SYMMETRY Symmetry
INVARIANT TypeOK
INVARIANT OneOwner
INVARIANT WireOwned
INVARIANT GivenUpLast
