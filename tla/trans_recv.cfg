SPECIFICATION FairSpec
CONSTANTS
  pc_port = pc_port
  ui_port = ui_port
  Port = {pc_port, ui_port}
  Patient = {pc_port}
  LastFrame <- MCLastFrame
  DataLen <- MCDataLen
  Hdr = 2
  MaxDLen = 2
  FifoSize = 5
  SeqMod = 2
  MaxTries = 1
  MaxAnswers = 2
  MaxCmds <- MCMaxCmds
  MaxFaults = 1
CHECK_DEADLOCK FALSE
INVARIANTS TypeOK DeliveredInOrder AckMeansDelivered
PROPERTIES Resynchronises
