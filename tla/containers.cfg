SPECIFICATION LibSpec
CONSTANTS
  MaxSize = 4
  MaxByte = 8
  Calls = {"rewind", "reset"}
  NumNode = 2
  AnsLen = 2
  MaxReq = 4
  Task = {commTask, otherTask}
  Queue = {sendQueue, sentQueue}
  Buf = {b1, b2, b3}
  Nil = Nil
  SizeMod = 4
CHECK_DEADLOCK FALSE
INVARIANTS
  MbTypeOK
  HoldsArrived
  NoPhantom
  QueuesKeepBuffers
PROPERTIES
  OwnAnswer
  TakenOnce
  FirstMatch
