SPECIFICATION LogFairSpec
CONSTANTS
  File = {f1, f2, f3}
  PoolSize = 4
  QueueSize = 1
  TableSize = 1
  PowerLoss = TRUE
  Bad = Bad
  LogMin = 2
  MaxMinute = 2
INVARIANT LogTypeOK
INVARIANT OnePlace
INVARIANT OneLogAMinute
INVARIANT DueIsLogged
PROPERTY PostedIsHandled
