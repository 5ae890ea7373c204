SPECIFICATION LogSpec
CONSTANTS
  File = {f1, f2}
  PoolSize = 4
  QueueSize = 1
  TableSize = 1
  PowerLoss = FALSE
  Bad = Bad
  LogMin = 2
  MaxMinute = 2
PROPERTY ResentBeforePop
