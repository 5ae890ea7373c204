SPECIFICATION FairSpec
CONSTANTS
  Socket <- MCSocket
  OtherMax = 1
  Blocks = 2
  QueueMax = 1
  MaxDrops = 1
CHECK_DEADLOCK FALSE
INVARIANT TypeOK
INVARIANT SocketsOwned
INVARIANT SentToPeer
INVARIANT BlocksAccounted
PROPERTY ReconnectsUnlessLeaked
