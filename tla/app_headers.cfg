SPECIFICATION FairSpec
CONSTANTS
  NumTag = 3
  MaxQueued = 2
  MaxRequest = 3
  Uncounted = Uncounted
INVARIANT TypeOK
INVARIANT InOrder
INVARIANT NearTable
PROPERTY StreamEnds
