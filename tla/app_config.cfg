SPECIFICATION FairSpec
CONSTANTS
  NumPiece = 2
  Edit = {"a"}
  MaxReply = 1
  None = None
  Absent = Absent
  Short = Short
INVARIANT TypeOK
PROPERTY Kept
PROPERTY DoneIsStored
PROPERTY RestartFollows
CHECK_DEADLOCK FALSE
