SPECIFICATION Spec
CONSTANTS
  Record = {f1, f2, f3, f4}
  MaxCount = 2
  IndexMod = 8
  IOErrors = TRUE
  PowerLoss = TRUE
  Zero = Zero
  Bad = Bad
SYMMETRY Symmetry
INVARIANT HeadersConsistent
INVARIANT PoppedNeverBack
PROPERTY PushSparesCounted
