SPECIFICATION Spec
CONSTANTS
  Record = {f1, f2, f3, f4, f5, f6}
  MaxCount = 2
  IndexMod = 7
  IOErrors = FALSE
  PowerLoss = TRUE
  Zero = Zero
  Bad = Bad
SYMMETRY Symmetry
INVARIANT TypeOK
PROPERTY RefinesRetryQueue
