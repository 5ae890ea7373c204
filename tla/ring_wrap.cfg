SPECIFICATION Spec
CONSTANTS
  Record = {f1, f2, f3, f4}
  MaxCount = 2
  IndexMod = 3
  IOErrors = FALSE
  PowerLoss = FALSE
  Zero = Zero
  Bad = Bad
SYMMETRY Symmetry
PROPERTY PushAddsAtEnd
