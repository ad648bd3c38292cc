\* A grab between the two transactions of a restore.
CONSTANTS
  File = {f1, f2}
  NoFile = NoFile
  MaxRows = 1
  MaxForeign = 0
  MaxEdits = 1
  MaxInterrupts = 0
SPECIFICATION Spec
SYMMETRY Symmetry
PROPERTIES
  RestoredIsListed
CHECK_DEADLOCK FALSE
