SPECIFICATION RGSpec
CHECK_DEADLOCK FALSE
CONSTANTS
  MaxOps = 4
  FreeOps = 3
INVARIANTS
  AlignedPassesOn
