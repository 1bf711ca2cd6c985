SPECIFICATION LiveSpec
CONSTANTS
  MaxRounds = 3
  MaxFailures = 1
INVARIANTS
  RoundsInOrder
  CancelHolds
  RunSettled
PROPERTIES
  RunEnds
