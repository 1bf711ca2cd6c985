SPECIFICATION LiveSpec
CHECK_DEADLOCK FALSE
CONSTANTS
  MaxLives = 3
  MaxFailures = 2
  RecoveryAttempts = 2
INVARIANTS
  RecordsAgree
PROPERTIES
  CompletedStays
  JobSettles
