SPECIFICATION LiveSpec
CHECK_DEADLOCK FALSE
CONSTANTS
  t1 = t1  t2 = t2  m1 = m1  m2 = m2
  Tasks = {t1, t2}
  Members = {m1, m2}
  OwnedBy <- Coalesced_OwnedBy
  Retries = 2
  MaxTransient = 3
INVARIANTS
  NothingLeftRunning
  OutputsComplete
PROPERTIES
  RunEnds
