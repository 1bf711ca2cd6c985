SPECIFICATION LiveSpec
CHECK_DEADLOCK FALSE
CONSTANTS
  w1 = w1  w2 = w2  w3 = w3  w4 = w4
  r1 = r1  r2 = r2  r3 = r3
  p1 = p1  p2 = p2
  Workflows = {w1, w2, w3, w4}
  Requests = {r1, r2, r3}
  RequestOf <- Shared_RequestOf
  PartitionOf <- Shared_PartitionOf
  Workers = {x1, x2}
  GroupSize = 1
  BatchIds = {b1, b2}
  BatchSize = 3
  Unplaceable = {p2}
  Cancellable = {r2}
  Bad = {r3}
INVARIANTS
  WorkersExclusive
  WorkConserved
  AnswersSound
PROPERTIES
  FailureIsolated
  ServerProgress
