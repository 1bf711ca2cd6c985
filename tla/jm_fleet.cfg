SPECIFICATION LiveSpec
CONSTANTS
  w1 = w1  w2 = w2  w3 = w3  w4 = w4
  j1 = j1  j2 = j2  j3 = j3
  u1 = u1  u2 = u2  u3 = u3
  pA = pA  pB = pB
  Workflows = {w1, w2, w3}
  Jobs = {j1, j2, j3}
  Users = {u1, u2, u3}
  Priorities = {1}
  Partitions = {pA, pB}
  JobOf <- Crowd_JobOf
  UserOf <- Crowd_UserOf
  PriorityOf <- Crowd_PriorityOf
  PartitionOf <- Fleet_PartitionOf
  GraphOrder <- ThreeWorkflowOrder
  PartitionOrder <- TwoPartitionOrder
  Quantum <- Crowd_Quantum
  BatchSize = 2
  StarvationLimit = 1
  CapacityAware = TRUE
  DwellObservations = 2
  DwellSeconds = 1
  Volatile = {pB}
PROPERTIES
  TurnsServe
  SatisfiableIsNeverDoomed
  QueueDrains
  ImpossibleWorkLeaves
