SPECIFICATION Spec
CONSTANTS
  w1 = w1  w2 = w2  w3 = w3  w4 = w4
  j1 = j1  j2 = j2  j3 = j3
  u1 = u1  u2 = u2  u3 = u3
  pA = pA  pB = pB
  Workflows = {w1, w2, w3, w4}
  Jobs = {j1, j2, j3}
  Users = {u1, u2}
  Priorities = {1, 2}
  Partitions = {pA, pB}
  JobOf <- Mixed_JobOf
  UserOf <- Mixed_UserOf
  PriorityOf <- Mixed_PriorityOf
  PartitionOf <- Mixed_PartitionOf
  GraphOrder <- FourWorkflowOrder
  PartitionOrder <- TwoPartitionOrder
  Quantum <- Mixed_Quantum
  BatchSize = 2
  StarvationLimit = 1
  CapacityAware = TRUE
  DwellObservations = 2
  DwellSeconds = 1
  Volatile = {}
INVARIANTS
  TypeOK
  NoWorkflowLost
  ReservationSound
  UserRingCoversQueue
  NoLostWakeup
  BoundedBypass
PROPERTIES
  ArrivalOrderKept
  ImplementsJobQueue
