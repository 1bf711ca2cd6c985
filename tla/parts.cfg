SPECIFICATION Spec
CHECK_DEADLOCK FALSE
CONSTANTS
  OpIds = {"a", "b", "c"}
  MaxNodes = 2
  PlanRounds = 2
  MaxOps = 4
  FreeOps = 3
  MaxTasks = 4
  FreeTasks = 2
  ShardTasks = 3
  MaxRefs = 4
  DedupeTasks = 4
  MaxChains = 3
  ChainRounds = 2
  MaxSlices = 4
  BatchSize = 2
  PackArgs <- TriedArgs
  JobShapes <- TriedShapes
  LaneCounts = {0, 4}
  MaxRows = 3
  IndexedJobs = 2
INVARIANTS
  RoundsSound
  GraphRuns
  GraphComplete
  DedupeSound
  IndexSound
  ScheduleSound
  ShardsFaithful
  ParsersSound
  PackingSound
  BatchesSound
