SPECIFICATION DeSpec
CHECK_DEADLOCK FALSE
CONSTANT DedupeTasks = 4
INVARIANT MergedIdentical
