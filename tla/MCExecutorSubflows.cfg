CONSTANTS
  Workers = {w1, w2}
  Flows <- ParallelSubflows
  UsizeMod = 16
  MaxSpurious = 0
  MaxTasks = 2
SPECIFICATION Spec
INVARIANT ChildrenExecuted
CHECK_DEADLOCK FALSE
