CONSTANTS
  Workers = {w1, w2}
  Flows <- FallbackFlows
  UsizeMod = 16
  MaxSpurious = 0
  MaxTasks = 2
SPECIFICATION Spec
PROPERTY FallbackCompletes
CHECK_DEADLOCK FALSE
