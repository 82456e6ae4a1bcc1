CONSTANTS
  Flows <- FallbackFlows
  UsizeMod = 16
  MaxTasks = 2
SPECIFICATION Spec
INVARIANT FallbackExecutes
