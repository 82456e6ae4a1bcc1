CONSTANTS
  Flows <- DocumentedFlows
  UsizeMod = 16
  MaxTasks = 3
SPECIFICATION Spec
INVARIANTS
  TypeOK
  NothingLeftBehind
  FailureContained
PROPERTIES
  RunReturns
  KeepsPromise
