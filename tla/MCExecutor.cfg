CONSTANTS
  Workers = {w1, w2}
  Flows <- DocumentedFlows
  UsizeMod = 16
  MaxSpurious = 1
  MaxTasks = 4
SPECIFICATION Spec
INVARIANTS
  TypeOK
  DependenciesFirst
  ScheduledOnce
  CounterCoversWork
  NoEarlyShutdown
  CompleteOnReturn
  NoLostWakeup
  ExclusiveBranches
PROPERTIES
  RunReturns
  KeepsPromise
