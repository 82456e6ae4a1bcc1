SPECIFICATION AlgorithmsSpec
CONSTANTS
  MaxPushes = 4
  Priorities = {1, 2}
  NumWorkers = 2
  MaxTasks = 3
  MaxEdges = 2
  MaxCopies = 2
  MaxOwn = 1
  MaxHandles = 1
  Machines <- SmallMachines
  MaxWorkers = 6
INVARIANTS
  DetectorsAgree
  SequentialResult
  ServedInOrder
  CopyFaithful
  PlacementSound
  ReportsSound
CHECK_DEADLOCK FALSE
