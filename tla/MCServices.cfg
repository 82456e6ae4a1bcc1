CONSTANTS
  Guards = {g1, g2, g3}
  NumStreams = 2
  MaxRecords = 1
  Hosts <- SmallHosts
  Users = {1, 2}
  MaxCopies = 2
  MaxRepeats = 3
  MaxThreads = 2
  Threads = {1, 2}
  TaskIds = {1}
  Sizes = {5, 7}
  MaxCalls = 2
  Clients = {"a"}
  HistoryLen = 2
  MaxTasks = 2
  MaxSamples = 3
  MaxEvents = 2
  Callers = {1, 2}
  MaxRuns = 2
SPECIFICATION ServicesSpec
INVARIANTS
  StreamsSound
  CountersTrue
  ProgramsComplete
PROPERTY CallsReturn
CHECK_DEADLOCK FALSE
