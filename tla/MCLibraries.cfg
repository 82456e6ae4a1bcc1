CONSTANTS
  Producers = {p1, p2, p3}
  Consumers = {c1}
  Items = 2
  Sizes <- TightAndWide
  MaxSpurious = 1
  Tasks = {t1, t2}
  Levels = {"Low", "Critical"}
  TickInterval = 2
  MaxPushes = 3
SPECIFICATION LibrariesSpec
INVARIANTS
  BufferBounded
  OverrunBounded
  InOrder
  IndexAgrees
  EachPushOnce
  AgedTasksHigh
PROPERTIES
  PushReturns
  HighestFirst
  EventuallyHigh
