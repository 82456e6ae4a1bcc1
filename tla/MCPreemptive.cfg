CONSTANTS
  Callers = {c1, c2}
  Dogs = {d1, d2}
  Budgets = {0, 1}
  Free = Free
  MaxOps = 3
  MaxTime = 1
  MaxSpurious = 1
SPECIFICATION BoundedSpec
INVARIANTS
  TypeOK
  NeverEarly
  ReasonReported
  NoDeadlineForgotten
PROPERTIES
  DeadlineHonoured
  ThreadsEnd
CHECK_DEADLOCK FALSE
