CONSTANTS
  Callers = {c1}
  Dogs = {d1}
  Budgets = {1}
  Free = Free
  MaxOps = 2
  MaxTime = 1
  MaxSpurious = 0
SPECIFICATION Spec
PROPERTY ResetDisarms
CHECK_DEADLOCK FALSE
