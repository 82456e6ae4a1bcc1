CONSTANTS
  Tasks = {t1}
  Levels = {"Low", "Critical"}
  TickInterval = 1
  MaxPushes = 1
SPECIFICATION Spec
PROPERTY NeverDemotes
