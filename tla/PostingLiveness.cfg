SPECIFICATION LivenessSpec
CONSTANTS
  Projects = {a1}
  Posts = {p1, p2}
  ProjectOf <- MCProjectOf
  Ticks = {t1}
  Callbacks = {}
  Callers = {u1}
  PutStatuses = {}
  MaxRuns = 1
  MaxCount = 1
  MaxCrashes = 0
  None = None
CHECK_DEADLOCK FALSE
PROPERTY DuePostIsTriggered
