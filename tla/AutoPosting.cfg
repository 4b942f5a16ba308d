SPECIFICATION Spec
CONSTANTS
  Projects = {a1}
  Posts = {p1, p2}
  ProjectOf <- MCProjectOf
  Ticks = {t1, t2}
  Callbacks = {c1, c2}
  Callers = {u1}
  PutStatuses = {"PAUSED", "ACTIVE", "COMPLETED"}
  MaxRuns = 1
  MaxCount = 2
  MaxCrashes = 1
  None = None
SYMMETRY MCSymmetry
CONSTRAINT NoDisturbance
CHECK_DEADLOCK FALSE
INVARIANTS
  TypeOK
  PostedWasPublished
  PublishedAtMostOnce
  ProjectFollowsPosts
PROPERTY
  DeliverySpec
