SPECIFICATION Spec
CONSTANTS
  Users = {u1, u2}
  Emails = {e1, e2}
  Requests = {r1, r2}
  None = None
  Gone = Gone
  FbUsers = {f1}
  Pages = {p1, p2}
  Projects = {j1}
  Callbacks = {c1, c2}
  MaxToken = 2
  MaxId = 2
  Blogs = {b1}
  Posts = {q1}
  Collections = {k1}
  Visits = {v1, v2}
SYMMETRY MCSymmetry
CONSTRAINT OneArea
CHECK_DEADLOCK FALSE
INVARIANTS
  TypeOK
  RowsHaveFirebase
  PlanFollowsUser
  PlatformsFollowSync
  LatestTokenStored
  ProjectsOnOwnPlatforms
  BookmarksFollowAnswers
  ProtectionFollowsAnswers
PROPERTIES
  LossesAreOwn
