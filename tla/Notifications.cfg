SPECIFICATION Spec
CONSTANTS
  Users = {u1, u2}
  admin = u2
  Admins <- MCAdmins
  Notes = {n1, n2}
  Reports = {r1, r2}
  Sockets = {s1, s2}
  Handlers = {h1, h2}
  None = None
SYMMETRY MCSymmetry
CONSTRAINT Bounds
CHECK_DEADLOCK FALSE
INVARIANTS
  TypeOK
  NothingMissed
  ConnectionStatusIsHonest
  ResolutionsAreAnnounced
