SPECIFICATION Spec
CONSTANTS
  Users = {u1, u2}
  admin = u2
  Admins <- MCAdmins
  Notes = {n1, n2}
  Reports = {}
  Sockets = {s1}
  Handlers = {h1, h2}
  None = None
CHECK_DEADLOCK FALSE
PROPERTY UnreadArrive
