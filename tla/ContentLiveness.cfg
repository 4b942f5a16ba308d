SPECIFICATION Spec
CONSTANTS
  Posts = {p1}
  Blogs = {}
  Categories = {}
  x = x
  y = y
  v = v
  w = w
  Texts = {x, y}
  Files = {f1}
  Empty = Empty
  None = None
  author = u1
  Users = {u1}
  Author <- MCAuthor
  Thumbs = {t1}
  Videos = {v}
  InBucket = {t1, v}
  Edits <- MCLiveEdits
  Calls = {c1, c2}
CHECK_DEADLOCK FALSE
PROPERTIES
  IndexSettles
