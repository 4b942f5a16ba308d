SPECIFICATION Spec
CONSTANTS
  Posts = {p1}
  Blogs = {b1}
  Categories = {g1}
  x = x
  y = y
  v = v
  w = w
  Texts = {x, y}
  Files = {f1, f2}
  Empty = Empty
  None = None
  author = u1
  Users = {u1}
  Author <- MCAuthor
  Thumbs = {t1, t2}
  Videos = {v, w}
  InBucket = {t1, t2, v}
  Edits <- MCEdits
  Calls = {c1, c2}
SYMMETRY MCSymmetry
CONSTRAINT Bounds
CHECK_DEADLOCK FALSE
INVARIANTS
  TypeOK
  NoGhostVectors
  VectorsFollowRows
  ThumbnailIsStored
  ImagesMatchRows
