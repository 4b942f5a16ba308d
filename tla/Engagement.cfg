SPECIFICATION Spec
CONSTANTS
  Users = {u1, u2, u3}
  Targets = {t1}
  Blogs = {t1}
  Comments = {c1, c2, c3}
  OwnerOf <- MCOwnerOf
  owner = u1
  Inputs = {1, 5, 6}
  MaxPending = 1
  None = None
SYMMETRY MCSymmetry
CONSTRAINT Bounds
CHECK_DEADLOCK FALSE
INVARIANTS
  TypeOK
  LikesAreCounted
  CommentsAndSharesAreCounted
  FollowsAreCounted
  RatingsAreAveraged
