SPECIFICATION Spec
CONSTANTS
  Users = {u1, u2}
  Comments = {c1, c2, c3}
  Tasks = {t1, t2}
  Post = Post
  None = None
INVARIANT
  CommentsCounted
SYMMETRY Symmetric
CHECK_DEADLOCK FALSE
