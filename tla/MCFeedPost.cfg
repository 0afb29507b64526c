SPECIFICATION Spec
CONSTANTS
  Users = {u1, u2}
  Comments = {c1, c2, c3}
  Tasks = {t1, t2}
  Post = Post
  None = None
INVARIANTS
  TypeOK
  LikesExact
  RepliesExist
  OnlyDeletesBlock
PROPERTY
  RefinesPostThreads
SYMMETRY Symmetric
CHECK_DEADLOCK FALSE
