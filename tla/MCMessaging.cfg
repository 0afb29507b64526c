SPECIFICATION Spec
CONSTANTS
  Users = {u1, u2}
  Tasks = {t1, t2}
  None = None
  Convs = {c1, c2}
  Messages = {m1}
  Texts = {x1, x2}
  MaxRequests = 3
  CallIds = {k1}
  Handles = {h1, h2}
  Notes = {n1}
  Wordings = {w1, w2}
SYMMETRY Symmetry
INVARIANTS
  MessagingTypeOK
  OneChatPerPair
  ToldIsTrue
  UnseenIsAlerted
  MissedIsAlerted
  CallRowsAgree
  OneOwner
  WorkingStay
  NoNeedlessFetch
  CommentSettles
CHECK_DEADLOCK FALSE
