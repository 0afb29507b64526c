SPECIFICATION Spec
CONSTANTS
  Users = {u1, u2}
  Tasks = {t1, t2}
  None = None
  Accounts = {a1}
  MaxSecond = 2
  Lifetime = 1
  Stories = {s1}
  Guests = {g1}
  Fields = {f1, f2}
  Values = {v1, v2}
SYMMETRY Symmetry
INVARIANTS
  PeopleTypeOK
  ExchangedOnce
  ReuseEndsAll
  OneRowPerPair
  FriendsStay
  AudienceIsRight
  EditsKept
  CohostsAgree
CHECK_DEADLOCK FALSE
