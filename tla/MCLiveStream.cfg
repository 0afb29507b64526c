SPECIFICATION Spec
CONSTANTS
  hello = hello
  Users = {u1, u2, u3}
  Comments = {hello, c2}
  FirstComments = {hello}
  Tasks = {t1, t2}
  MaxJoins = 3
  None = None
INVARIANTS
  TypeOK
  ViewsCounted
  CountsWithinAudience
  PinsAgree
  WaitsResolve
SYMMETRY Symmetric
CHECK_DEADLOCK FALSE
