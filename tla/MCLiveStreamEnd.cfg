SPECIFICATION Spec
CONSTANTS
  hello = hello
  Users = {u1}
  Comments = {hello}
  FirstComments = {hello}
  Tasks = {t1, t2}
  MaxJoins = 3
  None = None
PROPERTY
  EndedIsFinal
CHECK_DEADLOCK FALSE
