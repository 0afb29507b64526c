SPECIFICATION FairSpec
CONSTANTS
  alice = alice
  bob = bob
  phone = phone
  laptop = laptop
  None = None
  Users = {alice}
  Conns = {phone}
  Owner <- MCOneOwner
  Streams = {s1}
  Conversations = {v1}
  Msgs = {}
  Tasks = {t1, t2}
PROPERTY
  DisconnectLeavesRooms
CHECK_DEADLOCK FALSE
