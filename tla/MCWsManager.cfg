SPECIFICATION Spec
CONSTANTS
  alice = alice
  bob = bob
  phone = phone
  laptop = laptop
  None = None
  Users = {alice, bob}
  Conns = {phone, laptop}
  Owner <- MCOwner
  Streams = {s1, s2}
  Conversations = {}
  Msgs = {m1}
  Tasks = {t1, t2}
INVARIANTS
  TypeOK
  IndexesAgree
  SendingIsCurrent
  OnlyInversionBlocks
PROPERTIES
  LeaveAllClears
  RefinesRoomDirectory
SYMMETRY Symmetric
CHECK_DEADLOCK FALSE
