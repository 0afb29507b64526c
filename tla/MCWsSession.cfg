SPECIFICATION FairSpec
CONSTANTS
  alice = alice
  bob = bob
  phone = phone
  laptop = laptop
  tablet = tablet
  None = None
  Users = {alice, bob}
  Sessions = {phone, laptop, tablet}
  Owner <- MCOwner
  Friends <- MCFriends
  Detachable = {phone}
  Flaky = {bob}
INVARIANTS
  TypeOK
  GoneIsOffline
PROPERTY
  GoneFadesOut
CHECK_DEADLOCK FALSE
