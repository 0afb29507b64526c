SPECIFICATION Spec
CONSTANTS
  alice = alice
  bob = bob
  phone = phone
  laptop = laptop
  tablet = tablet
  None = None
  Users = {alice, bob}
  Sessions = {phone, laptop, tablet}
  Owner <- MCOwner
  Friends <- MCFriends
  Detachable = {phone, laptop}
  Flaky = {}
INVARIANT
  FriendsToldRight
CHECK_DEADLOCK FALSE
