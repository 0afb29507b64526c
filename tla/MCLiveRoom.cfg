SPECIFICATION Spec
CONSTANTS
  host = host
  guest = guest
  h1 = h1
  g1 = g1
  g2 = g2
  Users = {host, guest}
  Host = host
  Devices = {h1, g1, g2}
  Owner <- OwnerOf
  Tasks = {t1, t2}
INVARIANTS
  RoomsAgree
  GoneIsNotWatching
  ViewersAreTold
SYMMETRY Symmetric
CHECK_DEADLOCK FALSE
