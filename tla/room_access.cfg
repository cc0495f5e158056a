SPECIFICATION Spec
CONSTANTS
  h1 = h1
  h2 = h2
  g1 = g1
  Sockets = {h1, h2, g1}
  Hosts = {h1, h2}
  Timer = timer
  Locked = TRUE
  MaxUsers = 2
  MaxEvents = 5
INVARIANTS
  TypeOK
  LockedEntry
  PresenceAgrees
  KnockReachesHost
  CapacityUnlessCrowded
SYMMETRY Symmetry
CHECK_DEADLOCK FALSE
