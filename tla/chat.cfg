SPECIFICATION Spec
CONSTANTS
  Me = me
  Peer = peer
  p = p
  q = q
  Rooms <- MCRooms
  NoRoom = none
  MaxMessages = 2
  MaxOpens = 2
  MaxEvents = 4
INVARIANTS
  TypeOK
  
  
  
SYMMETRY Symmetry
CHECK_DEADLOCK FALSE
