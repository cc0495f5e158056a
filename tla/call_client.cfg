SPECIFICATION Spec
CONSTANTS
  a = a
  b = b
  c = c
  dm = dm
  room = room
  i1 = i1
  i2 = i2
  Clients = {a, b, c}
  Channels = {dm, room}
  MembersOf <- MCMembersOf
  Groups = {room}
  Calls = {i1, i2}
  NoCall = none
  MaxEvents = 3
INVARIANTS
  TypeOK
  ScreenMatchesRoster
  MediaOnlyInCall
SYMMETRY Symmetry
CHECK_DEADLOCK FALSE
