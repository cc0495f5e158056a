SPECIFICATION Spec
CONSTANTS
  a = a
  b = b
  h1 = h1
  h2 = h2
  r1 = r1
  r2 = r2
  Users = {a, b}
  Handlers = {h1, h2}
  Rooms = {r1, r2}
  MaxEvents = 7
INVARIANTS
  TypeOK
  AcceptedIsComplete
  OneRequestUnlessRaced
  
  DeletedLeaveNothing
SYMMETRY Symmetry
CHECK_DEADLOCK FALSE
