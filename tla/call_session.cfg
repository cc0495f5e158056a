SPECIFICATION Spec
CONSTANTS
  a = a
  b = b
  d = d
  c1 = c1
  c2 = c2
  c3 = c3
  Sockets = {a, b, d}
  Calls = {c1, c2, c3}
  None = none
  MaxEvents = 4
INVARIANTS
  TypeOK
  MeshUnlessRaced
  PointerLeadsToCall
  EmptyCallIsReaped
  OneCallUnlessContended
SYMMETRY Symmetry
CHECK_DEADLOCK FALSE
