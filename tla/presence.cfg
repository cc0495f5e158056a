SPECIFICATION PresenceSpec
CONSTANTS
  p1 = p1
  p2 = p2
  c1 = c1
  c2 = c2
  Pages = {p1, p2}
  Conns = {c1, c2}
  None = none
  MaxMishaps = 2
INVARIANTS
  PresenceTypeOK
  StatusUnlessOverlapped
  
SYMMETRY Symmetry
CHECK_DEADLOCK FALSE
