SPECIFICATION Spec
CONSTANTS
  a = a
  b = b
  Clients = {a, b}
  MaxAttempts = 1
  MaxEvents = 5
INVARIANTS
  TypeOK
  WrongCodesAreCounted
  OneResetPerAttempt

  
SYMMETRY Symmetry
CHECK_DEADLOCK FALSE
