SPECIFICATION Spec
CONSTANTS
  s1 = s1
  c1 = c1
  c2 = c2
  Servers = {s1}
  Clients = {c1, c2}
  Files = {c2}
  Host = host
  TTL = 3
  Delay = 1
  NoTimer = none
  MaxFaults = 1
INVARIANTS
  TypeOK
  
PROPERTIES
  KeepsLease
  
CHECK_DEADLOCK FALSE
