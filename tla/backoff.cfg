SPECIFICATION BackoffSpec
CONSTANTS
  ip = ip
  account = account
  r1 = r1
  r2 = r2
  Identities = {ip, account}
  Requests = {r1, r2}
  Free = 1
  Base = 2
  MaxDelay = 4
  Decay = 2
  Never = 99
  MaxTime = 2
  MaxSpent = 4
INVARIANTS
  BackoffTypeOK
  PenaltyKeepsCounting
  CounterExpires
SYMMETRY Symmetry
CHECK_DEADLOCK FALSE
