SPECIFICATION Spec
CONSTANTS
  t1 = t1
  t2 = t2
  t3 = t3
  laptop = laptop
  phone = phone
  Tabs = {t1, t2, t3}
  Browsers = {laptop, phone}
  BrowserOf <- MCBrowserOf
  AccessLife = 2
  MaxTime = 3
  MaxEvents = 4
INVARIANTS
  TypeOK
  RevokedStaysRevoked
  SessionsOfThisPassword
  ClientHoldsLiveToken
SYMMETRY Symmetry
CHECK_DEADLOCK FALSE
