SPECIFICATION FairSpec
CONSTANTS
  c1 = c1
  c2 = c2
  c3 = c3
  driver = driver
  host = host
  platform = platform
  k1 = k1
  k2 = k2
  k3 = k3
  User <- MCUser
  Admin = platform
  Key <- MCKey
  Opened <- MCOpened
  Opening <- MCOpening
  CommissionRate = 200
  MaxRetries = 2
  Call <- MCCall3
  Request <- ContendedRequest
INVARIANTS DefeatedByCommits
PROPERTIES CallsEnd
CHECK_DEADLOCK FALSE
