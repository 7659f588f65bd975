CONSTANTS
  c1 = c1
  c2 = c2
  stop = stop
  other = other
  Charger <- MCCharger
  Socket = {1, 2, 3}
  Of <- MCOf
  Call <- MCCall
  Target <- MCTarget
  Slow <- MCSlow
  Request = {r1}
  Silent = {3}
  Cached = {c1}
SPECIFICATION Spec
INVARIANTS ConnectedIsOnline ToldTheTruth CancelledByItsOwn
PROPERTIES CallEnds DeadSocketCloses RequestAnswered
CHECK_DEADLOCK FALSE
