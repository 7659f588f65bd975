SPECIFICATION FairSpec
CONSTANTS
  c1 = c1
  c2 = c2
  Call <- OneCall
  MaxMeter = 3
  MaxResends = 0
  MaxTopUps = 1
  Status <- Faulted
  MayFault = TRUE
  MayFail = FALSE
  SendsData = TRUE
  Users <- AnyUser
  Presets <- WithPreset
  MeterStart = 1
  Price = 1000
  Opening = 3
  OtherLock = 1
  GraceThreshold = 1
  LowThreshold = 2
  TopUp = 2
  CommissionRate = 200
INVARIANTS SettledRecordsMoney ReservationReleased
PROPERTIES StopsAreSettled
CHECK_DEADLOCK FALSE
