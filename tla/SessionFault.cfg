SPECIFICATION FairSpec
CONSTANTS
  c1 = c1
  c2 = c2
  Call <- OneCall
  MaxMeter = 3
  MaxResends = 1
  MaxTopUps = 1
  Status <- Faulted
  MayFault = TRUE
  MayFail = FALSE
  SendsData = TRUE
  Users <- Driver
  Presets <- NoPreset
  MeterStart = 1
  Price = 2000
  Opening = 3
  OtherLock = 1
  GraceThreshold = 1
  LowThreshold = 2
  TopUp = 2
  CommissionRate = 200
PROPERTIES FaultsEndTheSession
CHECK_DEADLOCK FALSE
