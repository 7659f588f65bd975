SPECIFICATION Spec
CONSTANTS
  c1 = c1
  c2 = c2
  Call <- TwoCalls
  MaxMeter = 3
  MaxResends = 1
  MaxTopUps = 0
  Status <- NoStatus
  MayFault = FALSE
  MayFail = TRUE
  SendsData = FALSE
  Users <- Driver
  Presets <- NoPreset
  MeterStart = 1
  Price = 1000
  Opening = 2
  OtherLock = 0
  GraceThreshold = 0
  LowThreshold = 5
  TopUp = 2
  CommissionRate = 200
SYMMETRY TwoCallSymmetry
INVARIANTS RecordedWasTaken TotalIsPriced
CHECK_DEADLOCK FALSE
