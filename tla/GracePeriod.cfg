SPECIFICATION Spec
CONSTANTS
  GraceThreshold = 1
  LowThreshold = 1
  TopUpAmount = 3
  MaxFunds = 3
  Attempts = 2
  MaxFaults = 2
PROPERTIES StoppedWhenUnpaid UnpaidStops
CHECK_DEADLOCK FALSE
