SPECIFICATION FairSpec
CONSTANTS
  ann = ann
  bob = bob
  b1 = b1
  b2 = b2
  Nobody = Nobody
  Booking = {b1, b2}
  User = {ann, bob}
  Hour = 1
  Slot = {1, 2}
  Request <- MCRequest
  Cancelled = {b1}
  Arriving = {b1}
  GracePeriod = 1
  MinDuration = 1
  MaxDuration = 2
  MaxAhead = 1
  Soon = 1
  Late = 0
  Penalty = 2
  Opening <- MCOpening
  Attempts = 2
  MaxNow = 4
  MaxFaults = 1
INVARIANTS TypeOK NoDoubleBooking PenaltyForNoShow FirstHourReturned ReservationWithdrawn
PROPERTIES QueuedBookingEnds
CHECK_DEADLOCK FALSE
