SPECIFICATION Spec
CONSTANTS
  Order = {o1}
  p1 = p1
  NoId = NoId
  PaymentId <- MCPaymentId
  Code <- MCCode
  Request = {q1, q2}
  Handler = {1, 2}
  MaxFaults = 1
INVARIANTS CreditedOnce
PROPERTY PaidIsCredited
CHECK_DEADLOCK FALSE
