SPECIFICATION Spec
CONSTANTS
  Session = {s1}
  Admin = {ann}
  Job = job
  Period <- MCPeriod
  Named = {1}
  MaxWeek = 4
  MaxSettlements = 3
  MaxFaults = 1
INVARIANTS NotOverpaid PaidIsPosted NothingForgotten
CHECK_DEADLOCK FALSE
