CONSTANTS
  ann = ann
  User <- MCUser
  Nobody = Nobody
  Connector = {1, 2}
  Handler = {1, 2}
  Late = {l1}
  Writer <- MCWriter
  Comes <- MCComes
  Reported = {1}
  MaxId = 2
  MaxFaults = 1
SPECIFICATION Spec
INVARIANTS FreshId  LockFollows
CHECK_DEADLOCK FALSE
