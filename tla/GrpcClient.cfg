CONSTANTS
  Workers = {w1, w2, w3}
  MaxDials = 4
SPECIFICATION Spec
INVARIANTS
  DialsAreBounded
  CallsUseOpenConnections
CHECK_DEADLOCK FALSE
