CONSTANTS
  Workers = {w1, w2}
  MaxDials = 3
SPECIFICATION Spec
INVARIANT ConnectionIsSetUp
CHECK_DEADLOCK FALSE
