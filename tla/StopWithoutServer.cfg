SPECIFICATION Spec
CONSTANTS
  Workers = {w1, w2}
INVARIANT StopFindsServer
CHECK_DEADLOCK FALSE
