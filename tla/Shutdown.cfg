SPECIFICATION Spec
CONSTANTS
  Workers = {w1, w2}
INVARIANT PoolOutlivesUsers
PROPERTY ShutdownEnds
CHECK_DEADLOCK FALSE
