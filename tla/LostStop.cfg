SPECIFICATION Spec
CONSTANTS
  Workers = {w1, w2}
PROPERTY EveryStopEnds
CHECK_DEADLOCK FALSE
