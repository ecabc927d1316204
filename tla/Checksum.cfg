SPECIFICATION Spec
CONSTANTS
  FirstBytes <- AllBytes
  OtherBytes <- SomeBytes
  MaxLen = 3
INVARIANTS
  LoopIsDivision
  ChecksumVerifies
CHECK_DEADLOCK FALSE
