SPECIFICATION Spec
CONSTANTS
  FirstBytes <- AllBytes
  OtherBytes <- SomeBytes
  MaxLen = 2
INVARIANT UpdatesPrevious
CHECK_DEADLOCK FALSE
