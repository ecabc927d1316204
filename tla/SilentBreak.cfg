SPECIFICATION FairSpec
CONSTANTS
  k1 = k1  hello = hello  empty = empty
  EmptyString = empty
  Connections <- OneConnection
  Calls <- AllCalls
  MaxCalls = 1
  MaxBreaks = 1
PROPERTY SilenceIsNoticed
CHECK_DEADLOCK FALSE
