SPECIFICATION FairSpec
CONSTANTS
  k1 = k1  hello = hello  empty = empty
  EmptyString = empty
  Connections <- OneConnection
  Calls <- AllCalls
  MaxCalls = 3
  MaxBreaks = 1
INVARIANT AnswersAreOwn
PROPERTY EveryCallEnds
CHECK_DEADLOCK FALSE
