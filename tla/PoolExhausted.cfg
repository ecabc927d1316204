SPECIFICATION PatientSpec
CONSTANTS
  t1 = t1  t2 = t2  w1 = w1  w2 = w2  d = d  hi = hi  none = none  junk = junk
  Users <- MCUsers
  Texts <- MCTexts
  EmptyText = none
  Uninit = junk
  MAX_BEAM_NUM = 3
  RETRY_DELAY = 1
  INDICATE_MAX = 1
  RegisteredUsers <- MCUsers
  CoverRows <- MCUsers
  ScheduleAddress <- MCAddresses
  Workers <- MCWorkers
  Daemon = d
  max_size = 2
  max_retry_count = 1
  msg_interval = 1
  UniqueKey = TRUE
  InitCover <- MCInitCover
  MaxClock = 1
  Budget <- LeakBudget
  Messages <- OneComplete
  Covers <- NoCovers
PROPERTY EveryRequestReturns
CHECK_DEADLOCK FALSE
