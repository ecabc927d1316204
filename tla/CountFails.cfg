SPECIFICATION Spec
CONSTANTS
  Texts <- Greeting
  Terminals <- TwoIds
  FrameIds <- TwoFrames
  Retains = {3}
  Reports <- BeamLists
  Backlogs = {0, 254}
  FromFirst = TRUE
  MaxInbox = 1
  MaxSubmits = 2
  MaxReports = 2
INVARIANT EveryAnswerCounts
CHECK_DEADLOCK FALSE
