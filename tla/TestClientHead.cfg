SPECIFICATION Spec
CONSTANTS
  Texts <- Greeting
  Terminals <- TwoIds
  FrameIds <- OneFrame
  Retains = {0}
  Reports <- NoReports
  Backlogs = {0}
  FromFirst = FALSE
  MaxInbox = 1
  MaxSubmits = 1
  MaxReports = 1
INVARIANT DeliveredAsSubmitted
CHECK_DEADLOCK FALSE
