SPECIFICATION Spec
CONSTANTS
  Texts <- Greeting
  Terminals <- HighIds
  FrameIds <- OneFrame
  Retains = {0}
  Reports <- OneBeam
  Backlogs = {0}
  FromFirst = TRUE
  MaxInbox = 1
  MaxSubmits = 0
  MaxReports = 1
INVARIANT ReportIsReadBack
CHECK_DEADLOCK FALSE
