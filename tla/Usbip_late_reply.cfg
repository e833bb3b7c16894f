CONSTANTS
  Cmds = {c1, c2}
  Scenarios <- GetScenarios
  Reports = {r1, r2}
  Handles = {h1}
  NoCmd = NoCmd
  NoReport = NoReport
  NoSock = NoSock
  HidMax = 1
  IsoTicks = 1
  StaleTicks = 0
  Unlinks = FALSE
SPECIFICATION Spec
INVARIANT AnswersReportAsked
CHECK_DEADLOCK FALSE
