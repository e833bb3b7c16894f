CONSTANTS
  Cmds = {c1, c2}
  Scenarios <- ProgressScenarios
  Reports = {r1}
  Handles = {h1}
  NoCmd = NoCmd
  NoReport = NoReport
  NoSock = NoSock
  HidMax = 1
  IsoTicks = 1
  StaleTicks = 0
  Unlinks = FALSE
SPECIFICATION FairSpec
CHECK_DEADLOCK FALSE
PROPERTY TcpThreadExits
PROPERTY RequestAnswered
