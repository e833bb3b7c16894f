CONSTANTS
  Cmds = {c1}
  Scenarios <- ReimportScenarios
  Reports = {}
  Handles = {h1}
  NoCmd = NoCmd
  NoReport = NoReport
  NoSock = NoSock
  HidMax = 1
  IsoTicks = 1
  StaleTicks = 0
  Unlinks = FALSE
SPECIFICATION FairSpec
PROPERTY TcpThreadExits
CHECK_DEADLOCK FALSE
