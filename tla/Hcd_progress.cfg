CONSTANTS
  Urbs = {u1, u2}
  Kinds <- ProgressKinds
  Reports = {r1}
  NoUrb = NoUrb
  NoReport = NoReport
  EventMax = 1
  IsoTicks = 2
  HidTicks = 1
  HidInDepth = 1
  UnlinkMidSubmit = FALSE
  MaxTime = 1
  MaxWrites = 0
  MaxConn = 1
SPECIFICATION FairSpec
INVARIANT CompletedOrdered
PROPERTY UnlinkedIsGivenBack
PROPERTY ServedWithoutDaemon
PROPERTY ReplyCompletes
CHECK_DEADLOCK FALSE
