CONSTANTS
  Urbs = {u1}
  Kinds <- ContextKinds
  Reports = {r1}
  NoUrb = NoUrb
  NoReport = NoReport
  EventMax = 1
  IsoTicks = 1
  HidTicks = 1
  HidInDepth = 1
  UnlinkMidSubmit = TRUE
  MaxTime = 1
  MaxWrites = 0
  MaxConn = 1
SYMMETRY UrbSymmetry
SPECIFICATION Spec
INVARIANT NoStaleContext
CHECK_DEADLOCK FALSE
