CONSTANTS
  Urbs = {u1, u2}
  Kinds <- EveryKind
  Reports = {r1}
  NoUrb = NoUrb
  NoReport = NoReport
  EventMax = 1
  IsoTicks = 1
  HidTicks = 1
  HidInDepth = 1
  UnlinkMidSubmit = TRUE
  MaxTime = 1
  MaxWrites = 2
  MaxConn = 2
SYMMETRY UrbSymmetry
SPECIFICATION Spec
INVARIANT ListsMatchStates
INVARIANT NothingLeftBehind
PROPERTY InputNeverGoesBack
CHECK_DEADLOCK FALSE
