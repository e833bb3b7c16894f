CONSTANTS
  Cmds = {c1, c2}
  Scenarios <- SessionScenarios
  Reports = {r1, r2}
  Handles = {h1}
  NoCmd = NoCmd
  NoReport = NoReport
  NoSock = NoSock
  HidMax = 1
  IsoTicks = 1
  StaleTicks = 0
  Unlinks = TRUE
SPECIFICATION Spec
SYMMETRY CmdSymmetry
INVARIANT PairedUnlessLate
INVARIANT NewestInputKept
INVARIANT PacedInOrder
INVARIANT TornOnlyByLeftover
PROPERTY SilentAfterUnlink
CHECK_DEADLOCK FALSE
