SPECIFICATION Spec
CONSTANTS
  h0 = h0
  h1 = h1
  f1 = f1
  f2 = f2
  ft = ft
  None = None
  Hosts <- MCHosts
  Host0 = h0
  HostReports <- MCReports
  Features <- MCFeatures
  InitialIds <- MCInitialIds
  TestResult = ft
  MaxChunks = 2
  FreshChunks = 1
  Room = 1
  MaxQueue = 1
  MaxOps = 4
  Scenarios <- MCScenarios
  MaxSessions = 2
INVARIANTS
  NewestStateKept
  RouteFollowsHeadset
  NoStaleAudio
  RequestRemembered
