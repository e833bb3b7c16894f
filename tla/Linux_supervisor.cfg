SPECIFICATION Spec
CONSTANTS
  a1 = a1
  a2 = a2
  ds = ds
  edge = edge
  Addrs <- MCAddrs
  Ports <- MCPorts
  Profiles <- MCProfiles
  Requests <- MCRequests
  InitialDbs <- MCDbs
  MaxEvents = 4
  MaxTraffic = 1
INVARIANTS
  PortExclusive
  UsbFollowsSession
  EpollFollowsTables
  TablesInForce
PROPERTIES
  ReloadKeepsSessions
CHECK_DEADLOCK FALSE
SYMMETRY Symmetry
