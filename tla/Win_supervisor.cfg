SPECIFICATION LiveSpec
CONSTANTS
    a1 = a1
    a2 = a2
    col1 = col1
    other = other
    NoAddress = NoAddress
    NoConfig = NoConfig
    Devs = {col1, other}
    Addresses = {a1, a2}
    AddressOf <- MCAddressOf
    TargetOf <- MCTargetOf
    InitialLists <- MCLists
    MaxDevices = 2
    MaxOps = 2
    Ports = {0, 1}
    Configs <- MCConfigs
    Initial <- MCInitial
    Commands = {"attach", "detach"}
    Usbip = FALSE
INVARIANT WorkersExclusive
PROPERTIES NoMissedChange ControlServedOrStranded StopEnds Bridged
