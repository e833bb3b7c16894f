SPECIFICATION FairSpec
CONSTANTS
  o1 = o1
  o2 = o2
  ds5 = ds5
  dse = dse
  Openers <- MCOpeners
  Profiles <- MCProfiles
  NoProfile = NoProfile
  Scenarios <- MCScenarios
  QueueMax = 2
  FrameSizes <- MCFrames
  UrbSizes <- MCUrbs
  MaxBytes = 4
CHECK_DEADLOCK FALSE
INVARIANTS HostInformed DeviceKept StatusCoversDevice MicFaithful
PROPERTY HubCatchesUp
