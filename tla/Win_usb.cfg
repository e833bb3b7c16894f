SPECIFICATION Spec
CONSTANTS
  f1 = f1
  f2 = f2
  p1 = p1
  p2 = p2
  u1 = u1
  u2 = u2
  None = None
  Files <- MCFiles
  Profiles <- MCProfiles
  Urbs <- MCUrbs
  RingSize = 4
  AudioSize = 2
  MaxOps = 4
SYMMETRY Symmetric
CHECK_DEADLOCK FALSE
INVARIANTS
  RingIsFifo
  MicIsFresh
  NoStrandedRead
  BoundPortServed
  AltReported
  SettlesClean
PROPERTY
  GivenBackOnce
