SPECIFICATION FairSpec
CONSTANTS
  blue = blue
  green = green
  ops = ops
  near = near
  far = far
  Loops <- MCLoops
  Commands <- MCCommands
  NCat = 2
  Elements <- MCNear
  Near <- MCNear
  Sought <- MCSought
  Cap = 1
  MaxRetries = 1
  MaxFetches = 3
  MaxFaults = 1
INVARIANTS
  TypeOK
  IInv
  OverlapHasACause
  IndexInStep
  RefreshedStaysLocal
PROPERTIES
  FreshnessForward
  SweepsAreWhole
  LockIsReleased
