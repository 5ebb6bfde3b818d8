SPECIFICATION Spec
CONSTANTS
  blue = blue
  green = green
  ops = ops
  near = near
  far = far
  Loops <- MCReplicas
  Commands = {}
  NCat = 2
  Elements <- MCElements
  Near <- MCNear
  Sought <- MCSought
  Cap = 1
  MaxRetries = 1
  MaxFetches = 3
  MaxFaults = 1
INVARIANT MirrorAnswersLikeLive
