SPECIFICATION Spec
CONSTANTS
  post1 = post1
  ws1 = ws1
  blue = blue
  green = green
  Requests <- MCRequests
  WsRequests <- MCWsRequests
  Locating <- MCLocating
  Forgetting <- MCForgetting
  Replicas <- MCReplicas
  MaxPairs = 2
  MaxFaults = 2
INVARIANT RetryIsIdempotent
CHECK_DEADLOCK FALSE
