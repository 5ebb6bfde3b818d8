SPECIFICATION FairSpec
CONSTANTS
  post1 = post1
  ws1 = ws1
  blue = blue
  green = green
  Requests <- MCRequests
  WsRequests <- MCWsRequests
  Locating <- MCLocating
  Forgetting <- MCForgetting
  Replicas <- MCReplicas
  MaxPairs = 2
  MaxFaults = 2
INVARIANTS
  TypeOK
  SequentialRow
  LostOnlyByOverlap
  OverlapHasACause
  TwiceHasACause
PROPERTIES
  EachTurnKeepsContract
  EveryMessageEnds
CHECK_DEADLOCK FALSE
