SPECIFICATION FairSpec
CONSTANT MaxBatch = 2
PROPERTY DispatchNeverEndsTurn
CHECK_DEADLOCK FALSE
