SPECIFICATION FairSpec
CONSTANT MaxBatch = 2
INVARIANT NoWrongEnglishAfterRepairs
CHECK_DEADLOCK FALSE
