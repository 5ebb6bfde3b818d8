SPECIFICATION FairSpec
CONSTANT MaxBatch = 2
INVARIANTS
  TypeOK
  IInv
  LlmBudget
  GateLeaks
  TraceComplete
  DenialOnlyUnrepaired
  WrongScriptOnlyUnrepaired
PROPERTY ImplementsContract
CHECK_DEADLOCK FALSE
