\* Every graph over three transactions (64 of them), two workers, one retry.
CONSTANTS
  N = 3
  Graphs <- AllGraphs
  MaxParallelTxProcessing = 2
  MaxFailures = 1
SPECIFICATION FairSpec
INVARIANTS
  TypeOK
  ParentsFirst
  OneHandler
  NoInternalError
  AllOrNothing
  BoundedAttempts
PROPERTIES
  NoLateWrite
  ImplementsBlockApply
  Termination
