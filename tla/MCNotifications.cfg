SPECIFICATION FairSpec
CONSTANTS
  MaxItems = 4
  MaxParallel = 2
  QueueSize = 1
  Senders <- OneSender
CHECK_DEADLOCK FALSE
INVARIANTS
  TypeOK
  Verdict
PROPERTIES
  NoLateWork
  CallReturns
