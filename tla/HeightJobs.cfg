SPECIFICATION FairSpec
CONSTANTS
  MaxHeight = 4
  Txs = 2
  MaxErrors = 2
  MaxDepth = 2
  MaxReorgs = 1
  MaxDamage = 1
  MaxFaults = 1
  Increment = 2
CHECK_DEADLOCK FALSE
INVARIANTS
  TypeOK
  Reported
PROPERTIES
  Repairs
