SPECIFICATION FairSpec
CONSTANTS
  Callers <- JustDaemon
  Daemon = "daemon"
  ChainSync = "chainsync"
  Variants = {1, 2}
  ReorgLimit = 2
  MaxHeight = 4
  MaxReorgs = 2
  MaxFaults = 2
  MaxReorgFaults = 1
  MaxRemoveFaults = 0
INVARIANTS
  TypeOK
  InOrder
  OneBranch
  AtHead
PROPERTIES
  CatchesUp
