SPECIFICATION FairSpec
CONSTANTS
  Callers <- JustDaemon
  Daemon = "daemon"
  ChainSync = "chainsync"
  Variants = {1, 2}
  ReorgLimit = 3
  MaxHeight = 3
  MaxReorgs = 1
  MaxFaults = 0
  MaxReorgFaults = 1
  MaxRemoveFaults = 0
PROPERTIES
  HandlesReorgs
