SPECIFICATION Spec
CONSTANTS
  Callers <- WithJob
  Daemon = "daemon"
  ChainSync = "chainsync"
  Variants = {1, 2}
  ReorgLimit = 3
  MaxHeight = 3
  MaxReorgs = 1
  MaxFaults = 0
  MaxReorgFaults = 0
  MaxRemoveFaults = 0
PROPERTIES
  StartsInOrder
