SPECIFICATION Spec
CONSTANTS
  Callers <- WithApi
  Daemon = "daemon"
  ChainSync = "chainsync"
  Variants = {1, 2}
  ReorgLimit = 2
  MaxHeight = 2
  MaxReorgs = 1
  MaxFaults = 1
  MaxReorgFaults = 1
  MaxRemoveFaults = 1
PROPERTIES
  LockedWrites
