SPECIFICATION FairSpec
CONSTANTS
  Workers <- TwoWorkers
  Iterations <- TwoIterations
  Tickers <- OneTicker
  Runs <- OneRun
  MaxHeight = 2
CHECK_DEADLOCK FALSE
INVARIANTS
  TypeOK
  OneInFlight
  Watched
  ExitsClean
PROPERTIES
  ShutdownEnds
  KeepsTrying
