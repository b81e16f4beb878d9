SPECIFICATION FairSpec
CONSTANTS
  Tx <- ThreeTx
  Spends <- Shapes
  MaxHeight = 2
  MaxTrouble = 1
CHECK_DEADLOCK FALSE
INVARIANTS
  TypeOK
  CommittedWhole
PROPERTIES
  NoDemotion
  Mirrors
