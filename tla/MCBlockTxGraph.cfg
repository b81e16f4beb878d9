SPECIFICATION Spec
CONSTANTS
  N = 4
  Claims = {c1, c2}
  Blocks <- AllBlocks
INVARIANTS
  TypeOK
  HandOver
  NoStall
  ConflictsOrdered
  OnlyConflicts
