SPECIFICATION Spec
CONSTANTS
  u1 = u1
  u2 = u2
  v1 = v1
  v2 = v2
  Use = {u1, u2, v1, v2}
  Outer <- MCOuter
  log = log
  indirect = indirect
  bitmap = bitmap
  Block = {log, indirect, bitmap}
  Rank <- MCRank
  Data = {d1, d2}
  NBUF = 2
  MaxPin = 1
  Nobody = Nobody
  NoBlock = NoBlock
SYMMETRY Sym
INVARIANTS
  WellFormed
  NoWaitCycle
PROPERTIES
  IsStore
CHECK_DEADLOCK FALSE
