SPECIFICATION Spec
CONSTANTS
  Reader = {r1}
  Writer = {w1, w2}
  Byte = {0, 1}
  PIPESIZE = 2
  UINT = 4
  MaxN = 3
  Killable = {r1, w1, w2}
  Nobody = Nobody
SYMMETRY Sym
INVARIANTS
  WellFormed
  SleepIsJustified
PROPERTIES
  IsFifo
CHECK_DEADLOCK FALSE
