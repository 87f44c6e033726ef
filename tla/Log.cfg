SPECIFICATION Spec
CONSTANTS
  Proc = {p1, p2}
  Block = {b1, b2}
  Data = {0, 1}
  MAXOPBLOCKS = 4
  LOGSIZE = 8
  NLog = 8
  OpBlocks = 2
  NoBuf = NoBuf
  Torn = Torn
  Nobody = Nobody
SYMMETRY Sym
INVARIANTS
  IInv
  QuiescentDurable
  SleeperHasWaker
PROPERTY CrashAtomic
