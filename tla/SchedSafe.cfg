SPECIFICATION Spec
CONSTANTS
  CPU = {c1, c2}
  NoCPU = NoCPU
  NPROC = 2
SYMMETRY Sym
INVARIANTS
  WellFormed
  OneCPU
PROPERTIES
  SleepAtomic
