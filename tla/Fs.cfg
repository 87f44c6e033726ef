\* Two processes; the root and two more inodes, and a table for all of them.
SPECIFICATION Spec
CONSTANTS
  p1 = p1
  p2 = p2
  a = a
  b = b
  Proc = {p1, p2}
  Name = {a, b}
  NInodes = 3
  NINODE = 3
  NoName = NoName
  Workloads <- BuildAndUnlink
  MaxLink = 2
  DotDot = FALSE
  DiskFull = TRUE
  Nobody = Nobody
SYMMETRY Sym
INVARIANTS RefExact NoPanic CacheFresh NoDangling NoLockCycle
CHECK_DEADLOCK FALSE
