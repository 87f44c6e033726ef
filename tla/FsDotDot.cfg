\* One process that uses ".." in its paths; the root and two more inodes.
SPECIFICATION Spec
CONSTANTS
  p1 = p1
  p2 = p2
  a = a
  b = b
  Proc = {p1}
  Name = {a, b}
  NInodes = 3
  NINODE = 3
  NoName = NoName
  Workloads <- Directories
  MaxLink = 2
  DotDot = TRUE
  DiskFull = FALSE
  Nobody = Nobody
SYMMETRY Sym
INVARIANTS NoPanic
CHECK_DEADLOCK FALSE
