SPECIFICATION Spec
CONSTANTS
  NPROC = 4
  MaxPid = 4
  KillArgs = {0, 3}
  MemFails = TRUE
  CopyFails = TRUE
INVARIANTS
  WellFormed
  ParentCanWait
  StatusDelivered
  OnlyVictimsKilled
  InitHasShell
CHECK_DEADLOCK FALSE
