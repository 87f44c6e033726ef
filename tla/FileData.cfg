CONSTANTS
    Proc = {1, 2}
    Inode = {1, 2}
    File = {"f1", "f2", "f3"}
    ino <- MCino
    NB = 4
    MAXOPBLOCKS = 6
    Workloads <- MCWorkloads
    MaxFaults = 1
    MaxCrashes = 1
SPECIFICATION Spec
INVARIANTS
    BlocksOwnedOnce
    CrashConsistent
    
PROPERTIES
    IsFileStore
CHECK_DEADLOCK FALSE
