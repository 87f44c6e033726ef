CONSTANTS
    p1 = p1
    p2 = p2
    Proc = {p1, p2}
    initproc = p1
    Scenarios <- MCScenarios
    Programs <- MCPrograms
    Grow <- MCGrow
    MaxSz = 12
SPECIFICATION Spec
INVARIANTS
    WellFormed
    PagesOwnedOnce
    CopyExact
