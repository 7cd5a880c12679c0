CONSTANTS
    par = par
    c1 = c1
    c2 = c2
    Regions = {par, c1, c2}
    Threads = {m, a}
    Main = m
    None = None
    Shape <- Fork
    CapOps <- ParentCaps
    SpawnLists <- Family
    MaxCount = 2
    MaxDepth = 1
    Polite = TRUE
    ReadsBelow = FALSE
    SignKept = TRUE
SYMMETRY Children
SPECIFICATION Spec
INVARIANTS
    TreeExclusion
    TreeSound
    FreedOnce
    NoDeadHandle
    LockopAssertions
    NoCircularWait
CHECK_DEADLOCK FALSE
