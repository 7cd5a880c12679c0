CONSTANTS
    Threads = {m, a, b}
    Main = m
    None = None
    CapOps <- TestOps
    SpawnCaps <- RefOnly
    MaxCount = 2
SPECIFICATION Spec
SYMMETRY Perms
INVARIANTS
    Exclusion
    CountsExact
    FreedOnceAndLast
    CachedKeyIsOwn
    NoSleeperForgotten
PROPERTY ImplementsRegionLock
