CONSTANTS
    par = par
    c1 = c1
    c2 = c2
    Regions = {par, c1, c2}
    Threads = {m, a}
    Main = m
    None = None
    Shape <- Fork
    CapOps <- ShareCaps
    SpawnLists <- Siblings
    MaxCount = 2
    MaxDepth = 1
    Polite = TRUE
    ReadsBelow = FALSE
    SignKept = FALSE
SPECIFICATION Spec
INVARIANTS
    NoCircularWait
CHECK_DEADLOCK FALSE
