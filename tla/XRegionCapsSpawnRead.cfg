CONSTANTS
    Threads = {m, a, b}
    Main = m
    None = None
    CapOps <- TestOps
    SpawnCaps <- WithRead
    MaxCount = 2
SPECIFICATION Spec
SYMMETRY Perms
INVARIANT ReadersCounted
