CONSTANTS
    Threads = {m, a, b}
    Main = m
    None = None
    CapOps <- WriteOps
    SpawnCaps <- WithWrite
    MaxCount = 2
SPECIFICATION Spec
SYMMETRY Perms
INVARIANT Exclusion
