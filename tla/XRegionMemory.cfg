CONSTANTS
    Threads = {t1, t2, t3}
    Main = t1
    Nobody = nobody
    Requests = {3, 8, 13}
    Files = {f1, f2}
    Align = 2
    Header = 2
    DefaultPage = 4
    Word = 16
    MaxBlocks = 3
\* Nothing happens any more when the last thread has freed the region.
CHECK_DEADLOCK FALSE
SPECIFICATION FairSpec
INVARIANTS
    BlocksDisjoint
    BlocksInPages
    HeldOnlyAfterFailure
    FilesFreedOnce
PROPERTIES
    ImplementsMutex
    CallsReturn
