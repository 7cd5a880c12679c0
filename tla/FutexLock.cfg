CONSTANTS
    Free = Free
    Threads = {t1, t2, t3}
SPECIFICATION FairSpec
INVARIANTS
    NoLostWakeup
PROPERTIES
    SomebodyGetsIt
    ImplementsMutex
