CONSTANTS
    Threads = {t1, t2, t3}
    Main = t1
    Nobody = nobody
    MaxStops = 2
    MaxRetryStops = 1
SPECIFICATION FairSpec
INVARIANTS
    WorldStopped
    NoStrayAck
PROPERTIES
    MarkingUndisturbed
    StopsEnd
    ThreadsGoOn
