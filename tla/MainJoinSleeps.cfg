CONSTANTS
    Threads = {m, a}
    Main = m
    None = None
    Word = 8
    MaxSpawns = 2
SPECIFICATION FairSpec
PROPERTY JoinReturns
