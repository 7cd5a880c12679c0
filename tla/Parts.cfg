CONSTANTS
    Threads = {m, a, b}
    Main = m
    None = None
    Word = 8
    MaxSpawns = 5
    Keys = {0, 1, 2, 3}
    Addrs = {a1, a2, a3}
    Null = Null
    Primes <- Sizes
    MinSize = 0
    MaxLoad = 100
    MinLoad = 50
    Failures = TRUE
    Kinds = {"try", "region", "xrgn"}
    Ids = {i1, i2, i3}
    Top = top
    MaxNesting = 5
    MaxPages = 2
    UncaughtFun = TRUE
    MaxOther = 3
    Above = 9
    InitialSize = 1
    InitialLen = 1
    MaxBindings = 5
SPECIFICATION Spec
SYMMETRY Perms
INVARIANTS
    MainExitsLast
    MainIsWoken
    CountersSound
    SearchExact
    TableSound
    StackSound
    RegionsReclaimed
    DictExact
    RedBlack
    VersionsExact
    RootFound
    ShadowingKept
PROPERTY
    CaughtInnermost
