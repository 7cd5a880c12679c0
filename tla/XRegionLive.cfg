CONSTANTS
    Threads = {m, a, b}
    Main = m
    None = None
    CapOps <- LockOps
    SpawnCaps <- RefOnly
    MaxCount = 2
    MaxCalls = 1
SPECIFICATION LiveSpec
PROPERTY CallsReturnUnlessOvertaken
CHECK_DEADLOCK FALSE
