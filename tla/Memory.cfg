SPECIFICATION FairSpec
CONSTANTS
    d1 = d1
    d2 = d2
    keeper = keeper
    user = user
    tea = tea
    coffee = coffee
    Worlds <- MCWorlds
    Keeper = keeper
    User = user
    MaxBatch = 2
    HistoryMax = 1
    LinesMax = 1
    Attempts = 2
INVARIANTS MemoryConsistent NothingSkipped
PROPERTIES AllDigested
CHECK_DEADLOCK FALSE
