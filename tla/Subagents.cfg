SPECIFICATION FairSpec
CONSTANTS
    a = a  b = b  f = f  d = d  hi = hi  halt = halt  NoItem = NoItem
    Children <- MCChildren
    Foreign <- MCForeign
    Delegates <- MCDelegates
    Chats <- MCChats
    Stops <- MCStops
    Limit = 2
    InboundMax = 2
    PendingMax = 1
    DrainMax = 1
    MaxCycles = 1
INVARIANTS AgentsConsistent NoLonelyWait
PROPERTIES StopSilences ResultTold
CHECK_DEADLOCK FALSE
