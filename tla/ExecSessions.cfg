SPECIFICATION FairSpec
CONSTANTS
    turn = turn  sub = sub  chat = chat  other = other  NoOne = NoOne
    Callers <- MCCallers
    Chats <- MCChats
    MaxSids = 3
    MaxSessions = 1
    IdleTimeout = 2
    PollMax = 1
    Timeout = 1
    MaxRounds = 2
    Environments <- MCEnvironments
INVARIANTS RegistryConsistent WholeOutput
PROPERTY CallReturns
CHECK_DEADLOCK FALSE
