SPECIFICATION FairSpec
CONSTANTS
    t1 = t1  t2 = t2  m1 = m1  m2 = m2  reflect = reflect  NoTurn = NoTurn
    Turns <- MCTurns
    Main <- MCMain
    Others <- MCOthers
    Owner <- MCOwner
    Streaming <- MCStreaming
    Persistent <- MCPersistent
    Pictures <- MCPictures
    Fallbacks = 2
    Retries = 1
    Threshold = 2
    Identical = 2
    Budget = 0
    MaxCalls = 2
    MaxAttempts = 3
    MaxTogether = 2
INVARIANTS CallsConsistent OneVoice
PROPERTIES AllTried CallEnds
CHECK_DEADLOCK FALSE
