SPECIFICATION FairSpec
CONSTANTS
    Msgs <- StopMsgs
    SessionOf <- StopSession
    Kind <- StopKind
    Sessions <- TwoSessions
    WebSessions <- AliceIsWeb
    InboundMax = 1
    OutboundMax = 1
    PendingMax = 2
    DrainMax = 2
    GateMax = 1
    NoTask = NoTask
INVARIANTS TypeOK StopCancelsAll DroppedOnRequest
PROPERTIES LoopReturns EventuallySettled ServiceSpec
