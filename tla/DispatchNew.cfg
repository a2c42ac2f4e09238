SPECIFICATION Spec
CONSTANTS
    Msgs <- NewMsgs
    SessionOf <- NewSession
    Kind <- NewKind
    Sessions <- TwoSessions
    WebSessions <- AliceIsWeb
    InboundMax = 1
    OutboundMax = 1
    PendingMax = 1
    DrainMax = 2
    GateMax = 2
    NoTask = NoTask
INVARIANTS SessionSerial OnePlace NothingStranded
