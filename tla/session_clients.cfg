SPECIFICATION Spec
CONSTANTS
    Pairs = {p1, p2, p3}
    NoPair = NoPair
    FrameLens = {1, 2}
INVARIANTS
    TypeOK
    SinkReachesLive
    BoxesOwned
    FrameReachesSession
    SnifferUnshared
CHECK_DEADLOCK FALSE
