CONSTANTS
    Slots = {event, video}
    Closures = {c1, c2, c3, c4}
    Threads = {main, ctrl, takion}
    SessionThread = main
    App = app
    NoClosure = NoClosure
    AppSetsLate = TRUE
    CallsFromCallback = TRUE
SPECIFICATION Spec
SYMMETRY Symmetry
INVARIANTS
    RegisteredLive
    OwnedOnce
    JoinOkMeansQuiet
PROPERTIES
    ThreadsStartOnce
    NoCallSwallowed
CHECK_DEADLOCK FALSE
