CONSTANTS
    Slots = {event, video}
    Closures = {c1, c2, c3}
    Threads = {main, ctrl, takion}
    SessionThread = main
    App = app
    NoClosure = NoClosure
    AppSetsLate = FALSE
    CallsFromCallback = FALSE
SPECIFICATION FairSpec
INVARIANTS
    TypeOK
    BoxesOutliveCalls
    SessionOutlivesThreads
PROPERTIES
    OwnerSpec
    LifeSpec
    DropTerminates
    StoppedJoinReturns
