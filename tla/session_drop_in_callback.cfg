CONSTANTS
    Slots = {event}
    Closures = {c1}
    Threads = {main, ctrl}
    SessionThread = main
    App = app
    NoClosure = NoClosure
    AppSetsLate = FALSE
    CallsFromCallback = TRUE
SPECIFICATION Spec
INVARIANTS
    SessionOutlivesThreads
CHECK_DEADLOCK FALSE
