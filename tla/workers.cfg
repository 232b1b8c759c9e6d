CONSTANTS
    Workers = {w1, w2}
    NoClosure = NoClosure
    Strings = {s1, s2}
    NoString = NoString
SPECIFICATION FairSpec
INVARIANTS
    TypeOK
    JoinedOnce
    WorkerOutlivesThread
    OnlineIdOutlivesThread
PROPERTIES
    OwnerSpec
    DropTerminates
