CONSTANTS
    Hosts = {h1, h2, h3}
    Null = Null
    Cb = cb
    Svc = svc
    NoClosure = NoClosure
SPECIFICATION FairSpec
INVARIANTS
    TypeOK
    BuilderPointsToOwned
    RefusalReleasesAll
    ServiceOutlivesThread
PROPERTIES
    OwnerSpec
    DropTerminates
