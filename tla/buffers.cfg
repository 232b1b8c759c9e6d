SPECIFICATION FairSpec
CONSTANT Lengths <- MCLengths
INVARIANTS
    TypeOK
    InBounds
    RoomEnough
PROPERTY CallReturns
