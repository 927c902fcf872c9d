SPECIFICATION FairSpec
CONSTANTS
    r1 = r1
    r2 = r2
    r3 = r3
    w1 = w1
    Reader = {r1, r2, r3}
    World = {w1}
    Capacity = 3
    MaxTick = 4
INVARIANTS
    CountsExact
    SeenAreSealed
PROPERTIES
    PublicationsAscend
    ImplementsRegister
    ExhaustionEnds
CHECK_DEADLOCK FALSE
