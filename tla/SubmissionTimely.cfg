\* Requests finish inside their lease; the sweeper keeps off live applications.
SPECIFICATION Spec
CONSTANTS
    Requests = {r1, r2, r3}
    OtherBody = {r3}
    BodyOf <- TwoBodies
    NoApp = NoApp
    KeyLease = 1
    Retention = 3
    SweepAfter = 2
    HoldBound = 1
    SweepRaces = FALSE
    LastArrival = 4
    LastTick = 6
SYMMETRY Interchangeable
INVARIANT OneApplicationPerKey
INVARIANT KeyTellsItsAnswer
INVARIANT TrailInOrder
INVARIANT FingerprintRespected
INVARIANT MismatchIsReal
PROPERTY ImplementsLifecycle
CHECK_DEADLOCK FALSE
