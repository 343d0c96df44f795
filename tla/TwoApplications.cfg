\* docs/02: one key, one application.
SPECIFICATION Spec
CONSTANTS
    Requests = {r1, r2}
    OtherBody = {}
    BodyOf <- TwoBodies
    NoApp = NoApp
    KeyLease = 1
    Retention = 9
    SweepAfter = 4
    HoldBound = 3
    SweepRaces = FALSE
    LastArrival = 3
    LastTick = 5
SYMMETRY Interchangeable
INVARIANT OneApplicationPerKey
CHECK_DEADLOCK FALSE
