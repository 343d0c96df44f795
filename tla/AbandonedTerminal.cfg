\* docs/01 section 4: ABANDONED is terminal.
SPECIFICATION Spec
CONSTANTS
    Requests = {r1, r2}
    OtherBody = {}
    BodyOf <- TwoBodies
    NoApp = NoApp
    KeyLease = 1
    Retention = 3
    SweepAfter = 2
    HoldBound = 1
    SweepRaces = TRUE
    LastArrival = 3
    LastTick = 5
SYMMETRY Interchangeable
INVARIANT AbandonedIsTerminal
CHECK_DEADLOCK FALSE
