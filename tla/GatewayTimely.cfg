\* Holders finish inside their lease; every kind of fault is injected.
SPECIFICATION Spec
CONSTANTS
    Requests = {r1, r2, r3}
    ClaimLease = 2
    Wait = 1
    TTL = 3
    ClaimRetention = 2
    MaxAttempts = 2
    HoldBound = 2
    Faults = {"crash", "record", "store"}
    LastArrival = 4
    LastTick = 7
SYMMETRY Interchangeable
INVARIANT FreshEvidence
PROPERTY KeepsPromise
CHECK_DEADLOCK FALSE
