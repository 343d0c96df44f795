\* docs/02 4.3: no WAIT_EXPIRED during an outage.
SPECIFICATION Spec
CONSTANTS
    Requests = {r1, r2, r3}
    ClaimLease = 2
    Wait = 1
    TTL = 3
    ClaimRetention = 2
    MaxAttempts = 2
    HoldBound = 2
    Faults = {"crash", "record", "store"}
    LastArrival = 4
    LastTick = 7
SYMMETRY Interchangeable

CHECK_DEADLOCK FALSE
INVARIANT NoWaitExpiredInOutage
