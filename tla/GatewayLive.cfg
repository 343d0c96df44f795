\* Two requests whose holders crash, lose their records and stall past their
\* lease: what waiters conclude, and that every call returns.
SPECIFICATION FairSpec
CONSTANTS
    Requests = {r1, r2}
    ClaimLease = 1
    Wait = 2
    TTL = 2
    ClaimRetention = 1
    MaxAttempts = 2
    HoldBound = 3
    Faults = {"crash", "record", "store"}
    LastArrival = 3
    LastTick = 8
INVARIANT WaitExpiredOnlyWithoutReport
PROPERTY EveryCallReturns
CHECK_DEADLOCK FALSE
