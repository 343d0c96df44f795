\* Three attempts whose timers may be a tick late; calls may hang for ever.
SPECIFICATION FairSpec
CONSTANTS
    MaxAttempts = 3
    Timeout = 1
    Backoff = 4
    ClaimLease = 12
    Lag = 1
INVARIANT EndingIsEarned
INVARIANT InsideTheLease
PROPERTY KeepsPromise
PROPERTY EveryPullReturns
CHECK_DEADLOCK FALSE
