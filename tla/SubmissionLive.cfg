\* Two requests that stall and crash, and a sweeper that races with them: what
\* always holds, and that everything settles.
SPECIFICATION FairSpec
CONSTANTS
    Requests = {r1, r2}
    OtherBody = {}
    BodyOf <- TwoBodies
    NoApp = NoApp
    KeyLease = 0
    Retention = 1
    SweepAfter = 0
    HoldBound = 1
    SweepRaces = TRUE
    LastArrival = 1
    LastTick = 3
INVARIANT DecisionIsWhole
INVARIANT AnswerIsTheDecision
PROPERTY EveryApplicationSettles
PROPERTY EveryKeyIsReleased
PROPERTY EveryAnswerExpires
PROPERTY EveryRequestEnds
CHECK_DEADLOCK FALSE
