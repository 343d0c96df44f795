\* A referral, a sweep and two bare appends at once; one row may be edited or deleted
\* behind the trigger, at any moment.
SPECIFICATION FairSpec
CONSTANTS
    Writers = {r1, s1, p1, p2}
    Locking = {r1, s1}
    Referral = {r1}
    Batch <- Events3
    Receipt = Receipt
    NoWriter = NoWriter
    Tampering = TRUE
INVARIANT ChainVerifies
INVARIANT EditIsFound
PROPERTY OnlyBareAppendsRefuse
PROPERTY KeepsLog
PROPERTY EveryWriterEnds
CHECK_DEADLOCK FALSE
