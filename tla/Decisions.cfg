\* Ten applications under two policies, deployed, crashed and resumed over a month's end.
SPECIFICATION Spec
CONSTANTS
    Gap = Gap
    None = None
    Alphabetical <- Codes5
    NoDelinquency = NoDelinquency
    Dpd30 = Dpd30
    Dpd60 = Dpd60
    Dpd90 = Dpd90
    ChargedOff = ChargedOff
    Policies <- TwoPolicies
    Bodies <- SeveralBodies
    Answers <- LookupsOf
    Days <- WinterDays
INVARIANT TypeOK
INVARIANT ReplayMatches
INVARIANT EnquiryIsWarranted
INVARIANT OnlyTheRatioIsRefused
INVARIANT EnvelopeAgrees
INVARIANT OfferIsAffordable
INVARIANT AskingLessNeverHurts
INVARIANT PrincipalReasonsDisclosed
INVARIANT GapIsReferred
CHECK_DEADLOCK FALSE
