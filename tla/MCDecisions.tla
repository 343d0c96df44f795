---------------------------- MODULE MCDecisions ----------------------------
(***************************************************************************)
(* An instance of Decisions. The scorecard of version one is that of       *)
(* policies/2026.09.1.json, band for band. Its money is scaled to TLC's    *)
(* integers: ten minor units are one, a month costs a tenth, and a loan    *)
(* runs for at most two.                                                   *)
(***************************************************************************)
EXTENDS Decisions

CONSTANTS NoDelinquency, Dpd30, Dpd60, Dpd90, ChargedOff

Codes5 == <<"CREDIT_UTILIZATION_TOO_HIGH", "INSUFFICIENT_CREDIT_HISTORY_LENGTH",
            "LIMITED_CREDIT_MIX", "PAYMENT_HISTORY_ADVERSE", "TOO_MANY_RECENT_INQUIRIES">>

Band(test, arg, points) == [test |-> test, arg |-> arg, points |-> points]

Factor(max, code, input, bands) ==
    [maxPoints |-> max, reasonCode |-> code, input |-> input, bands |-> bands, default |-> 0]

Factors ==
    <<Factor(35, "PAYMENT_HISTORY_ADVERSE", "worstDelinquencyLast24m",
             <<Band("eq", NoDelinquency, 35), Band("eq", Dpd30, 22), Band("eq", Dpd60, 11),
               Band("eq", Dpd90, 3), Band("eq", ChargedOff, 0)>>),
      Factor(30, "CREDIT_UTILIZATION_TOO_HIGH", "revolvingUtilizationPct",
             <<Band("lt", 10, 30), Band("lt", 30, 26), Band("lt", 50, 18),
               Band("lt", 75, 10), Band("lt", 90, 4), Band("gte", 90, 0)>>),
      Factor(15, "INSUFFICIENT_CREDIT_HISTORY_LENGTH", "oldestAccountAgeMonths",
             <<Band("gte", 84, 15), Band("gte", 48, 12), Band("gte", 24, 8),
               Band("gte", 12, 4), Band("lt", 12, 0)>>),
      Factor(10, "TOO_MANY_RECENT_INQUIRIES", "hardInquiriesLast6m",
             <<Band("eq", 0, 10), Band("eq", 1, 8), Band("eq", 2, 6),
               Band("lte", 4, 3), Band("gte", 5, 0)>>),
      Factor(10, "LIMITED_CREDIT_MIX", "distinctAccountTypes",
             <<Band("gte", 3, 10), Band("eq", 2, 7), Band("eq", 1, 4), Band("eq", 0, 0)>>)>>

Registry ==
    <<"AGE_BELOW_MINIMUM", "AGE_ABOVE_MAXIMUM_AT_MATURITY", "AMOUNT_OUTSIDE_PRODUCT_LIMITS",
      "TERM_OUTSIDE_PRODUCT_LIMITS", "INCOME_BELOW_MINIMUM", "ACTIVE_DELINQUENCY",
      "BANKRUPTCY_ON_FILE", "CHARGE_OFF_ON_FILE", "PAYMENT_HISTORY_ADVERSE",
      "CREDIT_UTILIZATION_TOO_HIGH", "INSUFFICIENT_CREDIT_HISTORY_LENGTH",
      "TOO_MANY_RECENT_INQUIRIES", "LIMITED_CREDIT_MIX", "DTI_ABOVE_LIMIT",
      "AMOUNT_REDUCED_TO_FIT_DTI", "SCORE_IN_REFERRAL_BAND", "THIN_FILE", "NO_CREDIT_FILE",
      "AMOUNT_ABOVE_AUTO_LIMIT", "IDENTITY_MISMATCH", "BUREAU_UNAVAILABLE",
      "BUREAU_DATA_INCOMPLETE">>

PersonalLoan == [minAmount |-> 20000, maxAmount |-> 50000, minTerm |-> 1, maxTerm |-> 2,
                 rate |-> [num |-> 1, den |-> 10], ceiling |-> 35000]

September ==
    [version |-> "September", currency |-> "USD", products |-> [personal |-> PersonalLoan],
     minAge |-> 18, maxAgeAtMaturity |-> 75, minMonthlyIncome |-> 20000,
     activeDelinquency |-> TRUE, bankruptcyWithin |-> 24, chargeOffWithin |-> 24,
     maxDti |-> [num |-> 43, den |-> 100], counterOfferEnabled |-> TRUE, rounding |-> 1000,
     minOldestAccount |-> 6, minTotalAccounts |-> 2,
     thinFileInputs |-> {"oldestAccountAgeMonths", "totalAccounts"},
     requiredInputs |-> {Factors[i].input : i \in DOMAIN Factors},
     factors |-> Factors, maxPoints |-> 100, autoApproveFrom |-> 70, referralFrom |-> 45,
     maxDisclosed |-> 4, materialPointsLost |-> 5, registry |-> Registry, validityDays |-> 30,
     maxConsentHours |-> 24]

\* A later version: free of interest, for smaller incomes, stricter about age and
\* score.
October ==
    [September EXCEPT
        !.version = "October", !.minAge = 21, !.minMonthlyIncome = 1000,
        !.products = [personal |-> [PersonalLoan EXCEPT !.rate.num = 0, !.maxAmount = 40000]],
        !.maxDti = [num |-> 1, den |-> 2], !.rounding = 500, !.bankruptcyWithin = 36,
        !.autoApproveFrom = 80, !.referralFrom = 50, !.validityDays = 14]

ASSUME BothAreCareful == Careful(September) /\ Careful(October)

ASSUME ShippedLimitIsExact == ExactLimit(September)

TwoPolicies == [September |-> September, October |-> October]

WinterDays == {Date(2028, 1, 31), Date(2028, 2, 1), Date(2028, 2, 29)}

Ask(amount, term, income, obligations, born) ==
    [product |-> "personal", currency |-> "USD", requested |-> amount, term |-> term,
     income |-> income, obligations |-> obligations, born |-> born]

Adult == Date(1988, 2, 29)

Stretched == Ask(35000, 2, 30000, 3000, Adult)

SeveralBodies ==
    {Stretched,
     Ask(35000, 2, 60000, 0, Adult),             \* affordable, at the ceiling
     Ask(36000, 1, 100000, 0, Adult),            \* above the ceiling
     Ask(20000, 2, 20000, 2000, Adult),          \* not even the minimum fits
     Ask(50000, 2, 25000, 90000, Adult),         \* declares more than is earned
     Ask(20000, 1, 1000, 100000, Adult),         \* owes a hundred times the income
     Ask(20000, 1, 60000, 0, Date(2010, 2, 1)),  \* of age in February
     Ask(20000, 1, 60000, 0, Date(2007, 2, 28)),
     Ask(20000, 1, 60000, 0, Date(1952, 3, 2)),  \* too old on 31 January only
     Ask(60000, 3, 500, 0, Date(2015, 6, 1))}  \* fails five ways

CleanReport ==
    [worstDelinquencyLast24m |-> NoDelinquency, revolvingUtilizationPct |-> 5,
     oldestAccountAgeMonths |-> 84, hardInquiriesLast6m |-> 0, distinctAccountTypes |-> 3,
     totalAccounts |-> 2, monthlyObligationsMinor |-> 1000, hasActiveDelinquency |-> FALSE,
     monthsSinceBankruptcy |-> None, monthsSinceChargeOff |-> None,
     subjectMatch |-> [name |-> TRUE, born |-> TRUE]]

Gaps == {[CleanReport EXCEPT ![i] = Gap] : i \in DOMAIN CleanReport}
          \cup {[CleanReport EXCEPT !.subjectMatch.born = Gap]}

Blemished ==
    {[CleanReport EXCEPT !.hasActiveDelinquency = TRUE, !.monthsSinceChargeOff = 0],
     [CleanReport EXCEPT !.monthsSinceBankruptcy = 24],
     [CleanReport EXCEPT !.monthsSinceBankruptcy = 25],
     [CleanReport EXCEPT !.totalAccounts = 1, !.subjectMatch.name = FALSE],
     [CleanReport EXCEPT !.oldestAccountAgeMonths = 5]}

\* One value inside every band of the three heaviest factors, and of the other
\* two one that loses nothing and one that loses a material number of points.
Swept ==
    {[CleanReport EXCEPT !.worstDelinquencyLast24m = p, !.revolvingUtilizationPct = u,
                         !.oldestAccountAgeMonths = h, !.hardInquiriesLast6m = q,
                         !.distinctAccountTypes = t] :
        p \in {NoDelinquency, Dpd30, Dpd60, Dpd90, ChargedOff},
        u \in {9, 10, 30, 50, 75, 90}, h \in {84, 48, 24, 12, 6},
        q \in {0, 4}, t \in {1, 3}}

LookupsOf(body) ==
    {NoHit, Unavailable("WAIT_EXPIRED"), Unavailable("RETRIES_EXHAUSTED")}
      \cup {Found(r) : r \in Gaps \cup Blemished \cup {CleanReport}}
      \cup (IF body = Stretched THEN {Found(r) : r \in Swept} ELSE {})
=============================================================================
