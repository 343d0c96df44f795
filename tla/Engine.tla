------------------------------- MODULE Engine -------------------------------
(***************************************************************************)
(* The decision engine: domain/engine.ts, scorecard.ts and reason-codes.ts *)
(* over a policy of domain/policy.ts. Everything is an operator of its     *)
(* arguments: no clock, no state.                                          *)
(***************************************************************************)
EXTENDS Money, Calendar, Sequences, SequencesExt

CONSTANTS
    Gap,           \* undefined: the bureau did not supply the attribute
    None,          \* null: a fact, or a field that does not apply
    Alphabetical   \* the reason codes of the factors, in localeCompare order

-----------------------------------------------------------------------------
(***************************************************************************)
(* What a policy file must satisfy to be loaded. A product is              *)
(* [minAmount, maxAmount, minTerm, maxTerm, rate, ceiling]; a factor is    *)
(* [maxPoints, reasonCode, input, bands, default]; a band is               *)
(* [test, arg, points], with one predicate by construction.                *)
(***************************************************************************)

Codes(registry) == {registry[i] : i \in DOMAIN registry}

FactorCoherent(factor, policy) ==
    /\ factor.bands # <<>> /\ factor.maxPoints > 0
    /\ \A i \in DOMAIN factor.bands : factor.bands[i].points \in 0 .. factor.maxPoints
    /\ factor.default \in 0 .. factor.maxPoints
    /\ factor.input \in policy.requiredInputs
    /\ factor.reasonCode \in Codes(policy.registry)

ProductCoherent(product) ==
    /\ 0 < product.minAmount /\ product.minAmount <= product.maxAmount
    /\ 0 < product.minTerm /\ product.minTerm <= product.maxTerm
    /\ product.rate.num >= 0 /\ product.rate.den > 0
    /\ product.ceiling >= product.minAmount

Coherent(policy) ==
    /\ DOMAIN policy.products # {}
    /\ \A p \in DOMAIN policy.products : ProductCoherent(policy.products[p])
    /\ 0 < policy.minAge /\ policy.minAge < policy.maxAgeAtMaturity
    /\ 0 < policy.maxDti.num /\ policy.maxDti.num < policy.maxDti.den
    /\ policy.rounding > 0 /\ policy.validityDays > 0
    /\ policy.thinFileInputs # {} /\ policy.requiredInputs # {}
    /\ policy.factors # <<>>
    /\ \A i \in DOMAIN policy.factors : FactorCoherent(policy.factors[i], policy)
    /\ policy.maxPoints
         = SumFunction([i \in DOMAIN policy.factors |-> policy.factors[i].maxPoints])
    /\ policy.referralFrom < policy.autoApproveFrom
    /\ policy.autoApproveFrom <= policy.maxPoints
    /\ policy.maxDisclosed \in 1 .. 4 /\ policy.materialPointsLost >= 0
    /\ policy.maxConsentHours > 0
    /\ \A i, j \in DOMAIN policy.registry :
           policy.registry[i] = policy.registry[j] => i = j

-----------------------------------------------------------------------------
(***************************************************************************)
(* The scorecard (D3) and the gate in front of it.                         *)
(***************************************************************************)

\* A band that compares with an order holds for numbers only.
Matches(band, value) ==
    \/ band.test = "eq" /\ value = band.arg
    \/ /\ value \in Int
       /\ \/ band.test = "lt"  /\ value < band.arg
          \/ band.test = "lte" /\ value <= band.arg
          \/ band.test = "gte" /\ value >= band.arg

ScoredInputs == {"worstDelinquencyLast24m", "revolvingUtilizationPct",
                 "oldestAccountAgeMonths", "hardInquiriesLast6m",
                 "distinctAccountTypes", "totalAccounts", "monthlyObligationsMinor"}

ReadInput(report, input) == IF input \in ScoredInputs THEN report[input] ELSE Gap

RequiredInputs(policy) == policy.requiredInputs \cup policy.thinFileInputs

StructuralInputs == {"hasActiveDelinquency", "monthsSinceBankruptcy",
                     "monthsSinceChargeOff", "subjectMatch"}

\* A match that names only one of its two parts is the same gap one level down.
MatchIncomplete(report) ==
    /\ report.subjectMatch # Gap
    /\ Gap \in {report.subjectMatch.name, report.subjectMatch.born}

\* Mutant: the inputs of the thin-file floor may be missing.
MissingInputsScoredOnly(report, policy) ==
    {i \in policy.requiredInputs : ReadInput(report, i) = Gap}
      \cup {i \in StructuralInputs : report[i] = Gap}
      \cup {i \in {"subjectMatch"} : MatchIncomplete(report)}

MissingInputs(report, policy) ==
    {i \in RequiredInputs(policy) : ReadInput(report, i) = Gap}
      \cup {i \in StructuralInputs : report[i] = Gap}
      \cup {i \in {"subjectMatch"} : MatchIncomplete(report)}

IsComplete(report, policy) == MissingInputs(report, policy) = {}

\* What a factor awards at its n-th band; the default when there is none.
AwardAt(factor, n) ==
    LET awarded == IF n = 0 THEN factor.default ELSE factor.bands[n].points
    IN  [awarded |-> awarded, lost |-> factor.maxPoints - awarded,
         reasonCode |-> factor.reasonCode]

\* FIRST_MATCH_WINS.
Award(factor, value) ==
    AwardAt(factor, SelectInSeq(factor.bands, LAMBDA band : Matches(band, value)))

Awards(report, policy) ==
    [i \in DOMAIN policy.factors |->
        Award(policy.factors[i], ReadInput(report, policy.factors[i].input))]

Score(awards) == SumFunction([i \in DOMAIN awards |-> awards[i].awarded])

-----------------------------------------------------------------------------
(***************************************************************************)
(* Which reasons are disclosed, and in what order.                         *)
(***************************************************************************)

\* The elements of a finite set in the order of a strict total order on it.
InOrder(S, before) ==
    [n \in 1 .. Cardinality(S) |->
        CHOOSE x \in S : Cardinality({y \in S : <<y, x>> \in before}) = n - 1]

\* The elements of a sequence at some of its positions, in an order of those.
Arranged(seq, S, before) ==
    LET position == InOrder(S, before)
    IN  [n \in 1 .. Cardinality(S) |-> seq[position[n]]]

Ascending(S) == {p \in S \X S : p[1] < p[2]}

\* Array.prototype.sort: positions neither of which precedes keep their order.
Stable(S, precedes) ==
    {p \in S \X S : p \in precedes \/ (<<p[2], p[1]>> \notin precedes /\ p[1] < p[2])}

PlaceIn(seq, code) == SelectInSeq(seq, LAMBDA c : c = code)

\* A code the registry does not name ranks behind all it names.
Rank(policy, code) ==
    IF code \in Codes(policy.registry)
    THEN PlaceIn(policy.registry, code)
    ELSE Len(policy.registry) + 1

ByRank(codes, policy) ==
    LET positions == DOMAIN codes
    IN  Stable(positions, {p \in positions \X positions :
                               Rank(policy, codes[p[1]]) < Rank(policy, codes[p[2]])})

\* Mutant: the smallest losses first.
LosesMoreAscending(a, b) ==
    \/ a.lost < b.lost
    \/ /\ a.lost = b.lost
       /\ PlaceIn(Alphabetical, a.reasonCode) < PlaceIn(Alphabetical, b.reasonCode)

LosesMore(a, b) ==
    \/ a.lost > b.lost
    \/ /\ a.lost = b.lost
       /\ PlaceIn(Alphabetical, a.reasonCode) < PlaceIn(Alphabetical, b.reasonCode)

ByLoss(awards) ==
    LET positions == DOMAIN awards
    IN  Stable(positions, {p \in positions \X positions : LosesMore(awards[p[1]], awards[p[2]])})

\* The places of the factors that lost a material number of points.
Material(awards, policy) ==
    {i \in DOMAIN awards : awards[i].lost >= policy.materialPointsLost}

CodesOf(awards) == [i \in DOMAIN awards |-> awards[i].reasonCode]

MaterialCodes(awards, policy) ==
    Arranged(CodesOf(awards), Material(awards, policy), ByLoss(awards))

Distinct(seq) ==
    LET first == {i \in DOMAIN seq : \A j \in 1 .. i - 1 : seq[j] # seq[i]}
    IN  Arranged(seq, first, Ascending(first))

Capped(seq, n) == SubSeq(seq, 1, Min({n, Len(seq)}))

\* Mutant: the code that decided is left out.
DiscloseReasonCodesOfFactors(decisive, awards, policy) ==
    Capped(Distinct(MaterialCodes(awards, policy)), policy.maxDisclosed)

DiscloseReasonCodes(decisive, awards, policy) ==
    LET leading == Arranged(decisive, DOMAIN decisive, ByRank(decisive, policy))
    IN  Capped(Distinct(leading \o MaterialCodes(awards, policy)), policy.maxDisclosed)

\* The codes of the rules that hold, in the order of the rules.
Fired(rules) ==
    Arranged([i \in DOMAIN rules |-> rules[i].code],
             {i \in DOMAIN rules : rules[i].holds},
             Ascending(DOMAIN rules))

Rule(code, holds) == [code |-> code, holds |-> holds]

-----------------------------------------------------------------------------
(***************************************************************************)
(* The pipeline. An application is [product, requested, term, born,        *)
(* income, obligations]; a lookup is [outcome, report, cause].             *)
(***************************************************************************)

Terminal(verdict, stage, codes, policy, awards, score, dti) ==
    [verdict  |-> verdict, stage |-> stage,
     reasons  |-> DiscloseReasonCodes(codes, awards, policy),
     approved |-> None, payment |-> None, expires |-> None,
     score    |-> score, dti |-> dti]

Unscored(verdict, stage, codes, policy) ==
    Terminal(verdict, stage, codes, policy, <<>>, None, None)

ScreeningRules(a, policy, now) ==
    LET product == policy.products[a.product]
    IN  <<Rule("AGE_BELOW_MINIMUM", AgeAt(a.born, now) < policy.minAge),
          Rule("AGE_ABOVE_MAXIMUM_AT_MATURITY",
               AgeAt(a.born, AddMonths(now, a.term)) > policy.maxAgeAtMaturity),
          Rule("AMOUNT_OUTSIDE_PRODUCT_LIMITS",
               a.requested \notin product.minAmount .. product.maxAmount),
          Rule("TERM_OUTSIDE_PRODUCT_LIMITS",
               a.term \notin product.minTerm .. product.maxTerm),
          Rule("INCOME_BELOW_MINIMUM", a.income < policy.minMonthlyIncome)>>

\* S1, before the bureau is asked: screen returns null, or the knockout.
Passes(a, policy, now) ==
    \A i \in DOMAIN ScreeningRules(a, policy, now) : ~ ScreeningRules(a, policy, now)[i].holds

Knockout(a, policy, now) ==
    Unscored("DECLINED", "S1", Fired(ScreeningRules(a, policy, now)), policy)

Within(months, limit) == months # None /\ months <= limit

\* D2. None is "none on file", and holds nothing against anyone.
Knockouts(report, policy) ==
    Fired(<<Rule("ACTIVE_DELINQUENCY",
                 policy.activeDelinquency /\ report.hasActiveDelinquency),
            Rule("BANKRUPTCY_ON_FILE",
                 Within(report.monthsSinceBankruptcy, policy.bankruptcyWithin)),
            Rule("CHARGE_OFF_ON_FILE",
                 Within(report.monthsSinceChargeOff, policy.chargeOffWithin))>>)

Below(value, floor) == value # Gap /\ value < floor

\* D4, ahead of both score bands.
Referrals(a, report, policy) ==
    Fired(<<Rule("THIN_FILE",
                 \/ Below(report.oldestAccountAgeMonths, policy.minOldestAccount)
                 \/ Below(report.totalAccounts, policy.minTotalAccounts)),
            Rule("IDENTITY_MISMATCH",
                 ~ (report.subjectMatch.name /\ report.subjectMatch.born)),
            Rule("AMOUNT_ABOVE_AUTO_LIMIT",
                 a.requested > policy.products[a.product].ceiling)>>)

\* The bureau sees obligations an applicant may omit.
Obligations(a, report) ==
    IF report.monthlyObligationsMinor = Gap
    THEN a.obligations
    ELSE report.monthlyObligationsMinor

Offer(codes, amount, a, owed, awards, policy, now) ==
    LET product == policy.products[a.product]
        payment == AnnuityPayment(amount, Unit(product.rate, a.term))
    IN  [verdict  |-> "APPROVED", stage |-> "D7",
         reasons  |-> DiscloseReasonCodes(codes, awards, policy),
         approved |-> amount, payment |-> payment,
         expires  |-> DayOf(now) + policy.validityDays,
         score    |-> Score(awards), dti |-> DebtToIncome(owed, payment, a.income)]

\* The room the limit leaves for an instalment.
Headroom(income, owed, limit) ==
    [num |-> limit.num * income - owed * limit.den, den |-> limit.den]

\* Mutant: the amount is cut in proportion to the ratio.
CounterOfferInProportion(a, owed, policy) ==
    LET payment == AnnuityPayment(a.requested, Unit(policy.products[a.product].rate, a.term))
        share   == (10000 * policy.maxDti.num) \div policy.maxDti.den
    IN  (((a.requested * share) \div DebtToIncome(owed, payment, a.income))
           \div policy.rounding) * policy.rounding

CounterOffer(a, owed, policy) ==
    MaxPrincipal(Headroom(a.income, owed, policy.maxDti),
                 Unit(policy.products[a.product].rate, a.term), policy.rounding)

\* D7, last and terminal.
Afford(a, report, awards, policy, now) ==
    LET product == policy.products[a.product]
        owed    == Obligations(a, report)
        asked   == Offer(<<>>, a.requested, a, owed, awards, policy, now)
        less    == CounterOffer(a, owed, policy)
    IN  IF WithinLimit(asked.dti, policy.maxDti)
        THEN asked
        ELSE IF policy.counterOfferEnabled /\ less >= product.minAmount
        THEN Offer(<<"AMOUNT_REDUCED_TO_FIT_DTI">>, less, a, owed, awards, policy, now)
        ELSE Terminal("DECLINED", "D7", <<"DTI_ABOVE_LIMIT">>, policy, awards,
                      Score(awards), asked.dti)

\* D2 to D7, for a report without gaps: the first rule that concludes wins.
DecideOnReport(a, report, policy, now) ==
    LET awards == Awards(report, policy)
        score  == Score(awards)
        knocks == Knockouts(report, policy)
        refers == Referrals(a, report, policy)
        With(verdict, stage, codes) ==
            Terminal(verdict, stage, codes, policy, awards, score, None)
    IN  IF knocks # <<>> THEN Unscored("DECLINED", "D2", knocks, policy)
        ELSE IF refers # <<>> THEN With("MANUAL_REVIEW", "D4", refers)
        ELSE IF score < policy.referralFrom THEN With("DECLINED", "D5", <<>>)
        ELSE IF score < policy.autoApproveFrom
             THEN With("MANUAL_REVIEW", "D6", <<"SCORE_IN_REFERRAL_BAND">>)
        ELSE Afford(a, report, awards, policy, now)

\* D1: three ways of knowing nothing, with three reasons.
Decide(a, lookup, policy, now) ==
    LET Refer(code) == Unscored("MANUAL_REVIEW", "D1", <<code>>, policy)
    IN  IF lookup.outcome = "UNAVAILABLE" THEN Refer("BUREAU_UNAVAILABLE")
        ELSE IF lookup.outcome = "NO_HIT" THEN Refer("NO_CREDIT_FILE")
        ELSE IF ~ IsComplete(lookup.report, policy) THEN Refer("BUREAU_DATA_INCOMPLETE")
        ELSE DecideOnReport(a, lookup.report, policy, now)
=============================================================================
