----------------------------- MODULE Decisions -----------------------------
(***************************************************************************)
(* One application from its submission to its decision and long after:     *)
(* services/application-service.ts around the engine, the row of           *)
(* pre_decisions, services/envelope.ts, which renders it, and              *)
(* services/audit-service.ts, which recomputes it. Meanwhile days pass,    *)
(* the process dies and is started again, and other policies are deployed. *)
(* Requests racing for one application are the business of Submission: a   *)
(* row is always the work of one request, and one works at a time here.    *)
(***************************************************************************)
EXTENDS Engine

CONSTANTS
    Policies,       \* the files, by version; append-only and immutable
    Bodies,         \* what callers ask for
    Answers(_),     \* the lookups the gateway may return about a body
    Days            \* the dates the clock may show; a consent is given at its hour

ASSUME PoliciesLoad == \A v \in DOMAIN Policies : Coherent(Policies[v])

\* The schema lets minMonthlyIncomeMinor be 0; debtToIncome then throws for an
\* applicant without income.
ASSUME IncomesPositive == \A v \in DOMAIN Policies : Policies[v].minMonthlyIncome > 0

\* The loader refuses a file whose name and contents disagree.
ASSUME VersionsAgree == \A v \in DOMAIN Policies : Policies[v].version = v

VARIABLES
    today,         \* the clock, by day
    deployed,      \* POLICY_VERSION of the running process
    application,   \* the row, or None
    request,       \* what the request at work holds in memory, or None
    decision       \* the row of pre_decisions, or None

vars == <<today, deployed, application, request, decision>>

Versions == DOMAIN Policies

Found(report)      == [outcome |-> "FOUND", report |-> report, cause |-> None]
NoHit              == [outcome |-> "NO_HIT", report |-> None, cause |-> None]
Unavailable(cause) == [outcome |-> "UNAVAILABLE", report |-> None, cause |-> cause]

-----------------------------------------------------------------------------
(***************************************************************************)
(* Rows. A report is stored with its outcome; an attribute that was not    *)
(* supplied is not in the JSON and reads back as not supplied.             *)
(***************************************************************************)

StoredReport(lookup) ==
    IF lookup.outcome = "UNAVAILABLE"
    THEN None
    ELSE [outcome |-> lookup.outcome, report |-> lookup.report]

\* What insertPreDecision writes. The stage goes to the audit trail only.
Row(result, asked, version, report, cause) ==
    [verdict  |-> result.verdict, reasons |-> result.reasons,
     requested |-> asked, approved |-> result.approved,
     payment  |-> result.payment, expires |-> result.expires,
     score    |-> result.score, dti |-> result.dti,
     policyVersion |-> version, report |-> report, cause |-> cause]

HasOffer(row) == row.approved # None /\ row.payment # None /\ row.expires # None

\* Reasons for every adverse verdict and for every counter-offer.
Explained(row) ==
    /\ Len(row.reasons) <= 4
    /\ row.verdict # "APPROVED" => row.reasons # <<>>
    /\ row.verdict = "APPROVED" /\ row.approved < row.requested => row.reasons # <<>>

\* The constraints of the table, and the range of numeric(6, 4).
Storable(row) ==
    /\ Explained(row)
    /\ (row.verdict = "APPROVED") <=> HasOffer(row)
    /\ row.score # None => row.score \in 0 .. 100
    /\ row.dti # None => row.dti < 1000000
    /\ row.cause # None => row.report = None

Application(body, accepted, at) == [body |-> body, accepted |-> accepted, submittedAt |-> at]

-----------------------------------------------------------------------------
(***************************************************************************)
(* Assumptions.                                                            *)
(***************************************************************************)

Verdicts == {"APPROVED", "DECLINED", "MANUAL_REVIEW"}
Causes   == {None, "TIMEOUT", "SERVER_ERROR", "RETRIES_EXHAUSTED", "WAIT_EXPIRED"}

\* What the gateway returns is a lookup, and a stored report is not null.
ASSUME AnswersAreLookups ==
    \A body \in Bodies : \A lookup \in Answers(body) :
        \/ lookup = Found(lookup.report) /\ StoredReport(lookup) # None
        \/ lookup = NoHit /\ StoredReport(lookup) # None
        \/ lookup = Unavailable(lookup.cause) /\ lookup.cause \in Causes \ {None}

\* What a report says of obligations is an amount, when it says anything.
ASSUME ObligationsAreAmounts ==
    \A body \in Bodies : \A lookup \in Answers(body) :
        lookup.outcome = "FOUND" => lookup.report.monthlyObligationsMinor \in Nat \cup {Gap}

\* A row is not null, nor is a number, an offer or a band.
ASSUME RowIsNotNull ==
    \A body \in Bodies, accepted, at \in Days : Application(body, accepted, at) # None

Fractions == [num : Nat, den : Nat \ {0}]
Offers    == [amount : Nat, payment : Nat, rate : Fractions, term : Nat]

Bands     == {"AUTO_APPROVE", "REFERRAL", "DECLINE"}

ASSUME NullIsApart == None \notin Int /\ None \notin Offers /\ None \notin Bands

\* The calendar's dates, and integers where the code has them.
Dates == [year : Nat, month : 1 .. 12, day : 1 .. 31]

ASSUME DaysAreDates == Days \subseteq Dates

ASSUME BodiesAreTyped ==
    \A body \in Bodies :
        /\ {"product", "requested", "term", "born", "income", "obligations"}
             \subseteq DOMAIN body
        /\ body.born \in Dates
        /\ body.term \in Nat /\ body.requested \in Nat /\ body.income \in Nat
        /\ body.obligations \in Nat

IsList(seq) == Len(seq) \in Nat /\ DOMAIN seq = 1 .. Len(seq)

ProductTyped(product) ==
    /\ product.minAmount \in Nat /\ product.maxAmount \in Nat
    /\ product.minTerm \in Nat /\ product.maxTerm \in Nat
    /\ product.ceiling \in Nat /\ product.rate \in Fractions

FactorTyped(factor) ==
    /\ factor.maxPoints \in Nat /\ IsList(factor.bands)

PolicyTyped(policy) ==
    /\ policy.minAge \in Nat /\ policy.maxAgeAtMaturity \in Nat
    /\ policy.minMonthlyIncome \in Nat
    /\ policy.maxDti \in Fractions
    /\ policy.rounding \in Nat /\ policy.validityDays \in Nat
    /\ policy.maxPoints \in Nat
    /\ policy.referralFrom \in Nat /\ policy.autoApproveFrom \in Nat
    /\ policy.maxDisclosed \in Nat /\ policy.materialPointsLost \in Nat
    /\ IsList(policy.factors) /\ IsList(policy.registry)
    /\ \A p \in DOMAIN policy.products : ProductTyped(policy.products[p])
    /\ \A i \in DOMAIN policy.factors : FactorTyped(policy.factors[i])

ASSUME PoliciesAreTyped == \A v \in Versions : PolicyTyped(Policies[v])

ASSUME AlphabetIsList == IsList(Alphabetical)

-----------------------------------------------------------------------------
(***************************************************************************)
(* The operations.                                                         *)
(***************************************************************************)

Init ==
    /\ today \in Days
    /\ deployed \in Versions
    /\ application = None
    /\ request = None
    /\ decision = None

\* The attestation, as old as the policy allows and not of a day to come.
ConsentUsable(accepted) ==
    LET age == DayOf(today) - DayOf(accepted)
    IN  0 <= age /\ 24 * age <= Policies[deployed].maxConsentHours

\* assertProductIsKnown, against the policy this process was started with.
Known(body) ==
    /\ body.product \in DOMAIN Policies[deployed].products
    /\ body.currency = Policies[deployed].currency

\* Mutant: the outcome is stored for the cause.
ClosingWithOutcome(version, result, lookup) ==
    [step |-> "close",
     row  |-> Row(result, application'.body.requested, version, StoredReport(lookup),
                  lookup.outcome)]

Closing(version, result, lookup) ==
    [step |-> "close",
     row  |-> Row(result, application'.body.requested, version, StoredReport(lookup), lookup.cause)]

\* What a request does once it has its application: the knockouts that need no
\* report, under the submission's date, and the pull for those who pass.
Begin ==
    LET policy == Policies[deployed]
    IN  request' = IF Passes(application'.body, policy, application'.submittedAt)
                   THEN [step |-> "pull", version |-> deployed]
                   ELSE Closing(deployed,
                                Knockout(application'.body, policy, application'.submittedAt),
                                Unavailable(None))

Submit(body, accepted) ==
    /\ application = None
    /\ ConsentUsable(accepted)
    /\ Known(body)
    /\ application' = Application(body, accepted, today)
    /\ Begin
    /\ UNCHANGED <<today, deployed, decision>>

\* A retry of the same body finds the application its predecessor left. Its
\* consent is checked again, before the key is looked at.
Resume ==
    /\ application # None
    /\ request = None
    /\ decision = None
    /\ ConsentUsable(application.accepted)
    /\ Known(application.body)
    /\ UNCHANGED <<today, deployed, application, decision>>
    /\ Begin

\* The gateway answers, and the engine decides under the submission's date and
\* the policy the request began with.
Pull(lookup) ==
    /\ request # None /\ request.step = "pull"
    /\ UNCHANGED <<today, deployed, application, decision>>
    /\ request' = Closing(request.version,
                          Decide(application.body, lookup, Policies[request.version],
                                 application.submittedAt),
                          lookup)

Close ==
    /\ request # None /\ request.step = "close"
    /\ decision = None
    /\ Storable(request.row)
    /\ decision' = request.row
    /\ request' = None
    /\ UNCHANGED <<today, deployed, application>>

\* The database refuses the row: the transaction rolls back, the caller gets a
\* 500 and the application stays RECEIVED.
CloseRefused ==
    /\ request # None /\ request.step = "close"
    /\ ~ Storable(request.row)
    /\ request' = None
    /\ UNCHANGED <<today, deployed, application, decision>>

\* The process dies with the request.
Crash ==
    /\ request # None
    /\ request' = None
    /\ UNCHANGED <<today, deployed, application, decision>>

\* Another policy is deployed. A request under way in the process that stops
\* still ends under the policy it began with, or with a crash.
Deploy ==
    /\ \E v \in Versions \ {deployed} : deployed' = v
    /\ UNCHANGED <<today, application, request, decision>>

NextDay ==
    /\ \E d \in Days : Earlier(today, d) /\ today' = d
    /\ UNCHANGED <<deployed, application, request, decision>>

Next ==
    \/ \E body \in Bodies, accepted \in Days : Submit(body, accepted)
    \/ Resume
    \/ application # None /\ \E lookup \in Answers(application.body) : Pull(lookup)
    \/ Close
    \/ CloseRefused
    \/ Crash
    \/ Deploy
    \/ NextDay

Spec == Init /\ [][Next]_vars

-----------------------------------------------------------------------------
(***************************************************************************)
(* Reading: the replay of an auditor, and the answer of the status call.   *)
(***************************************************************************)

\* The lookup, reconstructed from the row and never asked for again.
RecordedLookup(row) ==
    IF row.report = None
    THEN Unavailable(IF row.cause = None THEN "RETRIES_EXHAUSTED" ELSE row.cause)
    ELSE IF row.report.outcome = "FOUND" THEN Found(row.report.report) ELSE NoHit

ReplayPolicy == Policies[decision.policyVersion]
\* Mutant: the clock of the replay is the wall clock.
ReplayClockNow == today
ReplayClock  == application.submittedAt

Recomputed ==
    IF Passes(application.body, ReplayPolicy, ReplayClock)
    THEN Decide(application.body, RecordedLookup(decision), ReplayPolicy, ReplayClock)
    ELSE Knockout(application.body, ReplayPolicy, ReplayClock)

\* Every field of the row but the evidence itself is compared.
ReplayDiffers ==
    LET again == Row(Recomputed, application.body.requested, ReplayPolicy.version,
                     decision.report, decision.cause)
    IN  {field \in DOMAIN decision : decision[field] # again[field]}

\* Mutant: the terms of the day.
TermsOfToday(row) == Policies[deployed]

\* The policy whose terms describe a decision: the recorded one.
TermsOf(row) == Policies[row.policyVersion]

BandFor(score, policy) ==
    IF score = None THEN None
    ELSE IF score >= policy.autoApproveFrom THEN "AUTO_APPROVE"
    ELSE IF score >= policy.referralFrom THEN "REFERRAL"
    ELSE "DECLINE"

Envelope ==
    LET terms == TermsOf(decision)
    IN  [verdict |-> decision.verdict,
         band    |-> BandFor(decision.score, terms),
         offer   |-> IF ~ HasOffer(decision)
                     THEN None
                     ELSE [amount |-> decision.approved, payment |-> decision.payment,
                           rate |-> terms.products[application.body.product].rate,
                           term |-> application.body.term]]

-----------------------------------------------------------------------------
(***************************************************************************)
(* Properties.                                                             *)
(***************************************************************************)

\* The codes the engine names itself, and those a policy gives to its factors.
EngineCodes ==
    {"AGE_BELOW_MINIMUM", "AGE_ABOVE_MAXIMUM_AT_MATURITY", "AMOUNT_OUTSIDE_PRODUCT_LIMITS",
     "TERM_OUTSIDE_PRODUCT_LIMITS", "INCOME_BELOW_MINIMUM", "BUREAU_UNAVAILABLE",
     "NO_CREDIT_FILE", "BUREAU_DATA_INCOMPLETE", "ACTIVE_DELINQUENCY", "BANKRUPTCY_ON_FILE",
     "CHARGE_OFF_ON_FILE", "THIN_FILE", "IDENTITY_MISMATCH", "AMOUNT_ABOVE_AUTO_LIMIT",
     "SCORE_IN_REFERRAL_BAND", "AMOUNT_REDUCED_TO_FIT_DTI", "DTI_ABOVE_LIMIT"}

FactorCodes(policy) == {policy.factors[i].reasonCode : i \in DOMAIN policy.factors}

RowOK(row) ==
    /\ row.verdict \in Verdicts
    /\ Codes(row.reasons) \subseteq EngineCodes \cup FactorCodes(TermsOf(row))
    /\ row.policyVersion \in Versions
    /\ row.cause \in Causes

\* The shape of what is stored and held in memory: a decision has an
\* application, and whoever closes holds a whole row.
TypeOK ==
    /\ today \in Days /\ deployed \in Versions
    /\ application # None =>
           /\ application.body \in Bodies
           /\ application.accepted \in Days /\ application.submittedAt \in Days
    /\ request # None =>
           /\ application # None
           /\ \/ request.step = "pull" /\ request.version \in Versions
              \/ request.step = "close" /\ RowOK(request.row)
    /\ decision # None => application # None /\ RowOK(decision)

\* docs/04 section 4: recomputing a decision at any later time, whatever policy
\* is deployed by then and however late the decision was taken, finds no
\* difference: everything the engine read is on record.
ReplayMatches == decision # None => ReplayDiffers = {}

\* Of age: the birthday that completes the years has come.
OfAge(born, years, at) == ~ Earlier(at, Date(born.year + years, born.month, born.day))

Warranted(a, policy, at) ==
    LET product == policy.products[a.product]
    IN  /\ OfAge(a.born, policy.minAge, at)
        /\ ~ OfAge(a.born, policy.maxAgeAtMaturity + 1, AddMonths(at, a.term))
        /\ product.minAmount <= a.requested /\ a.requested <= product.maxAmount
        /\ product.minTerm <= a.term /\ a.term <= product.maxTerm
        /\ a.income >= policy.minMonthlyIncome

\* docs/03 section 2: nobody's file is asked for, and none is attached to a
\* decision, whose application the policy was going to decline anyway.
EnquiryIsWarranted ==
    /\ request # None /\ request.step = "pull" =>
           Warranted(application.body, Policies[request.version], application.submittedAt)
    /\ decision # None /\ decision.report # None =>
           Warranted(application.body, TermsOf(decision), application.submittedAt)

\* Whatever the engine concludes, the table takes: reasons for every adverse
\* verdict and every counter-offer, an offer for every approval, a score in
\* range. The one row it refuses is a decline for obligations a hundred times
\* the income, whose ratio the column does not hold: that application is never
\* decided, however often it is resumed.
OnlyTheRatioIsRefused ==
    request # None /\ request.step = "close" /\ ~ Storable(request.row) =>
        /\ request.row.verdict = "DECLINED"
        /\ "DTI_ABOVE_LIMIT" \in Codes(request.row.reasons)
        /\ request.row.dti >= 1000000
        /\ Storable([request.row EXCEPT !.dti = None])

\* envelope.ts: what is rendered agrees with itself under every deployment: the
\* band with the verdict, the instalment with the rate beside it.
EnvelopeAgrees ==
    decision # None =>
        /\ Envelope.band = "DECLINE" => Envelope.verdict # "APPROVED"
        /\ Envelope.band = "REFERRAL" => Envelope.verdict = "MANUAL_REVIEW"
        /\ Envelope.verdict = "APPROVED" => Envelope.band = "AUTO_APPROVE"
        /\ (Envelope.offer # None) <=> (Envelope.verdict = "APPROVED")
        /\ Envelope.offer # None =>
               Envelope.offer.payment =
                   AnnuityPayment(Envelope.offer.amount,
                                  Unit(Envelope.offer.rate, Envelope.offer.term))

\* The room and the instalment of the decided application, for a report on file.
RoomLeft ==
    Headroom(application.body.income,
             Obligations(application.body, decision.report.report), TermsOf(decision).maxDti)

UnitOfLoan ==
    Unit(TermsOf(decision).products[application.body.product].rate, application.body.term)

\* The exact instalment of an amount fits the room.
Fits(amount) == amount * UnitOfLoan.num * RoomLeft.den <= RoomLeft.num * UnitOfLoan.den

\* money.ts: an offer keeps the limit it was computed from, also after the
\* roundings; a counter-offer is less than was asked and is the largest whole
\* step that fits.
OfferIsAffordable ==
    decision # None /\ decision.verdict = "APPROVED" =>
        LET terms   == TermsOf(decision)
            product == terms.products[application.body.product]
        IN  /\ WithinLimit(decision.dti, terms.maxDti)
            /\ decision.approved >= product.minAmount
            /\ decision.approved <= decision.requested
            /\ decision.approved < decision.requested =>
                   /\ decision.approved % terms.rounding = 0
                   /\ Fits(decision.approved)
                   /\ ~ Fits(decision.approved + terms.rounding)

\* The same applicant, on the same day with the same report, asking for less.
AskedFor(amount) ==
    Decide([application.body EXCEPT !.requested = amount], RecordedLookup(decision),
           TermsOf(decision), application.submittedAt)

\* D4, D7: who is approved for an amount is approved for every smaller one the
\* product allows, and for as much of it as before.
AskingLessNeverHurts ==
    decision # None /\ decision.verdict = "APPROVED" =>
        \A amount \in {body.requested : body \in Bodies} \cup {decision.approved} :
            /\ TermsOf(decision).products[application.body.product].minAmount <= amount
            /\ amount <= decision.requested
            => /\ AskedFor(amount).verdict = "APPROVED"
               /\ AskedFor(amount).approved >= Min({amount, decision.approved})

Disclosed == {decision.reasons[i] : i \in DOMAIN decision.reasons}

FactorsOf(row) == Awards(row.report.report, TermsOf(row))

\* docs/03 section 3: a decision that reached affordability discloses every
\* factor that lost a material number of points, and no disclosed factor lost
\* less than one that is not disclosed.
PrincipalReasonsDisclosed ==
    decision # None /\ decision.score # None =>
        LET factors == FactorsOf(decision)
            shown   == {i \in DOMAIN factors : factors[i].reasonCode \in Disclosed}
            hidden  == {i \in DOMAIN factors \ shown :
                            factors[i].lost >= TermsOf(decision).materialPointsLost}
        IN  /\ decision.dti # None => hidden = {}
            /\ \A i \in shown, j \in hidden : factors[i].lost >= factors[j].lost

Evidence == {"worstDelinquencyLast24m", "revolvingUtilizationPct", "oldestAccountAgeMonths",
             "hardInquiriesLast6m", "distinctAccountTypes", "totalAccounts",
             "hasActiveDelinquency", "monthsSinceBankruptcy", "monthsSinceChargeOff",
             "subjectMatch"}

\* D1, docs/03 section 2: a gap in what the bureau supplied is neither held
\* against the applicant nor for them; a person looks at it.
GapIsReferred ==
    decision # None /\ decision.report # None /\ decision.report.outcome = "FOUND" =>
        LET report == decision.report.report
        IN  (\E i \in Evidence : report[i] = Gap) \/ MatchIncomplete(report)
              => /\ decision.verdict = "MANUAL_REVIEW"
                 /\ Disclosed = {"BUREAU_DATA_INCOMPLETE"}

-----------------------------------------------------------------------------
(***************************************************************************)
(* What the shipped policy keeps and the loader does not check. A theorem  *)
(* that needs one of these for every policy names it as its assumption.    *)
(***************************************************************************)

\* Incomes above 10000 minor units, and a limit in whole ten-thousandths: then
\* the roundings of instalment and ratio cannot carry an offer over the limit.
ExactLimit(policy) ==
    /\ policy.minMonthlyIncome > 10000
    /\ (10000 * policy.maxDti.num) % policy.maxDti.den = 0

\* Whatever counts as evidence must be there.
EvidenceRequired(policy) == Evidence \cap ScoredInputs \subseteq RequiredInputs(policy)

\* The column holds scores to a hundred.
ScoresFit(policy) == policy.maxPoints <= 100

\* Immaterial losses alone do not lose a referral.
LowScoresExplained(policy) ==
    Len(policy.factors) * (policy.materialPointsLost - 1)
        <= policy.maxPoints - policy.referralFrom

\* Every factor has a code of its own.
CodesApart(policy) ==
    /\ FactorCodes(policy) \cap EngineCodes = {}
    /\ \A i, j \in DOMAIN policy.factors :
           policy.factors[i].reasonCode = policy.factors[j].reasonCode => i = j

\* Whichever bands a report hits, a score that reaches affordability leaves a place
\* for the code that decides there beside the codes of all material losses.
RoomForReasons(policy) ==
    \A hit \in [DOMAIN policy.factors ->
                   UNION {0 .. Len(policy.factors[i].bands) : i \in DOMAIN policy.factors}] :
        (\A i \in DOMAIN policy.factors : hit[i] <= Len(policy.factors[i].bands)) =>
            LET awards == [i \in DOMAIN policy.factors |-> AwardAt(policy.factors[i], hit[i])]
            IN  \/ Cardinality(Material(awards, policy)) < policy.maxDisclosed
                \/ Score(awards) < policy.autoApproveFrom

Careful(policy) ==
    /\ EvidenceRequired(policy) /\ ScoresFit(policy) /\ LowScoresExplained(policy)
    /\ CodesApart(policy) /\ RoomForReasons(policy)
=============================================================================
