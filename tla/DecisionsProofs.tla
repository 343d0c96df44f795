-------------------------- MODULE DecisionsProofs --------------------------
(***************************************************************************)
(* Decisions, for every policy that loads, every application, every answer *)
(* of the bureau and any days: a decision is reproduced from what is       *)
(* stored, its envelope agrees with itself, its offer is affordable, its   *)
(* reasons are the principal ones, a gap is never read as a fact, nobody   *)
(* the policy declines at the screen is asked about, and the table takes   *)
(* every row but one kind. Where a theorem needs more of a policy than the *)
(* loader checks, it says what.                                            *)
(***************************************************************************)
EXTENDS Decisions, FiniteSetTheorems, SequenceTheorems, WellFoundedInduction, TLAPS

-----------------------------------------------------------------------------
(***************************************************************************)
(* The inductive invariant.                                                *)
(***************************************************************************)

\* What the engine concludes from an application, a row and the row's policy.
Again(a, row) ==
    LET policy == Policies[row.policyVersion]
    IN  IF Passes(a.body, policy, a.submittedAt)
        THEN Decide(a.body, RecordedLookup(row), policy, a.submittedAt)
        ELSE Knockout(a.body, policy, a.submittedAt)

\* The application names a product of the version, and its screen let it pass.
Screened(a, version) ==
    /\ a.body.product \in DOMAIN Policies[version].products
    /\ Passes(a.body, Policies[version], a.submittedAt)

\* The row is what the engine concludes from it, holds a report only of someone
\* who passed the screen and as it was answered, and a cause only without one.
Reproduced(a, row) ==
    /\ row.policyVersion \in Versions
    /\ row = Row(Again(a, row), a.body.requested, row.policyVersion, row.report, row.cause)
    /\ row.report # None => /\ Screened(a, row.policyVersion)
                            /\ RecordedLookup(row) \in Answers(a.body)
    /\ row.cause \in Causes
    /\ row.cause # None => row.report = None

ApplicationOK ==
    /\ application.body \in Bodies
    /\ application.accepted \in Days /\ application.submittedAt \in Days

\* Who pulls has passed the screen under the policy the pull will be read with.
Pulling == request # None /\ request.step = "pull" =>
               request.version \in Versions /\ Screened(application, request.version)

\* The row a request is about to write is reproduced before it is a decision.
Closes == request # None /\ request.step = "close" => Reproduced(application, request.row)

Decided == decision # None => Reproduced(application, decision)

Inv ==
    /\ deployed \in Versions /\ today \in Days
    /\ application # None => ApplicationOK
    /\ application = None => request = None /\ decision = None
    /\ request # None => request.step \in {"pull", "close"}
    /\ Pulling /\ Closes /\ Decided

-----------------------------------------------------------------------------
(***************************************************************************)
(* Rows.                                                                   *)
(***************************************************************************)

\* A row made from an answer gives the answer back.
LEMMA AnswerReadsBack ==
    ASSUME NEW body \in Bodies, NEW lookup \in Answers(body), NEW row,
           row.report = StoredReport(lookup), row.cause = lookup.cause
    PROVE  RecordedLookup(row) = lookup
<1>1. CASE lookup = Found(lookup.report) /\ StoredReport(lookup) # None
  BY <1>1 DEF Found, StoredReport, RecordedLookup
<1>2. CASE lookup = NoHit /\ StoredReport(lookup) # None
  BY <1>2 DEF NoHit, StoredReport, RecordedLookup
<1>3. CASE lookup = Unavailable(lookup.cause) /\ lookup.cause # None
  BY <1>3 DEF Unavailable, StoredReport, RecordedLookup
<1> QED
  BY <1>1, <1>2, <1>3, AnswersAreLookups

\* The fields of a row that the invariant speaks of.
LEMMA RowFields ==
    ASSUME NEW result, NEW asked, NEW version, NEW report, NEW cause
    PROVE  /\ Row(result, asked, version, report, cause).policyVersion = version
           /\ Row(result, asked, version, report, cause).report = report
           /\ Row(result, asked, version, report, cause).cause = cause
  BY DEF Row

\* The row a knocked out application is closed with needs no answer.
LEMMA KnockoutReproduced ==
    ASSUME NEW a, NEW version \in Versions,
           ~ Passes(a.body, Policies[version], a.submittedAt)
    PROVE  Reproduced(a, Row(Knockout(a.body, Policies[version], a.submittedAt),
                             a.body.requested, version,
                             StoredReport(Unavailable(None)), Unavailable(None).cause))
<1> DEFINE row == Row(Knockout(a.body, Policies[version], a.submittedAt),
                      a.body.requested, version, None, None)
<1>1. row.policyVersion = version /\ row.report = None /\ row.cause = None
  BY RowFields
<1>2. Again(a, row) = Knockout(a.body, Policies[version], a.submittedAt)
  BY <1>1 DEF Again
<1>3. Reproduced(a, row)
  BY <1>1, <1>2 DEF Reproduced, Causes
<1>4. StoredReport(Unavailable(None)) = None /\ Unavailable(None).cause = None
  BY DEF StoredReport, Unavailable
<1> QED
  BY <1>3, <1>4

\* So is the row decided on an answer.
LEMMA AnswerReproduced ==
    ASSUME NEW a, a.body \in Bodies, NEW version \in Versions, NEW lookup \in Answers(a.body),
           Screened(a, version)
    PROVE  Reproduced(a, Row(Decide(a.body, lookup, Policies[version], a.submittedAt),
                             a.body.requested, version, StoredReport(lookup), lookup.cause))
<1> DEFINE row == Row(Decide(a.body, lookup, Policies[version], a.submittedAt),
                      a.body.requested, version, StoredReport(lookup), lookup.cause)
<1>1. row.policyVersion = version /\ row.report = StoredReport(lookup) /\ row.cause = lookup.cause
  BY RowFields
<1>2. RecordedLookup(row) = lookup
  BY <1>1, AnswerReadsBack
<1>3. Again(a, row) = Decide(a.body, lookup, Policies[version], a.submittedAt)
  BY <1>1, <1>2 DEF Again, Screened
<1>4. lookup.cause \in Causes /\ (lookup.cause # None => StoredReport(lookup) = None)
  BY AnswersAreLookups DEF Found, NoHit, Unavailable, StoredReport, Causes
<1> HIDE DEF row
<1> QED
  BY <1>1, <1>2, <1>3, <1>4 DEF Reproduced, row

\* A reproduced row shows no difference to the replay.
LEMMA ReproducedMatches ==
    ASSUME decision # None, Reproduced(application, decision)
    PROVE  ReplayDiffers = {}
<1>1. Recomputed = Again(application, decision)
  BY DEF Recomputed, Again, ReplayPolicy, ReplayClock
<1>2. ReplayPolicy.version = decision.policyVersion
  BY VersionsAgree DEF Reproduced, ReplayPolicy, Versions
<1>3. Row(Recomputed, application.body.requested, ReplayPolicy.version,
          decision.report, decision.cause) = decision
  BY <1>1, <1>2 DEF Reproduced
<1> QED
  BY <1>3 DEF ReplayDiffers

-----------------------------------------------------------------------------
(***************************************************************************)
(* The steps.                                                              *)
(***************************************************************************)

LEMMA InvInit == Init => Inv
  BY DEF Init, Inv, Pulling, Closes, Decided

\* What a request holds after it began: the pull of who passed, or the row of who
\* did not.
LEMMA BeginHolds ==
    ASSUME deployed \in Versions, Begin,
           application'.body.product \in DOMAIN Policies[deployed].products
    PROVE  /\ (Pulling /\ Closes)'
           /\ request'.step \in {"pull", "close"}
<1> DEFINE a == application'
           policy == Policies[deployed]
<1>1. CASE Passes(a.body, policy, a.submittedAt)
  <2>1. request' = [step |-> "pull", version |-> deployed] /\ request'.step = "pull"
    BY <1>1 DEF Begin
  <2>2. Screened(a, deployed)
    BY <1>1 DEF Screened
  <2> QED
    BY <2>1, <2>2 DEF Pulling, Closes, Screened
<1>2. CASE ~ Passes(a.body, policy, a.submittedAt)
  <2>1. request' = Closing(deployed, Knockout(a.body, policy, a.submittedAt), Unavailable(None))
    BY <1>2 DEF Begin
  <2>2. /\ request'.step = "close"
        /\ request'.row = Row(Knockout(a.body, policy, a.submittedAt), a.body.requested,
                              deployed, StoredReport(Unavailable(None)),
                              Unavailable(None).cause)
    BY <2>1 DEF Closing
  <2>3. Reproduced(a, request'.row)
    BY <1>2, <2>2, KnockoutReproduced
  <2> QED
    BY <2>2, <2>3 DEF Pulling, Closes, Reproduced, Again, Screened, RecordedLookup
<1> QED
  BY <1>1, <1>2

LEMMA InvNext == Inv /\ [Next]_vars => Inv'
<1> SUFFICES ASSUME Inv, [Next]_vars
             PROVE  Inv'
  OBVIOUS
<1> USE DEF Inv
<1>1. CASE UNCHANGED vars
  BY <1>1 DEF vars, ApplicationOK, Pulling, Closes, Decided, Reproduced, Again, Screened, RecordedLookup
<1>2. ASSUME NEW body \in Bodies, NEW accepted \in Days, Submit(body, accepted)
      PROVE  Inv'
  <2>1. application' # None /\ ApplicationOK'
    BY <1>2, RowIsNotNull DEF Submit, Application, ApplicationOK
  <2>2. Pulling' /\ Closes' /\ request'.step \in {"pull", "close"}
    BY <1>2, BeginHolds DEF Submit, Known, Application
  <2>3. Decided'
    BY <1>2 DEF Submit, Decided
  <2> QED
    BY <1>2, <2>1, <2>2, <2>3 DEF Submit
<1>3. CASE Resume
  <2>1. Pulling' /\ Closes' /\ request'.step \in {"pull", "close"}
    BY <1>3, BeginHolds DEF Resume, Known
  <2> QED
    BY <1>3, <2>1 DEF Resume, ApplicationOK, Decided
<1>4. ASSUME application # None, NEW lookup \in Answers(application.body), Pull(lookup)
      PROVE  Inv'
  <2> DEFINE v == request.version
  <2>1. /\ request'.step = "close"
        /\ request'.row = Row(Decide(application.body, lookup, Policies[v],
                                     application.submittedAt),
                              application.body.requested, v,
                              StoredReport(lookup), lookup.cause)
    BY <1>4 DEF Pull, Closing
  <2>2. v \in Versions /\ Screened(application, v)
    BY <1>4 DEF Pull, Pulling
  <2>3. Reproduced(application, request'.row)
    BY <1>4, <2>1, <2>2, AnswerReproduced DEF ApplicationOK
  <2>4. Closes' /\ Pulling'
    BY <1>4, <2>1, <2>3 DEF Pull, Closes, Pulling, Reproduced, Again, Screened
  <2> QED
    BY <1>4, <2>1, <2>4 DEF Pull, ApplicationOK, Decided, Reproduced, Again, Screened, RecordedLookup
<1>5. CASE Close
  BY <1>5 DEF Close, ApplicationOK, Pulling, Closes, Decided, Reproduced, Again, Screened, RecordedLookup
<1>6. CASE CloseRefused \/ Crash
  BY <1>6 DEF CloseRefused, Crash, ApplicationOK, Pulling, Closes, Decided, Reproduced, Again, Screened, RecordedLookup
<1>7. CASE Deploy
  BY <1>7 DEF Deploy, ApplicationOK, Pulling, Closes, Decided, Reproduced, Again, Screened, RecordedLookup
<1>8. CASE NextDay
  BY <1>8 DEF NextDay, ApplicationOK, Pulling, Closes, Decided, Reproduced, Again, Screened, RecordedLookup
<1> QED
  BY <1>1, <1>2, <1>3, <1>4, <1>5, <1>6, <1>7, <1>8 DEF Next

THEOREM InvAlways == Spec => []Inv
  BY InvInit, InvNext, PTL DEF Spec

\* Whatever is deployed later, whatever the clock shows, and whichever request
\* took the decision, recomputing it from what is stored finds no difference.
THEOREM ReplayAlways == Spec => []ReplayMatches
<1>1. Inv => ReplayMatches
  BY ReproducedMatches DEF Inv, Decided, ReplayMatches
<1> QED
  BY <1>1, InvAlways, PTL

-----------------------------------------------------------------------------
(***************************************************************************)
(* Whoever passes the screen is of age, not too old, and within limits.    *)
(***************************************************************************)

\* ageAt counts the birthdays that have come.
LEMMA AgeCountsBirthdays ==
    ASSUME NEW born \in Dates, NEW at, at.year \in Int, at.month \in Int, at.day \in Int,
           NEW years \in Int
    PROVE  OfAge(born, years, at) <=> AgeAt(born, at) >= years
  BY DEF Dates, OfAge, Earlier, Date, AgeAt

\* A date some months later has integers for its fields.
LEMMA LaterDate ==
    ASSUME NEW from \in Dates, NEW months \in Nat
    PROVE  LET later == AddMonths(from, months)
           IN  later.year \in Int /\ later.month \in Int /\ later.day \in Int
<1> DEFINE count == from.month - 1 + months
           y == from.year + count \div 12
           m == (count % 12) + 1
<1>1. y \in Int /\ m \in Int /\ from.day \in Int
  BY DEF Dates
<1>2. DaysIn(y, m) \in Int
  BY <1>1 DEF DaysIn
<1>3. AddMonths(from, months) = IF from.day <= DaysIn(y, m)
                                THEN Date(y, m, from.day)
                                ELSE Date(y, m + 1, from.day - DaysIn(y, m))
  BY DEF AddMonths
<1> QED
  BY <1>1, <1>2, <1>3 DEF Date

\* The five knockouts of the screen, none of which holds.
LEMMA PassesAll ==
    ASSUME NEW a, NEW policy, NEW now, Passes(a, policy, now)
    PROVE  LET product == policy.products[a.product]
           IN  /\ ~ (AgeAt(a.born, now) < policy.minAge)
               /\ ~ (AgeAt(a.born, AddMonths(now, a.term)) > policy.maxAgeAtMaturity)
               /\ a.requested \in product.minAmount .. product.maxAmount
               /\ a.term \in product.minTerm .. product.maxTerm
               /\ ~ (a.income < policy.minMonthlyIncome)
<1> DEFINE rules == ScreeningRules(a, policy, now)
<1>1. DOMAIN rules = 1 .. 5
  BY DEF ScreeningRules
<1>2. ~ rules[1].holds /\ ~ rules[2].holds /\ ~ rules[3].holds /\ ~ rules[4].holds /\ ~ rules[5].holds
  BY <1>1 DEF Passes
<1> QED
  BY <1>2 DEF ScreeningRules, Rule

LEMMA ScreenedIsWarranted ==
    ASSUME NEW a, a.body \in Bodies, a.submittedAt \in Days, NEW version \in Versions,
           Screened(a, version)
    PROVE  Warranted(a.body, Policies[version], a.submittedAt)
<1> DEFINE body == a.body
           policy == Policies[version]
           product == policy.products[body.product]
           now == a.submittedAt
           later == AddMonths(now, body.term)
<1>1. /\ body.born \in Dates /\ now \in Dates
      /\ body.term \in Nat /\ body.requested \in Nat /\ body.income \in Nat
  BY DaysAreDates, BodiesAreTyped
<1>2. /\ policy.minAge \in Nat /\ policy.maxAgeAtMaturity \in Nat
      /\ policy.minMonthlyIncome \in Nat
  BY PoliciesAreTyped DEF PolicyTyped
<1>3. /\ product.minAmount \in Nat /\ product.maxAmount \in Nat
      /\ product.minTerm \in Nat /\ product.maxTerm \in Nat
  BY PoliciesAreTyped DEF Screened, PolicyTyped, ProductTyped
<1>4. now.year \in Int /\ now.month \in Int /\ now.day \in Int
  BY <1>1 DEF Dates
<1>5. later.year \in Int /\ later.month \in Int /\ later.day \in Int
  BY <1>1, LaterDate
<1>6. /\ ~ (AgeAt(body.born, now) < policy.minAge)
      /\ ~ (AgeAt(body.born, later) > policy.maxAgeAtMaturity)
      /\ body.requested \in product.minAmount .. product.maxAmount
      /\ body.term \in product.minTerm .. product.maxTerm
      /\ ~ (body.income < policy.minMonthlyIncome)
  BY PassesAll DEF Screened
<1>7. AgeAt(body.born, now) \in Int /\ AgeAt(body.born, later) \in Int
  BY <1>1, <1>4, <1>5 DEF AgeAt, Dates
<1>8. OfAge(body.born, policy.minAge, now)
  BY <1>1, <1>2, <1>4, <1>6, <1>7, AgeCountsBirthdays
<1>9. ~ OfAge(body.born, policy.maxAgeAtMaturity + 1, later)
  <2>1. ~ (AgeAt(body.born, later) >= policy.maxAgeAtMaturity + 1)
    BY <1>2, <1>6, <1>7
  <2>2. policy.maxAgeAtMaturity + 1 \in Int
    BY <1>2
  <2> QED
    BY <1>1, <1>5, <2>1, <2>2, AgeCountsBirthdays
<1>10. /\ product.minAmount <= body.requested /\ body.requested <= product.maxAmount
       /\ product.minTerm <= body.term /\ body.term <= product.maxTerm
       /\ body.income >= policy.minMonthlyIncome
  BY <1>1, <1>2, <1>3, <1>6
<1> QED
  BY <1>8, <1>9, <1>10 DEF Warranted

\* Nobody is asked about whom the policy was going to decline, and no decision
\* holds the file of such a person, whatever policies are deployed and resumed.
THEOREM EnquiryIsWarrantedAlways == Spec => []EnquiryIsWarranted
<1>1. ASSUME Inv, request # None, request.step = "pull"
      PROVE  Warranted(application.body, Policies[request.version], application.submittedAt)
  <2>1. ApplicationOK /\ request.version \in Versions /\ Screened(application, request.version)
    BY <1>1 DEF Inv, Pulling
  <2> QED
    BY <2>1, ScreenedIsWarranted DEF ApplicationOK
<1>2. ASSUME Inv, decision # None, decision.report # None
      PROVE  Warranted(application.body, TermsOf(decision), application.submittedAt)
  <2>1. /\ ApplicationOK /\ decision.policyVersion \in Versions
        /\ Screened(application, decision.policyVersion)
    BY <1>2 DEF Inv, Decided, Reproduced
  <2> QED
    BY <2>1, ScreenedIsWarranted DEF ApplicationOK, TermsOf
<1>3. Inv => EnquiryIsWarranted
  BY <1>1, <1>2 DEF EnquiryIsWarranted
<1> QED
  BY <1>3, InvAlways, PTL

-----------------------------------------------------------------------------
(***************************************************************************)
(* Induction over the natural numbers, in the form of sets.                *)
(***************************************************************************)

\* A set of natural numbers has a least one.
LEMMA Least ==
    ASSUME NEW T, T \subseteq Nat, T # {}
    PROVE  \E m \in T : \A n \in T : m <= n
<1> DEFINE R == OpToRel(<, Nat)
<1>1. IsWellFoundedOn(R, Nat)
  BY NatLessThanWellFounded
<1>2. \A x, y \in Nat : <<x, y>> \in R <=> x < y
  BY DEF OpToRel
<1> HIDE DEF R
<1>3. PICK m \in T : \A n \in T : ~ (<<n, m>> \in R)
  BY <1>1, WFMin
<1>4. \A n \in T : ~ (n < m) /\ n \in Nat /\ m \in Nat
  BY <1>2, <1>3
<1>5. \A n \in T : m <= n
  BY <1>4
<1> QED BY <1>5

LEMMA LeastIsMin ==
    ASSUME NEW T, T \subseteq Nat, T # {}
    PROVE  Min(T) \in T /\ \A n \in T : Min(T) <= n
  BY Least, Zenon DEF Min

LEMMA ByInduction ==
    ASSUME NEW S, 0 \in S, \A n \in Nat : n \in S => n + 1 \in S
    PROVE  Nat \subseteq S
<1> SUFFICES ASSUME Nat \ S # {} PROVE FALSE
  OBVIOUS
<1>1. PICK m \in Nat \ S : \A n \in Nat \ S : m <= n
  BY Least
<1>2. m # 0 /\ m - 1 \in Nat
  BY <1>1
<1>3. m - 1 \in S
  BY <1>1, <1>2
<1> QED BY <1>1, <1>2, <1>3

\* The subsets of a finite set, by their number of elements.
LEMMA OneLess ==
    ASSUME NEW D, IsFiniteSet(D), NEW s \in SUBSET D, s # {}, NEW x \in s
    PROVE  /\ s \ {x} \in SUBSET D
           /\ Cardinality(s) \in Nat /\ Cardinality(s \ {x}) \in Nat
           /\ Cardinality(s) = Cardinality(s \ {x}) + 1
<1>1. IsFiniteSet(s)
  BY FS_Subset
<1>2. IsFiniteSet(s \ {x}) /\ Cardinality(s \ {x}) = Cardinality(s) - 1
  BY <1>1, FS_RemoveElement
<1>3. Cardinality(s) \in Nat /\ Cardinality(s \ {x}) \in Nat
  BY <1>1, <1>2, FS_CardinalityType
<1> QED BY <1>2, <1>3

-----------------------------------------------------------------------------
(***************************************************************************)
(* Sums. SumFunction and Power are folds: a function on the subsets of the *)
(* domain, defined by recursion, of which one has to show that it exists.  *)
(***************************************************************************)
Some(s) == CHOOSE x \in s : TRUE

\* Recursion on sets takes some element away.
LEMMA SomeLess ==
    ASSUME NEW D, IsFiniteSet(D)
    PROVE  \A s \in SUBSET D : s # {} =>
               /\ Some(s) \in s /\ s \ {Some(s)} \in SUBSET D
               /\ Cardinality(s) \in Nat /\ Cardinality(s \ {Some(s)}) \in Nat
               /\ Cardinality(s) = Cardinality(s \ {Some(s)}) + 1
<1> SUFFICES ASSUME NEW s \in SUBSET D, s # {}
             PROVE  /\ Some(s) \in s /\ s \ {Some(s)} \in SUBSET D
                    /\ Cardinality(s) \in Nat /\ Cardinality(s \ {Some(s)}) \in Nat
                    /\ Cardinality(s) = Cardinality(s \ {Some(s)}) + 1
  OBVIOUS
<1> DEFINE x == Some(s)
<1>1. x \in s
  BY DEF Some
<1> HIDE DEF x
<1>2. /\ s \ {x} \in SUBSET D
      /\ Cardinality(s) \in Nat /\ Cardinality(s \ {x}) \in Nat
      /\ Cardinality(s) = Cardinality(s \ {x}) + 1
  BY <1>1, OneLess
<1> QED BY <1>1, <1>2 DEF x

\* So a set of no elements is empty.
LEMMA NoneIsEmpty ==
    ASSUME NEW D, IsFiniteSet(D)
    PROVE  \A s \in SUBSET D : Cardinality(s) = 0 => s = {}
<1> SUFFICES ASSUME NEW s \in SUBSET D, Cardinality(s) = 0, s # {} PROVE FALSE
  OBVIOUS
<1>1. /\ Cardinality(s) \in Nat /\ Cardinality(s \ {Some(s)}) \in Nat
      /\ Cardinality(s) = Cardinality(s \ {Some(s)}) + 1
  BY SomeLess
<1> QED BY <1>1

Sums(f, g) ==
    g = [s \in SUBSET DOMAIN f |-> IF s = {} THEN 0 ELSE f[Some(s)] + g[s \ {Some(s)}]]

LEMMA SumIsFold ==
    ASSUME NEW f, IsFiniteSet(DOMAIN f)
    PROVE  \E g : Sums(f, g) /\ SumFunction(f) = g[DOMAIN f]
<1> DEFINE D == DOMAIN f
           Small(n) == {s \in SUBSET D : Cardinality(s) <= n}
           Upto(n, g) == g = [s \in Small(n) |->
                                IF s = {} THEN 0 ELSE f[Some(s)] + g[s \ {Some(s)}]]
           S == {n \in Nat : \E g : Upto(n, g)}
<1>0. \A s \in SUBSET D : s # {} => /\ Some(s) \in s
                                    /\ s \ {Some(s)} \in SUBSET D
                                    /\ Cardinality(s) \in Nat /\ Cardinality(s \ {Some(s)}) \in Nat
                                    /\ Cardinality(s) = Cardinality(s \ {Some(s)}) + 1
  BY SomeLess
<1>1. 0 \in S
  <2>1. \A s \in Small(0) : s = {}
    <3> SUFFICES ASSUME NEW s \in Small(0), s # {} PROVE FALSE
      OBVIOUS
    <3>1. /\ Cardinality(s) \in Nat /\ Cardinality(s \ {Some(s)}) \in Nat
          /\ Cardinality(s) = Cardinality(s \ {Some(s)}) + 1 /\ Cardinality(s) <= 0
      BY <1>0
    <3> QED BY <3>1
  <2>2. Upto(0, [s \in Small(0) |-> 0])
    BY <2>1
  <2> QED BY <2>2
<1>2. ASSUME NEW n \in Nat, n \in S PROVE n + 1 \in S
  <2>1. PICK g : Upto(n, g)
    BY <1>2
  <2> DEFINE h == [s \in Small(n + 1) |-> IF s = {} THEN 0 ELSE f[Some(s)] + g[s \ {Some(s)}]]
  <2>2. \A s \in Small(n) : s \in Small(n + 1) /\ h[s] = g[s]
    <3> SUFFICES ASSUME NEW s \in Small(n) PROVE s \in Small(n + 1) /\ h[s] = g[s]
      OBVIOUS
    <3>1. Cardinality(s) \in Nat
      BY FS_Subset, FS_CardinalityType
    <3>2. s \in Small(n + 1)
      BY <3>1
    <3> QED BY <2>1, <3>2
  <2>3. \A s \in Small(n + 1) : s # {} => s \ {Some(s)} \in Small(n)
    BY <1>0
  <2>4. Upto(n + 1, h)
    <3> HIDE DEF Small
    <3> QED BY <2>2, <2>3
  <2> HIDE DEF h, Upto
  <2> QED BY <2>4
<1> HIDE DEF S
<1>3. Nat \subseteq S
  BY <1>1, <1>2, ByInduction
<1>4. Cardinality(D) \in S
  BY <1>3, FS_CardinalityType
<1>5. Small(Cardinality(D)) = SUBSET D
  BY FS_Subset
<1>6. \E g : Sums(f, g)
  BY <1>4, <1>5 DEF S, Sums
<1> DEFINE it == CHOOSE g : Sums(f, g)
<1>7. Sums(f, it)
  BY <1>6, Zenon
<1>8. SumFunction(f) = it[D]
  BY Zenon DEF SumFunction, SumFunctionOnSet, FoldFunctionOnSet, MapThenFoldSet, Sums, Some
<1> QED BY <1>7, <1>8

\* Sums of natural numbers, term by term: they are as large as their terms allow.
LEMMA SumBounds ==
    ASSUME NEW D, IsFiniteSet(D), NEW f \in [D -> Nat], NEW h \in [D -> Nat],
           \A i \in D : f[i] <= h[i]
    PROVE  /\ SumFunction(f) \in Nat /\ SumFunction(h) \in Nat
           /\ SumFunction(f) <= SumFunction(h)
           /\ \A c \in Nat : (\A i \in D : h[i] <= f[i] + c) =>
                  SumFunction(h) <= SumFunction(f) + c * Cardinality(D)
<1>1. PICK a : Sums(f, a) /\ SumFunction(f) = a[D]
  BY SumIsFold
<1>2. PICK b : Sums(h, b) /\ SumFunction(h) = b[D]
  BY SumIsFold
<1> DEFINE Near(c) == \A i \in D : h[i] <= f[i] + c
           Good(s) == /\ a[s] \in Nat /\ b[s] \in Nat /\ a[s] <= b[s]
                      /\ \A c \in Nat : Near(c) => b[s] <= a[s] + c * Cardinality(s)
           S == {n \in Nat : \A s \in SUBSET D : Cardinality(s) = n => Good(s)}
<1>3. ASSUME NEW s \in SUBSET D, s # {}
      PROVE  /\ Some(s) \in D /\ s \ {Some(s)} \in SUBSET D
             /\ Cardinality(s) \in Nat /\ Cardinality(s \ {Some(s)}) \in Nat
             /\ Cardinality(s) = Cardinality(s \ {Some(s)}) + 1
  BY <1>3, SomeLess
<1>4. 0 \in S
  <2>1. \A s \in SUBSET D : Cardinality(s) = 0 => s = {}
    BY NoneIsEmpty
  <2>2. a[{}] = 0 /\ b[{}] = 0 /\ Cardinality({}) = 0
    BY <1>1, <1>2, FS_EmptySet DEF Sums
  <2>3. Good({})
    BY <2>2
  <2> HIDE DEF Good
  <2> QED BY <2>1, <2>3
<1>5. ASSUME NEW n \in Nat, n \in S PROVE n + 1 \in S
  <2> SUFFICES ASSUME NEW s \in SUBSET D, Cardinality(s) = n + 1 PROVE Good(s)
    OBVIOUS
  <2>1. s # {}
    BY FS_EmptySet
  <2> DEFINE x == Some(s)
             r == s \ {x}
  <2>2. x \in D /\ r \in SUBSET D /\ Cardinality(r) \in Nat /\ Cardinality(s) = Cardinality(r) + 1
    BY <1>3, <2>1
  <2>3. Cardinality(r) = n
    BY <2>2
  <2>4. Good(r)
    BY <1>5, <2>2, <2>3
  <2>5. a[s] = f[x] + a[r] /\ b[s] = h[x] + b[r]
    BY <1>1, <1>2, <2>1 DEF Sums
  <2> HIDE DEF x, r
  <2>6. f[x] \in Nat /\ h[x] \in Nat /\ f[x] <= h[x]
    BY <2>2
  <2>7. a[s] \in Nat /\ b[s] \in Nat /\ a[s] <= b[s]
    BY <2>4, <2>5, <2>6
  <2>8. ASSUME NEW c \in Nat, Near(c) PROVE b[s] <= a[s] + c * Cardinality(s)
    <3>1. b[r] <= a[r] + c * n /\ h[x] <= f[x] + c
      BY <2>2, <2>3, <2>4, <2>8
    <3>2. c * (n + 1) = c * n + c /\ c * n \in Nat
      OBVIOUS
    <3> QED BY <2>2, <2>3, <2>4, <2>5, <2>6, <3>1, <3>2
  <2> QED BY <2>7, <2>8
<1> HIDE DEF S
<1>6. Nat \subseteq S
  BY <1>4, <1>5, ByInduction
<1>7. Good(D)
  BY <1>6, FS_CardinalityType DEF S
<1> QED BY <1>1, <1>2, <1>7

LEMMA SumIsNat ==
    ASSUME NEW D, IsFiniteSet(D), NEW f \in [D -> Nat]
    PROVE  SumFunction(f) \in Nat
  BY SumBounds

-----------------------------------------------------------------------------
(***************************************************************************)
(* Powers, in the same way.                                                *)
(***************************************************************************)
Products(f, g) ==
    g = [s \in SUBSET DOMAIN f |-> IF s = {} THEN 1 ELSE f[Some(s)] * g[s \ {Some(s)}]]

LEMMA ProductIsFold ==
    ASSUME NEW f, IsFiniteSet(DOMAIN f)
    PROVE  \E g : Products(f, g) /\ FoldFunction(LAMBDA x, y : x * y, 1, f) = g[DOMAIN f]
<1> DEFINE D == DOMAIN f
           Small(n) == {s \in SUBSET D : Cardinality(s) <= n}
           Upto(n, g) == g = [s \in Small(n) |->
                                IF s = {} THEN 1 ELSE f[Some(s)] * g[s \ {Some(s)}]]
           S == {n \in Nat : \E g : Upto(n, g)}
<1>0. \A s \in SUBSET D : s # {} => /\ Some(s) \in s
                                    /\ s \ {Some(s)} \in SUBSET D
                                    /\ Cardinality(s) \in Nat /\ Cardinality(s \ {Some(s)}) \in Nat
                                    /\ Cardinality(s) = Cardinality(s \ {Some(s)}) + 1
  BY SomeLess
<1>1. 0 \in S
  <2>1. \A s \in Small(0) : s = {}
    <3> SUFFICES ASSUME NEW s \in Small(0), s # {} PROVE FALSE
      OBVIOUS
    <3>1. /\ Cardinality(s) \in Nat /\ Cardinality(s \ {Some(s)}) \in Nat
          /\ Cardinality(s) = Cardinality(s \ {Some(s)}) + 1 /\ Cardinality(s) <= 0
      BY <1>0
    <3> QED BY <3>1
  <2>2. Upto(0, [s \in Small(0) |-> 1])
    BY <2>1
  <2> QED BY <2>2
<1>2. ASSUME NEW n \in Nat, n \in S PROVE n + 1 \in S
  <2>1. PICK g : Upto(n, g)
    BY <1>2
  <2> DEFINE h == [s \in Small(n + 1) |-> IF s = {} THEN 1 ELSE f[Some(s)] * g[s \ {Some(s)}]]
  <2>2. \A s \in Small(n) : s \in Small(n + 1) /\ h[s] = g[s]
    <3> SUFFICES ASSUME NEW s \in Small(n) PROVE s \in Small(n + 1) /\ h[s] = g[s]
      OBVIOUS
    <3>1. Cardinality(s) \in Nat
      BY FS_Subset, FS_CardinalityType
    <3>2. s \in Small(n + 1)
      BY <3>1
    <3> QED BY <2>1, <3>2
  <2>3. \A s \in Small(n + 1) : s # {} => s \ {Some(s)} \in Small(n)
    BY <1>0
  <2>4. Upto(n + 1, h)
    <3> HIDE DEF Small
    <3> QED BY <2>2, <2>3
  <2> HIDE DEF h, Upto
  <2> QED BY <2>4
<1> HIDE DEF S
<1>3. Nat \subseteq S
  BY <1>1, <1>2, ByInduction
<1>4. Cardinality(D) \in S
  BY <1>3, FS_CardinalityType
<1>5. Small(Cardinality(D)) = SUBSET D
  BY FS_Subset
<1>6. \E g : Products(f, g)
  BY <1>4, <1>5 DEF S, Products
<1> DEFINE it == CHOOSE g : Products(f, g)
<1>7. Products(f, it)
  BY <1>6, Zenon
<1>8. FoldFunction(LAMBDA x, y : x * y, 1, f) = it[D]
  BY Zenon DEF FoldFunction, FoldFunctionOnSet, MapThenFoldSet, Products, Some
<1> QED BY <1>7, <1>8

LEMMA TimesMore ==
    ASSUME NEW b \in Nat, NEW c \in Nat, b < c, NEW p \in Nat \ {0}, NEW q \in Nat, p <= q
    PROVE  b * p < c * q
<1>1. b * p < c * p
  BY SMT
<1>2. c * p <= c * q
  BY SMT
<1>3. b * p \in Nat /\ c * p \in Nat /\ c * q \in Nat
  OBVIOUS
<1> HIDE DEF Nat
<1> QED BY <1>1, <1>2, <1>3

\* The larger base has the larger power, from the first on.
LEMMA PowerBounds ==
    ASSUME NEW b \in Nat \ {0}, NEW c \in Nat, b < c, NEW n \in Nat \ {0}
    PROVE  /\ Power(b, n) \in Nat \ {0} /\ Power(c, n) \in Nat
           /\ Power(b, n) < Power(c, n)
<1> DEFINE D == 1 .. n
           f == [i \in 1 .. n |-> b]
           h == [i \in 1 .. n |-> c]
<1>0. IsFiniteSet(D) /\ D # {} /\ Cardinality(D) \in Nat
  <2>1. IsFiniteSet(D)
    BY FS_Interval
  <2>2. 1 \in D
    OBVIOUS
  <2> QED BY <2>1, <2>2, FS_CardinalityType
<1>1. PICK p : Products(f, p) /\ Power(b, n) = p[D]
  <2>1. \E p : Products(f, p) /\ FoldFunction(LAMBDA x, y : x * y, 1, f) = p[DOMAIN f]
    BY <1>0, ProductIsFold
  <2> QED BY <2>1 DEF Power
<1>2. PICK q : Products(h, q) /\ Power(c, n) = q[D]
  <2>1. \E q : Products(h, q) /\ FoldFunction(LAMBDA x, y : x * y, 1, h) = q[DOMAIN h]
    BY <1>0, ProductIsFold
  <2> QED BY <2>1 DEF Power
<1> DEFINE Good(s) == /\ p[s] \in Nat \ {0} /\ q[s] \in Nat /\ p[s] <= q[s]
                      /\ s # {} => p[s] < q[s]
           S == {k \in Nat : \A s \in SUBSET D : Cardinality(s) = k => Good(s)}
<1>3. \A s \in SUBSET D : s # {} =>
          /\ Some(s) \in D /\ s \ {Some(s)} \in SUBSET D
          /\ Cardinality(s) \in Nat /\ Cardinality(s \ {Some(s)}) \in Nat
          /\ Cardinality(s) = Cardinality(s \ {Some(s)}) + 1
          /\ p[s] = b * p[s \ {Some(s)}] /\ q[s] = c * q[s \ {Some(s)}]
  <2> SUFFICES ASSUME NEW s \in SUBSET D, s # {}
               PROVE  /\ Some(s) \in D /\ s \ {Some(s)} \in SUBSET D
                      /\ Cardinality(s) \in Nat /\ Cardinality(s \ {Some(s)}) \in Nat
                      /\ Cardinality(s) = Cardinality(s \ {Some(s)}) + 1
                      /\ p[s] = b * p[s \ {Some(s)}] /\ q[s] = c * q[s \ {Some(s)}]
    OBVIOUS
  <2>1. Some(s) \in s
    BY DEF Some
  <2>2. p[s] = f[Some(s)] * p[s \ {Some(s)}] /\ q[s] = h[Some(s)] * q[s \ {Some(s)}]
    BY <1>1, <1>2 DEF Products
  <2>3. f[Some(s)] = b /\ h[Some(s)] = c
    BY <2>1
  <2> HIDE DEF D, f, h
  <2> QED BY <1>0, <2>1, <2>2, <2>3, SomeLess
<1>4. p[{}] = 1 /\ q[{}] = 1
  BY <1>1, <1>2 DEF Products
<1> HIDE DEF D, f, h
<1>5. 0 \in S
  <2>1. \A s \in SUBSET D : Cardinality(s) = 0 => s = {}
    BY <1>0, NoneIsEmpty
  <2>2. Good({})
    BY <1>4
  <2> HIDE DEF Good
  <2> QED BY <2>1, <2>2
<1>6. ASSUME NEW k \in Nat, k \in S PROVE k + 1 \in S
  <2> SUFFICES ASSUME NEW s \in SUBSET D, Cardinality(s) = k + 1 PROVE Good(s)
    OBVIOUS
  <2>1. s # {}
    BY FS_EmptySet
  <2> DEFINE r == s \ {Some(s)}
  <2>2. /\ r \in SUBSET D /\ Cardinality(r) \in Nat /\ Cardinality(s) = Cardinality(r) + 1
        /\ p[s] = b * p[r] /\ q[s] = c * q[r]
    BY <1>3, <2>1
  <2> HIDE DEF r
  <2>3. Cardinality(r) = k
    BY <2>2
  <2>4. Good(r)
    BY <1>6, <2>2, <2>3
  <2>5. b * p[r] < c * q[r] /\ b * p[r] \in Nat \ {0} /\ c * q[r] \in Nat
    BY <2>4, TimesMore
  <2> QED BY <2>2, <2>5
<1> HIDE DEF S
<1>7. Nat \subseteq S
  BY <1>5, <1>6, ByInduction
<1>8. Good(D)
  BY <1>0, <1>7 DEF S
<1> QED BY <1>0, <1>1, <1>2, <1>8

-----------------------------------------------------------------------------
(***************************************************************************)
(* Money: what rounding does to an instalment, to a ratio and to an offer. *)
(***************************************************************************)

\* Rounding down leaves less than one.
LEMMA FloorBounds ==
    ASSUME NEW n \in Nat, NEW d \in Nat \ {0}
    PROVE  n \div d \in Nat /\ d * (n \div d) <= n /\ n < d * (n \div d) + d
<1> DEFINE q == n \div d
           r == n % d
<1>1. q \in Nat /\ r \in Nat /\ r < d /\ n = d * q + r
  BY SMT
<1>2. d * q \in Nat
  BY <1>1
<1> HIDE DEF q, r
<1>3. d * q <= n /\ n < d * q + d
  BY <1>1, <1>2
<1> QED BY <1>1, <1>3 DEF q

\* Rounding half up moves by at most a half, up; and by less than a half, down.
LEMMA HalfUpBounds ==
    ASSUME NEW n \in Nat, NEW d \in Nat \ {0}
    PROVE  /\ HalfUp(n, d) \in Nat
           /\ 2 * (d * HalfUp(n, d)) <= 2 * n + d
           /\ 2 * n < 2 * (d * HalfUp(n, d)) + d
<1> DEFINE q == n \div d
           r == n % d
<1>1. q \in Nat /\ r \in Nat /\ r < d /\ n = d * q + r
  BY SMT
<1>2. d * (q + 1) = d * q + d /\ d * q \in Nat
  BY <1>1
<1>3. HalfUp(n, d) = IF 2 * r >= d THEN q + 1 ELSE q
  BY <1>1 DEF HalfUp
<1> HIDE DEF q, r
<1>4. CASE 2 * r >= d
  BY <1>1, <1>2, <1>3, <1>4
<1>5. CASE ~ (2 * r >= d)
  BY <1>1, <1>2, <1>3, <1>5
<1> QED BY <1>4, <1>5

LEMMA TimesKeepsOrder ==
    ASSUME NEW a \in Int, NEW b \in Int, a <= b, NEW c \in Nat
    PROVE  a * c <= b * c /\ c * a <= c * b
  BY SMT

LEMMA HalfUpKeepsOrder ==
    ASSUME NEW m \in Nat, NEW n \in Nat, m <= n, NEW d \in Nat \ {0}
    PROVE  HalfUp(m, d) <= HalfUp(n, d)
<1> DEFINE x == HalfUp(m, d)
           y == HalfUp(n, d)
<1>1. /\ x \in Nat /\ 2 * (d * x) <= 2 * m + d
      /\ y \in Nat /\ 2 * n < 2 * (d * y) + d
  BY HalfUpBounds
<1> HIDE DEF x, y
<1> SUFFICES ASSUME y + 1 <= x PROVE FALSE
  BY <1>1 DEF x, y
<1>2. d * (y + 1) <= d * x
  BY <1>1, TimesKeepsOrder
<1>3. d * (y + 1) = d * y + d /\ d * y \in Nat /\ d * x \in Nat
  BY <1>1
<1> QED BY <1>1, <1>2, <1>3

\* A unit is a fraction above zero, whatever the rate and the term.
Units == [num : Nat \ {0}, den : Nat \ {0}]

LEMMA UnitIsUnit ==
    ASSUME NEW rate \in Fractions, NEW term \in Nat \ {0}
    PROVE  Unit(rate, term) \in Units
<1>0. rate.num \in Nat /\ rate.den \in Nat \ {0}
  BY DEF Fractions
<1>1. CASE rate.num = 0
  BY <1>1 DEF Unit, Units
<1>2. CASE rate.num # 0
  <2> DEFINE g == Grown(rate, term)
             f == Flat(rate, term)
  <2>0. rate.den + rate.num \in Nat /\ rate.den < rate.den + rate.num
    BY <1>0, <1>2
  <2>1. g \in Nat /\ f \in Nat \ {0} /\ f < g
    BY <1>0, <2>0, PowerBounds DEF Grown, Flat
  <2> HIDE DEF g, f
  <2>2. g - f \in Nat \ {0} /\ g \in Nat \ {0}
    BY <2>1
  <2>3. rate.num * g \in Nat \ {0} /\ rate.den * (g - f) \in Nat \ {0}
    BY <1>0, <1>2, <2>2
  <2>4. Unit(rate, term) = [num |-> rate.num * g, den |-> rate.den * (g - f)]
    BY <1>2 DEF Unit, g, f
  <2> QED BY <2>3, <2>4 DEF Units
<1> QED BY <1>1, <1>2

\* An instalment is an amount, and the larger one for the larger principal.
LEMMA PaymentKeepsOrder ==
    ASSUME NEW unit \in Units, NEW p \in Nat, NEW q \in Nat, p <= q
    PROVE  /\ AnnuityPayment(p, unit) \in Nat /\ AnnuityPayment(q, unit) \in Nat
           /\ AnnuityPayment(p, unit) <= AnnuityPayment(q, unit)
<1>1. unit.num \in Nat /\ unit.den \in Nat \ {0}
  BY DEF Units
<1>2. p * unit.num \in Nat /\ q * unit.num \in Nat /\ p * unit.num <= q * unit.num
  BY <1>1, TimesKeepsOrder
<1> QED BY <1>1, <1>2, HalfUpBounds, HalfUpKeepsOrder DEF AnnuityPayment

\* So is a ratio, by the instalment.
LEMMA RatioKeepsOrder ==
    ASSUME NEW owed \in Nat, NEW income \in Nat \ {0}, NEW p \in Nat, NEW q \in Nat, p <= q
    PROVE  /\ DebtToIncome(owed, p, income) \in Nat /\ DebtToIncome(owed, q, income) \in Nat
           /\ DebtToIncome(owed, p, income) <= DebtToIncome(owed, q, income)
<1>1. /\ 10000 * (owed + p) \in Nat /\ 10000 * (owed + q) \in Nat
      /\ 10000 * (owed + p) <= 10000 * (owed + q)
  OBVIOUS
<1> QED BY <1>1, HalfUpBounds, HalfUpKeepsOrder DEF DebtToIncome

\* The exact instalment of an amount fits into what is left of the income.
FitsInto(amount, unit, room) == amount * unit.num * room.den <= room.num * unit.den

LEMMA LessFitsToo ==
    ASSUME NEW unit \in Units, NEW p \in Nat, NEW q \in Nat, p <= q,
           NEW room, room.num \in Int, room.den \in Nat, FitsInto(q, unit, room)
    PROVE  FitsInto(p, unit, room)
<1>1. unit.num \in Nat /\ unit.den \in Nat
  BY DEF Units
<1>2. p * unit.num <= q * unit.num /\ p * unit.num \in Nat /\ q * unit.num \in Nat
  BY <1>1, TimesKeepsOrder
<1>3. p * unit.num * room.den <= q * unit.num * room.den
  BY <1>2, TimesKeepsOrder
<1> DEFINE a == p * unit.num * room.den
           b == q * unit.num * room.den
           c == room.num * unit.den
<1>4. a \in Int /\ b \in Int /\ c \in Int
  BY <1>1, <1>2
<1>5. a <= b /\ b <= c
  BY <1>3 DEF FitsInto
<1> HIDE DEF a, b, c
<1>6. a <= c
  BY <1>4, <1>5
<1> QED BY <1>6 DEF FitsInto, a, c

\* What is cut to fit is a whole number of steps, fits, and one step more does not.
LEMMA PrincipalFits ==
    ASSUME NEW most, most.num \in Int, most.den \in Nat \ {0}, NEW unit \in Units,
           NEW rounding \in Nat \ {0}, NEW p, p = MaxPrincipal(most, unit, rounding), p # 0
    PROVE  /\ p \in Nat /\ p % rounding = 0
           /\ FitsInto(p, unit, most)
           /\ ~ FitsInto(p + rounding, unit, most)
<1> DEFINE a == most.num * unit.den
           b == most.den * unit.num
           k == a \div (b * rounding)
<1>1. most.num \in Nat \ {0}
  BY DEF MaxPrincipal
<1>2. unit.num \in Nat \ {0} /\ unit.den \in Nat \ {0}
  BY DEF Units
<1>3. a \in Nat /\ b \in Nat \ {0}
  BY <1>1, <1>2
<1>4. p = k * rounding
  <2>1. most.den * unit.num * rounding = b * rounding
    OBVIOUS
  <2> QED BY <1>1, <2>1 DEF MaxPrincipal
<1>5. p * unit.num * most.den = p * b /\ (p + rounding) * unit.num * most.den = (p + rounding) * b
  <2>1. ASSUME NEW x \in Int PROVE x * unit.num * most.den = x * b
    BY <1>2
  <2>2. p \in Int
    BY <1>3, <1>4
  <2> QED BY <2>1, <2>2
<1> HIDE DEF a, b
<1> DEFINE c == b * rounding
<1>6. c \in Nat \ {0}
  BY <1>3
<1>7. k \in Nat /\ c * k <= a /\ a < c * k + c
  <2>1. k = a \div c
    OBVIOUS
  <2> HIDE DEF c, k
  <2>2. a \div c \in Nat /\ c * (a \div c) <= a /\ a < c * (a \div c) + c
    BY <1>3, <1>6, FloorBounds
  <2> QED BY <2>1, <2>2
<1> HIDE DEF k
<1>8. p * b = c * k /\ (p + rounding) * b = c * k + c
  BY <1>3, <1>4, <1>7
<1>9. p \in Nat
  BY <1>4, <1>7
<1>10. p % rounding = 0
  BY <1>4, <1>7, SMT
<1>11. p * b <= a /\ ~ ((p + rounding) * b <= a)
  <2> HIDE DEF c
  <2>1. c * k \in Nat /\ c \in Nat
    BY <1>6, <1>7
  <2> QED BY <1>3, <1>7, <1>8, <2>1
<1> QED BY <1>5, <1>9, <1>10, <1>11 DEF FitsInto, a

(***************************************************************************)
(* A ratio is rounded twice: the instalment to a minor unit, the ratio to  *)
(* a ten-thousandth. For an income of more than 10000 minor units and a    *)
(* limit n/d in whole ten-thousandths, what fits exactly keeps the limit   *)
(* also then.                                                              *)
(***************************************************************************)
\* Ratios are counted in ten-thousandths.
Scale == 10000

\* The instalment, rounded, against the room of a limit n/d.
LEMMA InRoom ==
    ASSUME NEW n \in Nat, NEW d \in Nat \ {0}, NEW income \in Nat, NEW owed \in Nat,
           NEW x \in Nat, NEW w \in Nat \ {0}, x * d <= (n * income - owed * d) * w,
           NEW pay \in Nat, 2 * (w * pay) <= 2 * x + w,
           NEW all, all = owed + pay
    PROVE  2 * (all * d) <= 2 * (n * income) + d
<1> DEFINE room == n * income - owed * d
<1>1. room \in Int
  OBVIOUS
<1>2. 2 * (w * pay) * d <= (2 * x + w) * d
  BY TimesKeepsOrder
<1>3. 2 * (w * pay) * d = w * (2 * (pay * d))
  OBVIOUS
<1>4. (2 * x + w) * d = 2 * (x * d) + w * d
  OBVIOUS
<1>5. x * d <= room * w
  OBVIOUS
<1>6. 2 * (room * w) + w * d = w * (2 * room + d)
  BY <1>1
<1> HIDE DEF room
<1>7. w * (2 * (pay * d)) <= w * (2 * room + d)
  <2>1. /\ x * d \in Int /\ room * w \in Int /\ w * d \in Int
        /\ w * (2 * (pay * d)) \in Int /\ w * (2 * room + d) \in Int
    BY <1>1
  <2> QED BY <1>2, <1>3, <1>4, <1>5, <1>6, <2>1
<1>8. 2 * (pay * d) <= 2 * room + d
  <2> SUFFICES ASSUME 2 * room + d + 1 <= 2 * (pay * d) PROVE FALSE
    BY <1>1
  <2>1. w * (2 * room + d + 1) <= w * (2 * (pay * d))
    BY <1>1, TimesKeepsOrder
  <2>2. w * (2 * room + d + 1) = w * (2 * room + d) + w
    BY <1>1
  <2>3. w * (2 * room + d) \in Int /\ w * (2 * (pay * d)) \in Int
    BY <1>1
  <2> QED BY <1>7, <2>1, <2>2, <2>3
<1>9. all * d = owed * d + pay * d
  OBVIOUS
<1>10. owed * d \in Int /\ pay * d \in Int /\ n * income \in Int /\ room = n * income - owed * d
  BY DEF room
<1> QED BY <1>8, <1>9, <1>10

LEMMA RoundedTwice ==
    ASSUME NEW n \in Nat, NEW d \in Nat \ {0}, NEW t \in Nat, Scale * n = t * d,
           NEW income \in Nat, income > Scale, NEW owed \in Nat,
           NEW x \in Nat, NEW w \in Nat \ {0}, x * d <= (n * income - owed * d) * w,
           NEW pay \in Nat, 2 * (w * pay) <= 2 * x + w,
           NEW all, all = owed + pay,
           NEW dti \in Nat, 2 * (income * dti) <= 2 * (Scale * all) + income
    PROVE  dti * d <= Scale * n
<1>1. all \in Nat
  OBVIOUS
<1>2. 2 * (all * d) <= 2 * (n * income) + d
  BY InRoom, Zenon
<1> USE DEF Scale
\* The ratio, rounded, against the limit in ten-thousandths.
<1>3. dti <= t
  <2> SUFFICES ASSUME t + 1 <= dti PROVE FALSE
    OBVIOUS
  <2>1. income * (t + 1) <= income * dti
    BY TimesKeepsOrder
  <2>2. income * (t + 1) = income * t + income /\ income * t \in Nat /\ income * dti \in Nat
    OBVIOUS
  <2>3. 2 * (income * t) + income <= 20000 * all
    BY <2>1, <2>2
  <2>4. (2 * (income * t) + income) * d <= 20000 * all * d
    BY <1>1, <2>2, <2>3, TimesKeepsOrder
  <2>5. (2 * (income * t) + income) * d = 2 * (income * (t * d)) + income * d
    BY <1>1
  <2>6. income * (t * d) = 10000 * (n * income)
    <3>1. t * d = 10000 * n
      OBVIOUS
    <3> QED BY <1>1, <3>1
  <2>7. 20000 * all * d = 10000 * (2 * (all * d))
    BY <1>1
  <2>8. 20000 * (n * income) + income * d <= 20000 * (n * income) + 10000 * d
    <3>1. all * d \in Nat /\ n * income \in Nat /\ income * d \in Nat
      BY <1>1
    <3> QED BY <1>1, <1>2, <2>4, <2>5, <2>6, <2>7, <3>1
  <2>9. income * d >= 10001 * d
    BY <1>1, TimesKeepsOrder
  <2>10. n * income \in Nat /\ income * d \in Nat
    BY <1>1
  <2> QED BY <1>1, <2>8, <2>9, <2>10
<1> QED BY <1>3, TimesKeepsOrder

LEMMA PaymentRounded ==
    ASSUME NEW unit \in Units, NEW p \in Nat
    PROVE  /\ AnnuityPayment(p, unit) \in Nat
           /\ 2 * (unit.den * AnnuityPayment(p, unit)) <= 2 * (p * unit.num) + unit.den
<1>1. p * unit.num \in Nat /\ unit.den \in Nat \ {0}
  BY DEF Units
<1> QED BY <1>1, HalfUpBounds DEF AnnuityPayment

LEMMA RatioRounded ==
    ASSUME NEW income \in Nat \ {0}, NEW owed \in Nat, NEW pay \in Nat
    PROVE  /\ DebtToIncome(owed, pay, income) \in Nat
           /\ 2 * (income * DebtToIncome(owed, pay, income))
                <= 2 * (Scale * (owed + pay)) + income
<1>1. 10000 * (owed + pay) \in Nat
  OBVIOUS
<1> QED BY <1>1, HalfUpBounds DEF DebtToIncome, Scale

\* A limit in whole ten-thousandths.
Exact(limit) == \E t \in Nat : Scale * limit.num = t * limit.den

LEMMA FittingIsWithin ==
    ASSUME NEW limit \in Fractions, Exact(limit),
           NEW income \in Nat, income > Scale, NEW owed \in Nat,
           NEW unit \in Units, NEW p \in Nat,
           FitsInto(p, unit, Headroom(income, owed, limit))
    PROVE  WithinLimit(DebtToIncome(owed, AnnuityPayment(p, unit), income), limit)
<1>1. PICK n \in Nat, d \in Nat \ {0} : n = limit.num /\ d = limit.den
  BY DEF Fractions
<1>2. PICK u \in Nat \ {0}, w \in Nat \ {0} : u = unit.num /\ w = unit.den
  BY DEF Units
<1>3. PICK x \in Nat : x = p * u
  OBVIOUS
<1>4. x * d <= (n * income - owed * d) * w
  BY <1>1, <1>2, <1>3 DEF FitsInto, Headroom
<1>5. PICK pay \in Nat : pay = AnnuityPayment(p, unit)
  BY PaymentRounded
<1>6. 2 * (w * pay) <= 2 * x + w
  BY <1>2, <1>3, <1>5, PaymentRounded
<1>7. PICK all \in Nat : all = owed + pay
  OBVIOUS
<1>8. PICK dti \in Nat : /\ dti = DebtToIncome(owed, pay, income)
                         /\ 2 * (income * dti) <= 2 * (Scale * all) + income
  <2>1. income \in Nat \ {0}
    BY DEF Scale
  <2>2. /\ DebtToIncome(owed, pay, income) \in Nat
        /\ 2 * (income * DebtToIncome(owed, pay, income))
             <= 2 * (Scale * (owed + pay)) + income
    BY <2>1, RatioRounded, Zenon
  <2> QED BY <1>7, <2>2
<1>9. PICK t \in Nat : Scale * n = t * d
  BY <1>1 DEF Exact
<1>10. dti * d <= Scale * n
  BY <1>4, <1>6, <1>7, <1>8, <1>9, RoundedTwice, Zenon
<1> QED BY <1>1, <1>5, <1>8, <1>10 DEF WithinLimit, Scale

\* Whatever fits a limit below one leaves the ratio at one at most, whatever the
\* income and the limit: the column holds the ratio of every counter-offer.
LEMMA WithinIncome ==
    ASSUME NEW n \in Nat, NEW d \in Nat \ {0}, n < d, NEW income \in Nat \ {0}, NEW all \in Nat,
           2 * (all * d) <= 2 * (n * income) + d
    PROVE  all <= income
<1> SUFFICES ASSUME income + 1 <= all PROVE FALSE
  OBVIOUS
<1>1. (income + 1) * d <= all * d
  BY TimesKeepsOrder
<1>2. (n + 1) * income <= d * income
  BY TimesKeepsOrder
<1>3. (income + 1) * d = d * income + d /\ (n + 1) * income = n * income + income
  OBVIOUS
<1>4. all * d \in Nat /\ d * income \in Nat /\ n * income \in Nat
  OBVIOUS
<1> QED BY <1>1, <1>2, <1>3, <1>4

LEMMA FittingIsBelowOne ==
    ASSUME NEW limit \in Fractions, limit.num < limit.den,
           NEW income \in Nat \ {0}, NEW owed \in Nat,
           NEW unit \in Units, NEW p \in Nat,
           FitsInto(p, unit, Headroom(income, owed, limit))
    PROVE  DebtToIncome(owed, AnnuityPayment(p, unit), income) <= Scale
<1>1. PICK n \in Nat, d \in Nat \ {0} : n = limit.num /\ d = limit.den /\ n < d
  BY DEF Fractions
<1>2. PICK u \in Nat \ {0}, w \in Nat \ {0} : u = unit.num /\ w = unit.den
  BY DEF Units
<1>3. PICK x \in Nat : x = p * u
  OBVIOUS
<1>4. x * d <= (n * income - owed * d) * w
  BY <1>1, <1>2, <1>3 DEF FitsInto, Headroom
<1>5. PICK pay \in Nat : pay = AnnuityPayment(p, unit)
  BY PaymentRounded
<1>6. 2 * (w * pay) <= 2 * x + w
  BY <1>2, <1>3, <1>5, PaymentRounded
<1>7. PICK all \in Nat : all = owed + pay
  OBVIOUS
<1>8. 2 * (all * d) <= 2 * (n * income) + d
  <2>1. income \in Nat
    OBVIOUS
  <2> QED BY <1>4, <1>6, <1>7, <2>1, InRoom, Zenon
<1>9. all <= income
  BY <1>1, <1>8, WithinIncome
<1>10. Scale \in Nat
  BY DEF Scale
<1>11. PICK dti \in Nat : /\ dti = DebtToIncome(owed, pay, income)
                          /\ 2 * (income * dti) <= 2 * (Scale * all) + income
  <2>1. /\ DebtToIncome(owed, pay, income) \in Nat
        /\ 2 * (income * DebtToIncome(owed, pay, income))
             <= 2 * (Scale * (owed + pay)) + income
    BY RatioRounded, Zenon
  <2> QED BY <1>7, <2>1
<1>12. dti <= Scale
  <2> SUFFICES ASSUME Scale + 1 <= dti PROVE FALSE
    BY <1>10
  <2>1. income * (Scale + 1) <= income * dti
    BY <1>10, TimesKeepsOrder
  <2>2. Scale * all <= Scale * income
    BY <1>9, <1>10, TimesKeepsOrder
  <2>3. income * (Scale + 1) = Scale * income + income
    BY <1>10
  <2>4. Scale * income \in Nat /\ Scale * all \in Nat /\ income * dti \in Nat
    BY <1>10
  <2> QED BY <1>11, <2>1, <2>2, <2>3, <2>4
<1> QED BY <1>5, <1>11, <1>12

-----------------------------------------------------------------------------
(***************************************************************************)
(* The scorecard.                                                          *)
(***************************************************************************)

\* What a loaded policy says of a product, in numbers.
LEMMA ProductAt ==
    ASSUME NEW v \in Versions, NEW p \in DOMAIN Policies[v].products
    PROVE  LET product == Policies[v].products[p]
           IN  /\ product.rate \in Fractions
               /\ product.minAmount \in Nat \ {0} /\ product.ceiling \in Nat
               /\ product.minTerm \in Nat \ {0} /\ product.maxTerm \in Nat
<1>1. ProductTyped(Policies[v].products[p])
  BY PoliciesAreTyped DEF PolicyTyped
<1>2. ProductCoherent(Policies[v].products[p])
  BY PoliciesLoad DEF Coherent, Versions
<1> QED BY <1>1, <1>2 DEF ProductTyped, ProductCoherent

LEMMA PolicyAt ==
    ASSUME NEW v \in Versions
    PROVE  LET policy == Policies[v]
           IN  /\ policy.maxDti \in Fractions /\ policy.maxDti.num < policy.maxDti.den
               /\ policy.rounding \in Nat \ {0} /\ policy.validityDays \in Nat
               /\ policy.referralFrom \in Nat /\ policy.autoApproveFrom \in Nat
               /\ policy.referralFrom < policy.autoApproveFrom
               /\ policy.maxPoints \in Nat /\ policy.autoApproveFrom <= policy.maxPoints
               /\ policy.minMonthlyIncome \in Nat \ {0}
               /\ policy.maxDisclosed \in 1 .. 4 /\ policy.materialPointsLost \in Nat
               /\ IsList(policy.factors) /\ IsList(policy.registry)
               /\ policy.factors # <<>>
               /\ \A i \in DOMAIN policy.factors : /\ FactorTyped(policy.factors[i])
                                                   /\ FactorCoherent(policy.factors[i], policy)
<1>1. PolicyTyped(Policies[v])
  BY PoliciesAreTyped
<1>2. Coherent(Policies[v]) /\ Policies[v].minMonthlyIncome > 0
  BY PoliciesLoad, IncomesPositive DEF Versions
<1> QED BY <1>1, <1>2 DEF PolicyTyped, Coherent

\* SelectInSeq finds a place of the sequence, or none: for the tests used here.
LEMMA PlaceBounds ==
    ASSUME NEW seq, IsList(seq), NEW code
    PROVE  PlaceIn(seq, code) \in 0 .. Len(seq)
<1> DEFINE I == {i \in 1 .. Len(seq) : seq[i] = code}
<1>1. PlaceIn(seq, code) = IF I # {} THEN Min(I) ELSE 0
  BY DEF PlaceIn, SelectInSeq
<1>2. I \subseteq Nat
  OBVIOUS
<1>3. I # {} => Min(I) \in I
  <2> HIDE DEF I
  <2> QED BY <1>2, LeastIsMin
<1>4. Len(seq) \in Nat
  BY DEF IsList
<1> QED BY <1>1, <1>3, <1>4

\* A factor awards no more than its maximum.
LEMMA AwardBounds ==
    ASSUME NEW factor, NEW policy, FactorTyped(factor), FactorCoherent(factor, policy), NEW value
    PROVE  LET award == Award(factor, value)
           IN  /\ award.awarded \in 0 .. factor.maxPoints
               /\ award.lost = factor.maxPoints - award.awarded
               /\ award.reasonCode = factor.reasonCode
<1> DEFINE I == {i \in 1 .. Len(factor.bands) : Matches(factor.bands[i], value)}
           hit == IF I # {} THEN Min(I) ELSE 0
           awarded == IF hit = 0 THEN factor.default ELSE factor.bands[hit].points
<1>1. Award(factor, value) = [awarded |-> awarded, lost |-> factor.maxPoints - awarded,
                              reasonCode |-> factor.reasonCode]
  BY DEF Award, AwardAt, SelectInSeq
<1>2. I \subseteq Nat /\ I \subseteq 1 .. Len(factor.bands)
  OBVIOUS
<1>3. hit # 0 => hit \in DOMAIN factor.bands
  <2> HIDE DEF I
  <2>1. I # {} => Min(I) \in I
    BY <1>2, LeastIsMin
  <2> QED BY <1>2, <2>1 DEF FactorTyped, IsList
<1> HIDE DEF hit
<1>4. awarded \in 0 .. factor.maxPoints
  BY <1>3 DEF FactorCoherent
<1> HIDE DEF awarded
<1> QED BY <1>1, <1>4

\* So the scorecard awards between nothing and the maximum of the policy; and
\* whoever loses less than a bound on each factor loses less than that in all.
LEMMA ScoreBounds ==
    ASSUME NEW v \in Versions, NEW report
    PROVE  LET policy == Policies[v]
               awards == Awards(report, policy)
               n      == Len(policy.factors)
           IN  /\ Score(awards) \in 0 .. policy.maxPoints
               /\ n \in Nat \ {0} /\ DOMAIN awards = 1 .. n
               /\ \A i \in 1 .. n : /\ awards[i].awarded \in Nat /\ awards[i].lost \in Nat
                                    /\ awards[i].reasonCode = policy.factors[i].reasonCode
               /\ \A c \in Nat : (\A i \in 1 .. n : awards[i].lost <= c) =>
                      policy.maxPoints <= Score(awards) + c * n
<1> DEFINE policy == Policies[v]
           awards == Awards(report, policy)
           n == Len(policy.factors)
           D == 1 .. n
           f == [i \in D |-> awards[i].awarded]
           h == [i \in D |-> policy.factors[i].maxPoints]
<1>1. n \in Nat \ {0} /\ DOMAIN policy.factors = D
  <2>1. IsList(policy.factors) /\ policy.factors # <<>>
    BY PolicyAt
  <2> QED BY <2>1 DEF IsList
<1>2. DOMAIN awards = D /\ \A i \in D :
          awards[i] = Award(policy.factors[i], ReadInput(report, policy.factors[i].input))
  BY <1>1 DEF Awards
<1>3. \A i \in D : /\ awards[i].awarded \in 0 .. policy.factors[i].maxPoints
                   /\ policy.factors[i].maxPoints \in Nat
                   /\ awards[i].lost = policy.factors[i].maxPoints - awards[i].awarded
                   /\ awards[i].reasonCode = policy.factors[i].reasonCode
  <2> SUFFICES ASSUME NEW i \in D
               PROVE  /\ awards[i].awarded \in 0 .. policy.factors[i].maxPoints
                      /\ policy.factors[i].maxPoints \in Nat
                      /\ awards[i].lost = policy.factors[i].maxPoints - awards[i].awarded
                      /\ awards[i].reasonCode = policy.factors[i].reasonCode
    OBVIOUS
  <2>1. FactorTyped(policy.factors[i]) /\ FactorCoherent(policy.factors[i], policy)
    BY <1>1, PolicyAt
  <2>2. awards[i] = Award(policy.factors[i], ReadInput(report, policy.factors[i].input))
    BY <1>2
  <2> HIDE DEF awards, policy, D
  <2>3. policy.factors[i].maxPoints \in Nat
    BY <2>1 DEF FactorTyped
  <2> QED BY <2>1, <2>2, <2>3, AwardBounds
<1>4. policy.maxPoints = SumFunction(h)
  BY <1>1, PoliciesLoad DEF Coherent, Versions
<1>5. Score(awards) = SumFunction(f)
  BY <1>2 DEF Score
<1> HIDE DEF policy, awards
<1>6. IsFiniteSet(D) /\ Cardinality(D) = n
  BY <1>1, FS_Interval
<1>7. f \in [D -> Nat] /\ h \in [D -> Nat] /\ \A i \in D : f[i] <= h[i]
  BY <1>3
<1>8. \A c \in Nat : (\A i \in D : awards[i].lost <= c) => \A i \in D : h[i] <= f[i] + c
  BY <1>3
<1> HIDE DEF D, f, h
<1>9. /\ SumFunction(f) \in Nat /\ SumFunction(h) \in Nat /\ SumFunction(f) <= SumFunction(h)
      /\ \A c \in Nat : (\A i \in D : h[i] <= f[i] + c) =>
             SumFunction(h) <= SumFunction(f) + c * Cardinality(D)
  BY <1>6, <1>7, SumBounds
<1>10. Score(awards) \in 0 .. policy.maxPoints
  BY <1>4, <1>5, <1>9
<1>11. \A c \in Nat : (\A i \in D : awards[i].lost <= c) =>
           policy.maxPoints <= Score(awards) + c * n
  BY <1>4, <1>5, <1>6, <1>8, <1>9
<1>12. \A i \in D : awards[i].awarded \in Nat /\ awards[i].lost \in Nat
  BY <1>3
<1> QED BY <1>1, <1>2, <1>3, <1>10, <1>11, <1>12 DEF policy, awards, D

\* The date of a decision is a number.
LEMMA DayIsNumber ==
    ASSUME NEW date \in Dates
    PROVE  DayOf(date) \in Int
<1> DEFINE D == 1 .. date.month - 1
           f == [m \in D |-> DaysIn(date.year, m)]
<1>1. date.year \in Nat /\ date.month \in Nat /\ date.day \in Nat
  BY DEF Dates
<1>2. IsFiniteSet(D)
  BY <1>1, FS_Interval
<1>3. f \in [D -> Nat]
  BY <1>1 DEF DaysIn
<1>4. SumFunction(f) \in Nat
  <2> HIDE DEF D, f
  <2> QED BY <1>2, <1>3, SumIsNat
<1> DEFINE past == date.year - 1
<1>5. DayOf(date) = 365 * past + past \div 4 - past \div 100 + past \div 400
                      + SumFunction(f) + date.day
  BY DEF DayOf
<1>6. past \in Int
  BY <1>1
<1> HIDE DEF past, f
<1>7. /\ 365 * past \in Int
      /\ past \div 4 \in Int /\ past \div 100 \in Int /\ past \div 400 \in Int
  BY <1>6
<1> QED BY <1>1, <1>4, <1>5, <1>7

-----------------------------------------------------------------------------
(***************************************************************************)
(* Reasons: a sorted sequence is the same elements, in order.              *)
(***************************************************************************)
StrictOrder(before, S) ==
    /\ \A x \in S : <<x, x>> \notin before
    /\ \A x, y, z \in S : <<x, y>> \in before /\ <<y, z>> \in before => <<x, z>> \in before
    /\ \A x, y \in S : x = y \/ <<x, y>> \in before \/ <<y, x>> \in before

\* The number of elements before one tells them apart, and none is left out.
LEMMA InOrderArranges ==
    ASSUME NEW S, IsFiniteSet(S), NEW before, StrictOrder(before, S)
    PROVE  LET position == InOrder(S, before)
               n        == Cardinality(S)
           IN  /\ n \in Nat /\ DOMAIN position = 1 .. n
               /\ \A k \in 1 .. n : position[k] \in S
               /\ \A x \in S : \E k \in 1 .. n : position[k] = x
               /\ \A j, k \in 1 .. n : j < k => <<position[j], position[k]>> \in before
<1> DEFINE n == Cardinality(S)
           Under(x) == {y \in S : <<y, x>> \in before}
           place == [x \in S |-> Cardinality(Under(x)) + 1]
           position == InOrder(S, before)
<1>1. n \in Nat
  BY FS_CardinalityType
<1>2. ASSUME NEW x \in S
      PROVE  IsFiniteSet(Under(x)) /\ Cardinality(Under(x)) \in Nat /\ Cardinality(Under(x)) < n
  <2>1. Under(x) \in SUBSET S /\ Under(x) # S
    BY DEF StrictOrder
  <2>2. IsFiniteSet(Under(x)) /\ Cardinality(Under(x)) <= n
    BY <2>1, FS_Subset
  <2>3. Cardinality(Under(x)) # n
    BY <2>1, FS_Subset
  <2>4. Cardinality(Under(x)) \in Nat
    BY <2>2, FS_CardinalityType
  <2> QED BY <1>1, <2>2, <2>3, <2>4
<1>3. ASSUME NEW x \in S, NEW y \in S, <<x, y>> \in before
      PROVE  place[x] < place[y]
  <2>1. Under(x) \in SUBSET Under(y) /\ x \in Under(y) /\ x \notin Under(x)
    BY <1>3 DEF StrictOrder
  <2>2. Cardinality(Under(x)) <= Cardinality(Under(y)) /\ Cardinality(Under(x)) # Cardinality(Under(y))
    <3> HIDE DEF Under
    <3> QED BY <1>2, <2>1, FS_Subset
  <2>3. Cardinality(Under(x)) \in Nat /\ Cardinality(Under(y)) \in Nat
    BY <1>2
  <2> HIDE DEF Under
  <2> QED BY <2>2, <2>3
<1>4. \A x \in S : place[x] \in 1 .. n
  <2> HIDE DEF Under
  <2> QED BY <1>1, <1>2
<1>5. position = [k \in 1 .. n |-> CHOOSE x \in S : Cardinality(Under(x)) = k - 1]
  BY DEF InOrder
<1>6. ASSUME NEW x \in S, NEW y \in S, place[x] = place[y] PROVE x = y
  <2>1. place[x] \in Int /\ place[y] \in Int
    BY <1>4
  <2>2. x = y \/ <<x, y>> \in before \/ <<y, x>> \in before
    BY DEF StrictOrder
  <2> HIDE DEF place
  <2>3. ~ (<<x, y>> \in before) /\ ~ (<<y, x>> \in before)
    BY <1>3, <1>6, <2>1
  <2> QED BY <2>2, <2>3
<1>7. place \in Injection(S, 1 .. n)
  <2>1. place \in [S -> 1 .. n]
    BY <1>4
  <2> HIDE DEF place
  <2> QED BY <1>6, <2>1 DEF Injection, IsInjective
<1>8. place \in Surjection(S, 1 .. n)
  <2>1. IsFiniteSet(1 .. n) /\ Cardinality(1 .. n) = n
    BY <1>1, FS_Interval
  <2> HIDE DEF place
  <2> QED BY <1>7, <2>1, FS_Injection
<1>9. ASSUME NEW k \in 1 .. n PROVE position[k] \in S /\ place[position[k]] = k
  <2>1. PICK x \in S : place[x] = k
    <3> HIDE DEF place
    <3> QED BY <1>8 DEF Surjection
  <2>2. Cardinality(Under(x)) = k - 1
    <3> HIDE DEF Under
    <3> QED BY <1>2, <2>1
  <2> HIDE DEF Under
  <2>3. position[k] = CHOOSE y \in S : Cardinality(Under(y)) = k - 1
    BY <1>5
  <2>4. position[k] \in S /\ Cardinality(Under(position[k])) = k - 1
    BY <2>2, <2>3
  <2> QED BY <2>4
<1>10. ASSUME NEW x \in S PROVE \E k \in 1 .. n : position[k] = x
  <2>1. place[x] \in 1 .. n
    BY <1>4
  <2> HIDE DEF place, position
  <2>2. position[place[x]] \in S /\ place[position[place[x]]] = place[x]
    BY <1>9, <2>1
  <2>3. position[place[x]] = x
    BY <1>6, <2>2
  <2> QED BY <2>1, <2>3
<1>11. ASSUME NEW j \in 1 .. n, NEW k \in 1 .. n, j < k
       PROVE  <<position[j], position[k]>> \in before
  <2>1. position[j] \in S /\ position[k] \in S /\ place[position[j]] = j /\ place[position[k]] = k
    BY <1>9
  <2> HIDE DEF place, position
  <2>2. position[j] # position[k]
    BY <1>11, <2>1
  <2>3. ~ (<<position[k], position[j]>> \in before)
    <3> SUFFICES ASSUME <<position[k], position[j]>> \in before PROVE FALSE
      OBVIOUS
    <3>1. k < j
      BY <1>3, <2>1
    <3> QED BY <1>11, <3>1
  <2> QED BY <2>1, <2>2, <2>3 DEF StrictOrder
<1>12. DOMAIN position = 1 .. n
  BY <1>5
<1> HIDE DEF position
<1> QED BY <1>1, <1>9, <1>10, <1>11, <1>12 DEF position

\* The same of the elements of a sequence at some positions.
LEMMA ArrangedIsAll ==
    ASSUME NEW S, IsFiniteSet(S), NEW before, StrictOrder(before, S), NEW seq, NEW T,
           \A i \in S : seq[i] \in T
    PROVE  LET result == Arranged(seq, S, before)
               n      == Cardinality(S)
           IN  /\ n \in Nat /\ result \in [1 .. n -> T]
               /\ \A k \in 1 .. n : \E i \in S : result[k] = seq[i] /\ InOrder(S, before)[k] = i
               /\ \A i \in S : \E k \in 1 .. n : result[k] = seq[i] /\ InOrder(S, before)[k] = i
<1> DEFINE position == InOrder(S, before)
           n == Cardinality(S)
<1>1. /\ n \in Nat
      /\ \A k \in 1 .. n : position[k] \in S
      /\ \A x \in S : \E k \in 1 .. n : position[k] = x
  BY InOrderArranges
<1>2. Arranged(seq, S, before) = [k \in 1 .. n |-> seq[position[k]]]
  BY DEF Arranged
<1> HIDE DEF position, n
<1> QED BY <1>1, <1>2 DEF position, n

\* Nothing to sort, nothing sorted.
LEMMA ArrangedIsEmpty ==
    ASSUME NEW S, IsFiniteSet(S), NEW before, NEW seq
    PROVE  Arranged(seq, S, before) = <<>> <=> S = {}
<1> DEFINE n == Cardinality(S)
<1>1. n \in Nat /\ (n = 0 <=> S = {})
  BY FS_CardinalityType, FS_EmptySet
<1>2. Arranged(seq, S, before) = [k \in 1 .. n |-> seq[InOrder(S, before)[k]]]
  BY DEF Arranged
<1> HIDE DEF n
<1>3. DOMAIN Arranged(seq, S, before) = 1 .. n
  BY <1>2
<1>4. CASE n = 0
  <2>1. 1 .. n = {}
    BY <1>4
  <2> QED BY <1>1, <1>2, <1>4, <2>1
<1>5. CASE n # 0
  <2>1. 1 \in 1 .. n
    BY <1>1, <1>5
  <2> QED BY <1>1, <1>3, <1>5, <2>1
<1> QED BY <1>4, <1>5

\* A list of rules fires when one of them holds.
LEMMA FiredIsSome ==
    ASSUME NEW rules, IsFiniteSet(DOMAIN rules)
    PROVE  Fired(rules) = <<>> <=> \A i \in DOMAIN rules : ~ rules[i].holds
<1> DEFINE S == {i \in DOMAIN rules : rules[i].holds}
<1>1. IsFiniteSet(S)
  BY FS_Subset
<1>2. Fired(rules) = <<>> <=> S = {}
  BY <1>1, ArrangedIsEmpty, Zenon DEF Fired
<1> QED BY <1>2

-----------------------------------------------------------------------------
(***************************************************************************)
(* What the engine may conclude.                                           *)
(***************************************************************************)

\* Reasons to conclude something: some, and codes.
IsCause(codes) == IsList(codes) /\ codes # <<>> /\ \A i \in DOMAIN codes : codes[i] \in EngineCodes

LEMMA FiredIsCause ==
    ASSUME NEW n \in Nat, NEW rules, DOMAIN rules = 1 .. n,
           \A i \in 1 .. n : rules[i].code \in EngineCodes,
           \E i \in 1 .. n : rules[i].holds
    PROVE  IsCause(Fired(rules))
<1> DEFINE S == {i \in DOMAIN rules : rules[i].holds}
           seq == [i \in DOMAIN rules |-> rules[i].code]
           before == Ascending(DOMAIN rules)
<1>1. IsFiniteSet(DOMAIN rules)
  BY FS_Interval
<1>2. IsFiniteSet(S)
  BY <1>1, FS_Subset
<1>3. StrictOrder(before, S)
  BY DEF StrictOrder, Ascending
<1>4. \A i \in S : seq[i] \in EngineCodes
  OBVIOUS
<1>5. Fired(rules) = Arranged(seq, S, before)
  BY DEF Fired
<1>6. Fired(rules) # <<>>
  BY <1>1, FiredIsSome
<1> HIDE DEF S, seq, before
<1>7. Cardinality(S) \in Nat /\ Arranged(seq, S, before) \in [1 .. Cardinality(S) -> EngineCodes]
  BY <1>2, <1>3, <1>4, ArrangedIsAll
<1>8. Arranged(seq, S, before) \in Seq(EngineCodes)
  BY <1>7, SeqDef
<1> QED BY <1>5, <1>6, <1>7, <1>8 DEF IsCause, IsList

LEMMA OneIsCause ==
    ASSUME NEW code \in EngineCodes
    PROVE  IsCause(<<code>>)
<1>1. Len(<<code>>) = 1 /\ DOMAIN <<code>> = 1 .. 1 /\ <<code>>[1] = code
  OBVIOUS
<1>2. <<code>> # <<>>
  OBVIOUS
<1> DEFINE codes == <<code>>
<1> HIDE DEF codes
<1>3. Len(codes) \in Nat /\ DOMAIN codes = 1 .. Len(codes)
  BY <1>1 DEF codes
<1>4. ASSUME NEW i \in DOMAIN codes PROVE codes[i] \in EngineCodes
  <2>1. i = 1
    BY <1>1 DEF codes
  <2> QED BY <1>1, <2>1 DEF codes
<1> QED BY <1>2, <1>3, <1>4 DEF IsCause, IsList, codes

\* The screen, the report and the referrals have codes for what they conclude.
LEMMA RulesAreCauses ==
    ASSUME NEW a, NEW report, NEW policy, NEW now
    PROVE  /\ ~ Passes(a, policy, now) => IsCause(Fired(ScreeningRules(a, policy, now)))
           /\ Knockouts(report, policy) # <<>> => IsCause(Knockouts(report, policy))
           /\ Referrals(a, report, policy) # <<>> => IsCause(Referrals(a, report, policy))
<1>1. ASSUME ~ Passes(a, policy, now) PROVE IsCause(Fired(ScreeningRules(a, policy, now)))
  <2> DEFINE rules == ScreeningRules(a, policy, now)
  <2>1. DOMAIN rules = 1 .. 5 /\ \A i \in 1 .. 5 : rules[i].code \in EngineCodes
    <3>1. DOMAIN rules = 1 .. 5
      BY DEF ScreeningRules
    <3>2. /\ rules[1].code \in EngineCodes /\ rules[2].code \in EngineCodes /\ rules[3].code \in EngineCodes
          /\ rules[4].code \in EngineCodes /\ rules[5].code \in EngineCodes
      BY DEF ScreeningRules, Rule, EngineCodes
    <3> HIDE DEF rules
    <3>3. \A i \in 1 .. 5 : i = 1 \/ i = 2 \/ i = 3 \/ i = 4 \/ i = 5
      OBVIOUS
    <3> QED BY <3>1, <3>2, <3>3
  <2>2. \E i \in 1 .. 5 : rules[i].holds
    BY <1>1, <2>1 DEF Passes
  <2> HIDE DEF rules
  <2>3. IsCause(Fired(rules))
    BY <2>1, <2>2, FiredIsCause
  <2> QED BY <2>3 DEF rules
<1>2. ASSUME NEW n \in Nat, NEW rules, DOMAIN rules = 1 .. n,
             \A i \in 1 .. n : rules[i].code \in EngineCodes, Fired(rules) # <<>>
      PROVE  IsCause(Fired(rules))
  <2>1. \E i \in 1 .. n : rules[i].holds
    <3>1. IsFiniteSet(DOMAIN rules)
      BY <1>2, FS_Interval
    <3> QED BY <1>2, <3>1, FiredIsSome
  <2> QED BY <1>2, <2>1, FiredIsCause
<1>3. ASSUME Knockouts(report, policy) # <<>> PROVE IsCause(Knockouts(report, policy))
  <2>1. PICK rules : /\ Knockouts(report, policy) = Fired(rules) /\ DOMAIN rules = 1 .. 3
                     /\ rules[1].code \in EngineCodes /\ rules[2].code \in EngineCodes
                     /\ rules[3].code \in EngineCodes
    BY DEF Knockouts, Rule, EngineCodes
  <2>2. \A i \in 1 .. 3 : i = 1 \/ i = 2 \/ i = 3
    OBVIOUS
  <2>3. \A i \in 1 .. 3 : rules[i].code \in EngineCodes
    BY <2>1, <2>2
  <2> QED BY <1>2, <1>3, <2>1, <2>3
<1>4. ASSUME Referrals(a, report, policy) # <<>> PROVE IsCause(Referrals(a, report, policy))
  <2>1. PICK rules : /\ Referrals(a, report, policy) = Fired(rules) /\ DOMAIN rules = 1 .. 3
                     /\ rules[1].code \in EngineCodes /\ rules[2].code \in EngineCodes
                     /\ rules[3].code \in EngineCodes
    BY DEF Referrals, Rule, EngineCodes
  <2>2. \A i \in 1 .. 3 : i = 1 \/ i = 2 \/ i = 3
    OBVIOUS
  <2>3. \A i \in 1 .. 3 : rules[i].code \in EngineCodes
    BY <2>1, <2>2
  <2> QED BY <1>2, <1>4, <2>1, <2>3
<1> QED BY <1>1, <1>3, <1>4

\* A report is on file, complete, and in nothing against a decision by score.
Readable(lookup, policy) ==
    lookup.outcome \notin {"UNAVAILABLE", "NO_HIT"} /\ IsComplete(lookup.report, policy)

Cleared(a, lookup, policy) ==
    LET score == Score(Awards(lookup.report, policy))
    IN  /\ Readable(lookup, policy)
        /\ Knockouts(lookup.report, policy) = <<>>
        /\ Referrals(a, lookup.report, policy) = <<>>
        /\ ~ (score < policy.referralFrom) /\ ~ (score < policy.autoApproveFrom)

LEMMA ClearedIsAfford ==
    ASSUME NEW a, NEW lookup, NEW policy, NEW now, Cleared(a, lookup, policy)
    PROVE  Decide(a, lookup, policy, now)
             = Afford(a, lookup.report, Awards(lookup.report, policy), policy, now)
  BY DEF Cleared, Readable, Decide, DecideOnReport

\* The verdicts that say nothing of a score.
Unread(result, policy) ==
    \E verdict, stage, codes :
        /\ verdict \in {"DECLINED", "MANUAL_REVIEW"} /\ IsCause(codes)
        /\ result = Unscored(verdict, stage, codes, policy)

\* And those that do, short of affordability.
ByScore(result, policy, awards) ==
    LET score == Score(awards)
        With(verdict, stage, codes) ==
            result = Terminal(verdict, stage, codes, policy, awards, score, None)
    IN  \/ \E codes : IsCause(codes) /\ With("MANUAL_REVIEW", "D4", codes)
        \/ score < policy.referralFrom /\ With("DECLINED", "D5", <<>>)
        \/ /\ ~ (score < policy.referralFrom) /\ score < policy.autoApproveFrom
           /\ With("MANUAL_REVIEW", "D6", <<"SCORE_IN_REFERRAL_BAND">>)

LEMMA UnreadIs ==
    ASSUME NEW result, NEW policy, NEW verdict \in {"DECLINED", "MANUAL_REVIEW"},
           NEW stage, NEW codes, IsCause(codes),
           result = Unscored(verdict, stage, codes, policy)
    PROVE  Unread(result, policy)
  BY Zenon DEF Unread

LEMMA Conclusions ==
    ASSUME NEW a, NEW lookup, NEW policy, NEW now
    PROVE  LET result == Decide(a, lookup, policy, now)
           IN  \/ Unread(result, policy)
               \/ /\ Readable(lookup, policy)
                  /\ ByScore(result, policy, Awards(lookup.report, policy))
               \/ Cleared(a, lookup, policy)
<1> DEFINE result == Decide(a, lookup, policy, now)
           report == lookup.report
           awards == Awards(report, policy)
           score == Score(awards)
<1>1. CASE ~ Readable(lookup, policy)
  <2>1. ASSUME NEW code \in EngineCodes, result = Unscored("MANUAL_REVIEW", "D1", <<code>>, policy)
        PROVE  Unread(result, policy)
    <3> HIDE DEF result
    <3>1. "MANUAL_REVIEW" \in {"DECLINED", "MANUAL_REVIEW"}
      OBVIOUS
    <3> QED BY <2>1, <3>1, OneIsCause, UnreadIs, Zenon
  <2>2. PICK code \in EngineCodes : result = Unscored("MANUAL_REVIEW", "D1", <<code>>, policy)
    <3>1. /\ "BUREAU_UNAVAILABLE" \in EngineCodes /\ "NO_CREDIT_FILE" \in EngineCodes
          /\ "BUREAU_DATA_INCOMPLETE" \in EngineCodes
      BY DEF EngineCodes
    <3>2. CASE lookup.outcome = "UNAVAILABLE"
      BY <3>1, <3>2 DEF Decide
    <3>3. CASE lookup.outcome = "NO_HIT"
      BY <3>1, <3>3 DEF Decide
    <3>4. CASE lookup.outcome \notin {"UNAVAILABLE", "NO_HIT"}
      BY <1>1, <3>1, <3>4 DEF Decide, Readable
    <3> QED BY <3>2, <3>3, <3>4
  <2> QED BY <2>1, <2>2
<1>2. CASE Readable(lookup, policy)
  <2>1. result = DecideOnReport(a, report, policy, now)
    BY <1>2 DEF Readable, Decide
  <2>2. CASE Knockouts(report, policy) # <<>>
    <3>1. result = Unscored("DECLINED", "D2", Knockouts(report, policy), policy)
      BY <2>1, <2>2 DEF DecideOnReport
    <3>2. IsCause(Knockouts(report, policy))
      BY <2>2, RulesAreCauses
    <3> HIDE DEF result
    <3>3. "DECLINED" \in {"DECLINED", "MANUAL_REVIEW"}
      OBVIOUS
    <3> QED BY <3>1, <3>2, <3>3, UnreadIs, Zenon DEF result
  <2>3. CASE Knockouts(report, policy) = <<>> /\ Referrals(a, report, policy) # <<>>
    <3>1. result = Terminal("MANUAL_REVIEW", "D4", Referrals(a, report, policy), policy,
                            awards, score, None)
      BY <2>1, <2>3 DEF DecideOnReport
    <3>2. IsCause(Referrals(a, report, policy))
      BY <2>3, RulesAreCauses
    <3> HIDE DEF result
    <3> QED BY <1>2, <3>1, <3>2 DEF ByScore, result
  <2>4. CASE Knockouts(report, policy) = <<>> /\ Referrals(a, report, policy) = <<>>
    <3>1. CASE score < policy.referralFrom
      <4>1. result = Terminal("DECLINED", "D5", <<>>, policy, awards, score, None)
        BY <2>1, <2>4, <3>1 DEF DecideOnReport
      <4> HIDE DEF result
      <4> QED BY <1>2, <3>1, <4>1 DEF ByScore, result
    <3>2. CASE ~ (score < policy.referralFrom) /\ score < policy.autoApproveFrom
      <4>1. result = Terminal("MANUAL_REVIEW", "D6", <<"SCORE_IN_REFERRAL_BAND">>, policy,
                              awards, score, None)
        BY <2>1, <2>4, <3>2 DEF DecideOnReport
      <4> HIDE DEF result
      <4> QED BY <1>2, <3>2, <4>1 DEF ByScore, result
    <3>3. CASE ~ (score < policy.referralFrom) /\ ~ (score < policy.autoApproveFrom)
      BY <1>2, <2>4, <3>3 DEF Cleared
    <3> QED BY <3>1, <3>2, <3>3
  <2> QED BY <2>2, <2>3, <2>4
<1> QED BY <1>1, <1>2

\* What a reproduced row rests on.
OnReport(a, row) ==
    /\ row.report # None /\ Screened(a, row.policyVersion)
    /\ RecordedLookup(row) \in Answers(a.body)
    /\ RecordedLookup(row) = Found(row.report.report)

LEMMA Concluded ==
    ASSUME NEW a, NEW row, Reproduced(a, row)
    PROVE  LET policy == Policies[row.policyVersion]
               result == Again(a, row)
           IN  \/ Unread(result, policy)
               \/ /\ OnReport(a, row)
                  /\ ByScore(result, policy, Awards(row.report.report, policy))
               \/ /\ OnReport(a, row) /\ Cleared(a.body, RecordedLookup(row), policy)
                  /\ result = Decide(a.body, RecordedLookup(row), policy, a.submittedAt)
<1> DEFINE policy == Policies[row.policyVersion]
           result == Again(a, row)
           lookup == RecordedLookup(row)
<1>1. CASE ~ Passes(a.body, policy, a.submittedAt)
  <2>1. result = Unscored("DECLINED", "S1",
                          Fired(ScreeningRules(a.body, policy, a.submittedAt)), policy)
    BY <1>1 DEF Again, Knockout
  <2>2. IsCause(Fired(ScreeningRules(a.body, policy, a.submittedAt)))
    BY <1>1, RulesAreCauses
  <2> HIDE DEF result
  <2>3. "DECLINED" \in {"DECLINED", "MANUAL_REVIEW"}
    OBVIOUS
  <2> QED BY <2>1, <2>2, <2>3, UnreadIs, Zenon DEF result
<1>2. CASE Passes(a.body, policy, a.submittedAt)
  <2>1. result = Decide(a.body, lookup, policy, a.submittedAt)
    BY <1>2 DEF Again
  <2>2. ASSUME Readable(lookup, policy) PROVE OnReport(a, row) /\ lookup.report = row.report.report
    <3>1. row.report # None /\ row.report.outcome = "FOUND"
      BY <2>2 DEF Readable, RecordedLookup, Unavailable, NoHit
    <3>2. lookup = Found(row.report.report)
      BY <3>1 DEF RecordedLookup
    <3>3. lookup.report = row.report.report
      BY <3>2 DEF Found
    <3> QED BY <3>1, <3>2, <3>3 DEF OnReport, Reproduced
  <2>3. \/ Unread(result, policy)
        \/ Readable(lookup, policy) /\ ByScore(result, policy, Awards(lookup.report, policy))
        \/ Cleared(a.body, lookup, policy)
    BY <2>1, Conclusions
  <2> HIDE DEF result, lookup
  <2> QED BY <2>1, <2>2, <2>3 DEF Cleared, result, lookup
<1> QED BY <1>1, <1>2

-----------------------------------------------------------------------------
(***************************************************************************)
(* Who reaches affordability, and what is offered there.                   *)
(***************************************************************************)

LEMMA Applicant ==
    ASSUME NEW a, a.body \in Bodies, NEW v \in Versions, Screened(a, v)
    PROVE  LET product == Policies[v].products[a.body.product]
           IN  /\ a.body.term \in Nat \ {0} /\ a.body.requested \in Nat
               /\ a.body.income \in Nat \ {0} /\ a.body.income >= Policies[v].minMonthlyIncome
               /\ a.body.requested >= product.minAmount /\ product.minAmount \in Nat \ {0}
               /\ product.rate \in Fractions /\ Unit(product.rate, a.body.term) \in Units
<1> DEFINE policy == Policies[v]
           product == policy.products[a.body.product]
<1>1. /\ product.rate \in Fractions /\ product.minAmount \in Nat \ {0}
      /\ product.minTerm \in Nat \ {0}
  BY ProductAt DEF Screened
<1>2. policy.minMonthlyIncome \in Nat \ {0}
  BY PolicyAt
<1>3. a.body.term \in Nat /\ a.body.requested \in Nat /\ a.body.income \in Nat
  BY BodiesAreTyped
<1>4. /\ a.body.requested \in product.minAmount .. product.maxAmount
      /\ a.body.term \in product.minTerm .. product.maxTerm
      /\ ~ (a.body.income < policy.minMonthlyIncome)
  BY PassesAll DEF Screened
<1> HIDE DEF policy, product
<1>5. a.body.term \in Nat \ {0}
  BY <1>1, <1>3, <1>4
<1>6. Unit(product.rate, a.body.term) \in Units
  BY <1>1, <1>5, UnitIsUnit
<1> QED BY <1>1, <1>2, <1>3, <1>4, <1>5, <1>6 DEF policy, product

LEMMA OwedIsNat ==
    ASSUME NEW a, a.body \in Bodies, NEW row, OnReport(a, row)
    PROVE  Obligations(a.body, row.report.report) \in Nat
<1> DEFINE lookup == RecordedLookup(row)
<1>1. lookup \in Answers(a.body) /\ lookup.outcome = "FOUND" /\ lookup.report = row.report.report
  BY DEF OnReport, Found
<1>2. row.report.report.monthlyObligationsMinor \in Nat \cup {Gap}
  BY <1>1, ObligationsAreAmounts
<1>3. a.body.obligations \in Nat
  BY BodiesAreTyped
<1> QED BY <1>2, <1>3 DEF Obligations

LEMMA MaxPrincipalIsNat ==
    ASSUME NEW most, most.num \in Int, most.den \in Nat \ {0}, NEW unit \in Units,
           NEW rounding \in Nat \ {0}
    PROVE  MaxPrincipal(most, unit, rounding) \in Nat
<1>1. CASE MaxPrincipal(most, unit, rounding) = 0
  BY <1>1
<1>2. CASE MaxPrincipal(most, unit, rounding) # 0
  BY <1>2, PrincipalFits
<1> QED BY <1>1, <1>2

LEMMA RoomIsTyped ==
    ASSUME NEW income \in Nat, NEW owed \in Nat, NEW limit \in Fractions
    PROVE  /\ Headroom(income, owed, limit).num \in Int
           /\ Headroom(income, owed, limit).den \in Nat \ {0}
  BY DEF Headroom, Fractions

\* An offer, in its parts.
LEMMA OfferIs ==
    ASSUME NEW codes, NEW amount, NEW a, NEW owed, NEW awards, NEW policy, NEW now
    PROVE  LET offer   == Offer(codes, amount, a, owed, awards, policy, now)
               payment == AnnuityPayment(amount, Unit(policy.products[a.product].rate, a.term))
           IN  /\ offer.verdict = "APPROVED" /\ offer.approved = amount
               /\ offer.payment = payment /\ offer.expires = DayOf(now) + policy.validityDays
               /\ offer.score = Score(awards)
               /\ offer.dti = DebtToIncome(owed, payment, a.income)
               /\ offer.reasons = DiscloseReasonCodes(codes, awards, policy)
  BY DEF Offer

LEMMA TerminalIs ==
    ASSUME NEW verdict, NEW stage, NEW codes, NEW policy, NEW awards, NEW score, NEW dti
    PROVE  LET result == Terminal(verdict, stage, codes, policy, awards, score, dti)
           IN  /\ result.verdict = verdict /\ result.approved = None
               /\ result.payment = None /\ result.expires = None
               /\ result.score = score /\ result.dti = dti
               /\ result.reasons = DiscloseReasonCodes(codes, awards, policy)
  BY DEF Terminal

LEMMA RowIs ==
    ASSUME NEW result, NEW asked, NEW version, NEW report, NEW cause,
           NEW row, row = Row(result, asked, version, report, cause)
    PROVE  /\ row.verdict = result.verdict /\ row.reasons = result.reasons
           /\ row.requested = asked /\ row.approved = result.approved
           /\ row.payment = result.payment /\ row.expires = result.expires
           /\ row.score = result.score /\ row.dti = result.dti
  BY DEF Row

\* The three ends of affordability.
LEMMA AffordIs ==
    ASSUME NEW a, NEW report, NEW awards, NEW policy, NEW now
    PROVE  LET result == Afford(a, report, awards, policy, now)
               owed   == Obligations(a, report)
               asked  == Offer(<<>>, a.requested, a, owed, awards, policy, now)
               less   == CounterOffer(a, owed, policy)
           IN  \/ WithinLimit(asked.dti, policy.maxDti) /\ result = asked
               \/ /\ ~ WithinLimit(asked.dti, policy.maxDti)
                  /\ policy.counterOfferEnabled /\ less >= policy.products[a.product].minAmount
                  /\ result = Offer(<<"AMOUNT_REDUCED_TO_FIT_DTI">>, less, a, owed, awards,
                                    policy, now)
               \/ /\ ~ WithinLimit(asked.dti, policy.maxDti)
                  /\ result = Terminal("DECLINED", "D7", <<"DTI_ABOVE_LIMIT">>, policy, awards,
                                       Score(awards), asked.dti)
  BY DEF Afford

\* An offer made to an applicant is of numbers.
LEMMA OfferIsTyped ==
    ASSUME NEW a, a.body \in Bodies, a.submittedAt \in Days, NEW v \in Versions, Screened(a, v),
           NEW owed \in Nat, NEW amount \in Nat, NEW codes, NEW report
    PROVE  LET policy == Policies[v]
               offer  == Offer(codes, amount, a.body, owed, Awards(report, policy), policy,
                               a.submittedAt)
           IN  /\ offer.payment \in Nat /\ offer.expires \in Int
               /\ offer.score \in 0 .. policy.maxPoints /\ offer.dti \in Nat
<1> DEFINE policy == Policies[v]
           unit == Unit(policy.products[a.body.product].rate, a.body.term)
           payment == AnnuityPayment(amount, unit)
<1>1. unit \in Units /\ a.body.income \in Nat \ {0}
  BY Applicant
<1>2. payment \in Nat
  <2> HIDE DEF unit
  <2> QED BY <1>1, PaymentRounded
<1>3. DebtToIncome(owed, payment, a.body.income) \in Nat
  <2>1. PICK p \in Nat : p = payment
    BY <1>2
  <2>2. PICK income \in Nat \ {0} : income = a.body.income
    BY <1>1
  <2> HIDE DEF payment
  <2> QED BY <2>1, <2>2, RatioRounded
<1>4. DayOf(a.submittedAt) \in Int
  BY DaysAreDates, DayIsNumber
<1>5. policy.validityDays \in Nat
  BY PolicyAt
<1>6. Score(Awards(report, policy)) \in 0 .. policy.maxPoints
  BY ScoreBounds
<1> HIDE DEF policy
<1> QED BY <1>2, <1>3, <1>4, <1>5, <1>6, OfferIs DEF policy

\* What is cut down to fit is a number.
LEMMA CounterIsNat ==
    ASSUME NEW a, a.body \in Bodies, NEW v \in Versions, Screened(a, v), NEW owed \in Nat
    PROVE  CounterOffer(a.body, owed, Policies[v]) \in Nat
<1> DEFINE policy == Policies[v]
           unit == Unit(policy.products[a.body.product].rate, a.body.term)
           room == Headroom(a.body.income, owed, policy.maxDti)
<1>1. unit \in Units /\ a.body.income \in Nat
  BY Applicant
<1>2. policy.maxDti \in Fractions /\ policy.rounding \in Nat \ {0}
  BY PolicyAt
<1> HIDE DEF policy, unit
<1>3. room.num \in Int /\ room.den \in Nat \ {0}
  BY <1>1, <1>2, RoomIsTyped
<1> HIDE DEF room
<1>4. MaxPrincipal(room, unit, policy.rounding) \in Nat
  BY <1>1, <1>2, <1>3, MaxPrincipalIsNat
<1> QED BY <1>4 DEF CounterOffer, room, unit, policy

\* An answer that agrees with itself.
Consistent(verdict, score, offered, policy) ==
    /\ BandFor(score, policy) = "DECLINE" => verdict # "APPROVED"
    /\ BandFor(score, policy) = "REFERRAL" => verdict = "MANUAL_REVIEW"
    /\ verdict = "APPROVED" => BandFor(score, policy) = "AUTO_APPROVE"
    /\ offered <=> verdict = "APPROVED"

\* An offer on record: of numbers, and of the instalment its rate asks for.
OfferOnRecord(a, row) ==
    LET policy == Policies[row.policyVersion]
    IN  row.verdict = "APPROVED" =>
            /\ Screened(a, row.policyVersion)
            /\ row.approved \in Nat /\ row.payment \in Nat /\ row.expires \in Int
            /\ row.payment = AnnuityPayment(row.approved,
                                 Unit(policy.products[a.body.product].rate, a.body.term))

LEMMA RowAgrees ==
    ASSUME NEW a, a.body \in Bodies, a.submittedAt \in Days, NEW row, Reproduced(a, row)
    PROVE  /\ Consistent(row.verdict, row.score, HasOffer(row), Policies[row.policyVersion])
           /\ OfferOnRecord(a, row)
<1> DEFINE v == row.policyVersion
           policy == Policies[v]
           result == Again(a, row)
           awards == Awards(row.report.report, policy)
           score == Score(awards)
<1>1. v \in Versions
  BY DEF Reproduced
<1>2. /\ row.verdict = result.verdict /\ row.approved = result.approved
      /\ row.payment = result.payment /\ row.expires = result.expires
      /\ row.score = result.score
  BY RowIs DEF Reproduced
<1>3. /\ policy.referralFrom \in Nat /\ policy.autoApproveFrom \in Nat
      /\ policy.referralFrom < policy.autoApproveFrom
  BY <1>1, PolicyAt
<1>4. score \in Nat
  <2>1. score \in 0 .. policy.maxPoints
    BY <1>1, ScoreBounds
  <2> HIDE DEF score
  <2> QED BY <2>1
<1>5. ASSUME row.verdict # "APPROVED", row.approved = None,
             \/ row.score = None
             \/ row.score = score /\ (row.verdict # "MANUAL_REVIEW" => score < policy.referralFrom
                                        \/ ~ (score < policy.autoApproveFrom))
      PROVE  /\ Consistent(row.verdict, row.score, HasOffer(row), policy)
             /\ OfferOnRecord(a, row)
  <2>1. ~ HasOffer(row)
    BY <1>5 DEF HasOffer
  <2>2. BandFor(row.score, policy) = "REFERRAL" => row.verdict = "MANUAL_REVIEW"
    <3> HIDE DEF score, policy
    <3> QED BY <1>3, <1>4, <1>5, NullIsApart DEF BandFor, Bands
  <2> QED BY <1>5, <2>1, <2>2 DEF Consistent, OfferOnRecord
<1>6. CASE Unread(result, policy)
  <2>1. PICK verdict, stage, codes :
            /\ verdict \in {"DECLINED", "MANUAL_REVIEW"}
            /\ result = Unscored(verdict, stage, codes, policy)
    BY <1>6 DEF Unread
  <2>2. result = Terminal(verdict, stage, codes, policy, <<>>, None, None)
    BY <2>1 DEF Unscored
  <2> HIDE DEF result, policy
  <2>3. result.verdict = verdict /\ result.approved = None /\ result.score = None
    BY <2>2, TerminalIs
  <2>4. result.verdict # "APPROVED"
    BY <2>1, <2>3
  <2>5. row.verdict # "APPROVED" /\ row.approved = None /\ row.score = None
    BY <1>2, <2>3, <2>4
  <2> QED BY <1>5, <2>5 DEF policy
<1>7. CASE ByScore(result, policy, awards)
  <2> HIDE DEF result, policy, awards
  <2>1. /\ result.verdict # "APPROVED" /\ result.approved = None /\ result.score = score
        /\ result.verdict # "MANUAL_REVIEW" => score < policy.referralFrom
    BY <1>7, TerminalIs DEF ByScore
  <2> HIDE DEF score
  <2>2. /\ row.verdict # "APPROVED" /\ row.approved = None /\ row.score = score
        /\ row.verdict # "MANUAL_REVIEW" => score < policy.referralFrom
    BY <1>2, <2>1
  <2> QED BY <1>5, <2>2 DEF policy
<1>8. CASE /\ OnReport(a, row) /\ Cleared(a.body, RecordedLookup(row), policy)
           /\ result = Decide(a.body, RecordedLookup(row), policy, a.submittedAt)
  <2> DEFINE report == row.report.report
             owed == Obligations(a.body, report)
             less == CounterOffer(a.body, owed, policy)
             Offered(codes, amount) ==
                 Offer(codes, amount, a.body, owed, awards, policy, a.submittedAt)
  <2>1. RecordedLookup(row).report = report
    BY <1>8 DEF OnReport, Found
  <2>2. result = Afford(a.body, report, awards, policy, a.submittedAt)
    BY <1>8, <2>1, ClearedIsAfford
  <2>3. ~ (score < policy.autoApproveFrom)
    BY <1>8, <2>1 DEF Cleared
  <2>4. Screened(a, v) /\ owed \in Nat
    BY <1>8, OwedIsNat DEF OnReport
  <2>5. a.body.requested \in Nat /\ less \in Nat
    BY <1>1, <2>4, Applicant, CounterIsNat
  <2>6. ASSUME NEW codes, NEW amount \in Nat, result = Offered(codes, amount)
        PROVE  /\ Consistent(row.verdict, row.score, HasOffer(row), policy)
               /\ OfferOnRecord(a, row)
    <3>1. /\ row.verdict = "APPROVED" /\ row.approved = amount /\ row.score = score
          /\ row.payment = AnnuityPayment(amount,
                               Unit(policy.products[a.body.product].rate, a.body.term))
      <4> HIDE DEF result, owed, awards, policy
      <4> QED BY <1>2, <2>6, OfferIs
    <3>2. row.payment \in Nat /\ row.expires \in Int
      <4>1. Offered(codes, amount).payment \in Nat /\ Offered(codes, amount).expires \in Int
        BY <1>1, <2>4, OfferIsTyped
      <4> QED BY <1>2, <2>6, <4>1
    <3>3. HasOffer(row)
      BY <3>1, <3>2, NullIsApart DEF HasOffer
    <3>4. BandFor(row.score, policy) = "AUTO_APPROVE"
      <4> HIDE DEF score, policy
      <4> QED BY <1>3, <1>4, <2>3, <3>1, NullIsApart DEF BandFor
    <3>5. Consistent(row.verdict, row.score, HasOffer(row), policy)
      BY <3>1, <3>3, <3>4 DEF Consistent
    <3> QED BY <2>4, <3>1, <3>2, <3>5 DEF OfferOnRecord
  <2>7. ASSUME NEW codes, NEW dti,
               result = Terminal("DECLINED", "D7", codes, policy, awards, score, dti)
        PROVE  /\ Consistent(row.verdict, row.score, HasOffer(row), policy)
               /\ OfferOnRecord(a, row)
    <3>1. row.verdict = "DECLINED" /\ row.approved = None /\ row.score = score
      <4> HIDE DEF result, awards, policy, score
      <4> QED BY <1>2, <2>7, TerminalIs
    <3> QED BY <1>5, <2>3, <3>1
  <2>8. \/ \E codes : result = Offered(codes, a.body.requested)
        \/ \E codes : result = Offered(codes, less)
        \/ \E codes, dti : result = Terminal("DECLINED", "D7", codes, policy, awards, score, dti)
    <3> HIDE DEF result, awards, policy
    <3> QED BY <2>2, AffordIs
  <2> HIDE DEF result, Offered, less
  <2> QED BY <2>5, <2>6, <2>7, <2>8
<1> QED BY <1>6, <1>7, <1>8, Concluded

\* What is rendered of a decision agrees with itself, whatever is deployed: the
\* band with the verdict, an offer with an approval, the instalment with the rate.
THEOREM EnvelopeAgreesAlways == Spec => []EnvelopeAgrees
<1>1. Inv => EnvelopeAgrees
  <2> SUFFICES ASSUME Inv, decision # None
               PROVE  /\ Envelope.band = "DECLINE" => Envelope.verdict # "APPROVED"
                      /\ Envelope.band = "REFERRAL" => Envelope.verdict = "MANUAL_REVIEW"
                      /\ Envelope.verdict = "APPROVED" => Envelope.band = "AUTO_APPROVE"
                      /\ (Envelope.offer # None) <=> (Envelope.verdict = "APPROVED")
                      /\ Envelope.offer # None =>
                             Envelope.offer.payment =
                                 AnnuityPayment(Envelope.offer.amount,
                                                Unit(Envelope.offer.rate, Envelope.offer.term))
    BY DEF EnvelopeAgrees
  <2> DEFINE policy == TermsOf(decision)
             offer == [amount |-> decision.approved, payment |-> decision.payment,
                       rate |-> policy.products[application.body.product].rate,
                       term |-> application.body.term]
  <2>1. ApplicationOK /\ Reproduced(application, decision)
    BY DEF Inv, Decided
  <2>2. /\ Consistent(decision.verdict, decision.score, HasOffer(decision), policy)
        /\ OfferOnRecord(application, decision)
    BY <2>1, RowAgrees DEF ApplicationOK, TermsOf
  <2>3. /\ Envelope.verdict = decision.verdict
        /\ Envelope.band = BandFor(decision.score, policy)
        /\ Envelope.offer = IF ~ HasOffer(decision) THEN None ELSE offer
    BY DEF Envelope
  <2>4. HasOffer(decision) =>
            /\ offer # None
            /\ offer.payment = AnnuityPayment(offer.amount, Unit(offer.rate, offer.term))
    <3> SUFFICES ASSUME HasOffer(decision)
                 PROVE  /\ offer # None
                        /\ offer.payment = AnnuityPayment(offer.amount, Unit(offer.rate, offer.term))
      OBVIOUS
    <3>1. /\ Screened(application, decision.policyVersion) /\ decision.policyVersion \in Versions
          /\ decision.approved \in Nat /\ decision.payment \in Nat
          /\ decision.payment = AnnuityPayment(decision.approved,
                 Unit(policy.products[application.body.product].rate, application.body.term))
      BY <2>1, <2>2 DEF Consistent, OfferOnRecord, TermsOf, Reproduced
    <3>2. /\ policy.products[application.body.product].rate \in Fractions
          /\ application.body.term \in Nat
      BY <2>1, <3>1, Applicant DEF TermsOf, ApplicationOK
    <3>3. offer \in Offers
      BY <3>1, <3>2 DEF Offers
    <3> QED BY <3>1, <3>3, NullIsApart
  <2> HIDE DEF policy, offer
  <2> QED BY <2>2, <2>3, <2>4 DEF Consistent
<1> QED
  BY <1>1, InvAlways, PTL

-----------------------------------------------------------------------------
(***************************************************************************)
(* Approvals.                                                              *)
(***************************************************************************)

\* The ratio an amount would have.
RatioOf(body, owed, amount, policy) ==
    DebtToIncome(owed,
                 AnnuityPayment(amount, Unit(policy.products[body.product].rate, body.term)),
                 body.income)

Affords(body, owed, amount, policy) ==
    WithinLimit(RatioOf(body, owed, amount, policy), policy.maxDti)

\* What affordability makes of an application: its verdict, amount and ratio.
LEMMA AffordEnds ==
    ASSUME NEW body, NEW report, NEW awards, NEW policy, NEW now
    PROVE  LET result == Afford(body, report, awards, policy, now)
               owed   == Obligations(body, report)
               less   == CounterOffer(body, owed, policy)
           IN  \/ /\ Affords(body, owed, body.requested, policy)
                  /\ result.verdict = "APPROVED" /\ result.approved = body.requested
                  /\ result.dti = RatioOf(body, owed, body.requested, policy)
               \/ /\ ~ Affords(body, owed, body.requested, policy)
                  /\ policy.counterOfferEnabled /\ less >= policy.products[body.product].minAmount
                  /\ result.verdict = "APPROVED" /\ result.approved = less
                  /\ result.dti = RatioOf(body, owed, less, policy)
               \/ /\ ~ Affords(body, owed, body.requested, policy)
                  /\ ~ (/\ policy.counterOfferEnabled
                        /\ less >= policy.products[body.product].minAmount)
                  /\ result.verdict = "DECLINED"
                  /\ result.dti = RatioOf(body, owed, body.requested, policy)
<1> DEFINE owed == Obligations(body, report)
           asked == Offer(<<>>, body.requested, body, owed, awards, policy, now)
           less == CounterOffer(body, owed, policy)
           result == Afford(body, report, awards, policy, now)
<1>1. result = IF WithinLimit(asked.dti, policy.maxDti)
               THEN asked
               ELSE IF policy.counterOfferEnabled /\ less >= policy.products[body.product].minAmount
               THEN Offer(<<"AMOUNT_REDUCED_TO_FIT_DTI">>, less, body, owed, awards, policy, now)
               ELSE Terminal("DECLINED", "D7", <<"DTI_ABOVE_LIMIT">>, policy, awards,
                             Score(awards), asked.dti)
  BY DEF Afford
<1>2. ASSUME NEW codes, NEW amount
      PROVE  LET offer == Offer(codes, amount, body, owed, awards, policy, now)
             IN  /\ offer.verdict = "APPROVED" /\ offer.approved = amount
                 /\ offer.dti = RatioOf(body, owed, amount, policy)
  <2> HIDE DEF owed
  <2> QED BY OfferIs DEF RatioOf
<1>3. asked.dti = RatioOf(body, owed, body.requested, policy)
  BY <1>2
<1>4. WithinLimit(asked.dti, policy.maxDti) <=> Affords(body, owed, body.requested, policy)
  BY <1>3 DEF Affords
<1> HIDE DEF owed, less, result
<1>5. CASE WithinLimit(asked.dti, policy.maxDti)
  BY <1>1, <1>2, <1>4, <1>5 DEF owed, less, result
<1>6. CASE /\ ~ WithinLimit(asked.dti, policy.maxDti)
           /\ policy.counterOfferEnabled /\ less >= policy.products[body.product].minAmount
  <2>1. result = Offer(<<"AMOUNT_REDUCED_TO_FIT_DTI">>, less, body, owed, awards, policy, now)
    BY <1>1, <1>6
  <2>2. /\ result.verdict = "APPROVED" /\ result.approved = less
        /\ result.dti = RatioOf(body, owed, less, policy)
    BY <1>2, <2>1
  <2> QED BY <1>4, <1>6, <2>2 DEF owed, less, result
<1>7. CASE /\ ~ WithinLimit(asked.dti, policy.maxDti)
           /\ ~ (policy.counterOfferEnabled /\ less >= policy.products[body.product].minAmount)
  <2>1. result = Terminal("DECLINED", "D7", <<"DTI_ABOVE_LIMIT">>, policy, awards,
                          Score(awards), asked.dti)
    BY <1>1, <1>7
  <2>2. result.verdict = "DECLINED" /\ result.dti = asked.dti
    BY <2>1, TerminalIs
  <2> QED BY <1>3, <1>4, <1>7, <2>2 DEF owed, less, result
<1> QED BY <1>5, <1>6, <1>7

\* An approval is of someone cleared by a report on file.
LEMMA ApprovedIsCleared ==
    ASSUME NEW a, NEW row, Reproduced(a, row), row.verdict = "APPROVED"
    PROVE  LET policy == Policies[row.policyVersion]
               report == row.report.report
           IN  /\ OnReport(a, row) /\ Cleared(a.body, RecordedLookup(row), policy)
               /\ RecordedLookup(row).report = report
               /\ row.requested = a.body.requested
               /\ LET result == Afford(a.body, report, Awards(report, policy), policy,
                                       a.submittedAt)
                  IN  /\ row.verdict = result.verdict /\ row.approved = result.approved
                      /\ row.dti = result.dti
<1> DEFINE policy == Policies[row.policyVersion]
           result == Again(a, row)
           awards == Awards(row.report.report, policy)
<1>1. /\ row.verdict = result.verdict /\ row.approved = result.approved
      /\ row.dti = result.dti /\ row.requested = a.body.requested
  BY RowIs DEF Reproduced
<1>2. ~ Unread(result, policy)
  <2> SUFFICES ASSUME Unread(result, policy) PROVE FALSE
    OBVIOUS
  <2>1. PICK verdict, stage, codes :
            /\ verdict \in {"DECLINED", "MANUAL_REVIEW"}
            /\ result = Unscored(verdict, stage, codes, policy)
    BY DEF Unread
  <2>2. result = Terminal(verdict, stage, codes, policy, <<>>, None, None)
    BY <2>1 DEF Unscored
  <2> HIDE DEF result, policy
  <2>3. result.verdict = verdict
    BY <2>2, TerminalIs
  <2> QED BY <1>1, <2>1, <2>3
<1>3. ~ ByScore(result, policy, awards)
  <2> HIDE DEF result, policy, awards
  <2> QED BY <1>1, TerminalIs DEF ByScore
<1>4. /\ OnReport(a, row) /\ Cleared(a.body, RecordedLookup(row), policy)
      /\ result = Decide(a.body, RecordedLookup(row), policy, a.submittedAt)
  BY <1>2, <1>3, Concluded
<1>5. RecordedLookup(row).report = row.report.report
  BY <1>4 DEF OnReport, Found
<1>6. result = Afford(a.body, row.report.report, awards, policy, a.submittedAt)
  BY <1>4, <1>5, ClearedIsAfford
<1> HIDE DEF result
<1> QED BY <1>1, <1>4, <1>5, <1>6

\* A smaller amount has no larger ratio.
LEMMA LessIsAffordedToo ==
    ASSUME NEW a, a.body \in Bodies, NEW v \in Versions, Screened(a, v), NEW owed \in Nat,
           NEW p \in Nat, NEW q \in Nat, p <= q, Affords(a.body, owed, q, Policies[v])
    PROVE  Affords(a.body, owed, p, Policies[v])
<1> DEFINE policy == Policies[v]
           product == policy.products[a.body.product]
<1>1. PICK income \in Nat \ {0} : income = a.body.income
  BY Applicant
<1>2. PICK unit \in Units : unit = Unit(product.rate, a.body.term)
  BY Applicant
<1>3. PICK x \in Nat, y \in Nat : /\ x = AnnuityPayment(p, unit) /\ y = AnnuityPayment(q, unit)
                                  /\ x <= y
  BY PaymentKeepsOrder
<1>4. PICK r \in Nat, s \in Nat : /\ r = DebtToIncome(owed, x, income)
                                  /\ s = DebtToIncome(owed, y, income) /\ r <= s
  BY <1>3, RatioKeepsOrder
<1>5. PICK n \in Nat, d \in Nat : n = policy.maxDti.num /\ d = policy.maxDti.den
  BY PolicyAt DEF Fractions
<1> DEFINE R(amount) == RatioOf(a.body, owed, amount, policy)
<1>a. R(p) = r /\ R(q) = s
  BY <1>1, <1>2, <1>3, <1>4, Zenon DEF RatioOf
<1>b. \A amount : Affords(a.body, owed, amount, policy) <=> R(amount) * d <= 10000 * n
  BY <1>5 DEF Affords, WithinLimit
<1> HIDE DEF policy, product, R
<1>6. s * d <= 10000 * n
  BY <1>a, <1>b DEF policy
<1>7. r * d <= s * d /\ r * d \in Int /\ s * d \in Int
  BY <1>4, TimesKeepsOrder
<1>8. r * d <= 10000 * n
  BY <1>6, <1>7
<1> QED BY <1>a, <1>b, <1>8 DEF policy

\* The body that asks for another amount.
LEMMA OtherAmount ==
    ASSUME NEW body \in Bodies, NEW amount
    PROVE  LET other == [body EXCEPT !.requested = amount]
           IN  /\ other.requested = amount /\ other.product = body.product
               /\ other.term = body.term /\ other.income = body.income
               /\ other.obligations = body.obligations
<1> DEFINE other == [body EXCEPT !.requested = amount]
<1>1. /\ "product" \in DOMAIN body /\ "requested" \in DOMAIN body /\ "term" \in DOMAIN body
      /\ "income" \in DOMAIN body /\ "obligations" \in DOMAIN body
  BY BodiesAreTyped
<1> QED BY <1>1

\* A referral for one amount is one for every larger: nothing else of it is read.
LEMMA LessIsCleared ==
    ASSUME NEW body \in Bodies, NEW v \in Versions, body.product \in DOMAIN Policies[v].products,
           NEW amount \in Nat, amount <= body.requested,
           NEW lookup, Cleared(body, lookup, Policies[v])
    PROVE  Cleared([body EXCEPT !.requested = amount], lookup, Policies[v])
<1> DEFINE policy == Policies[v]
           other == [body EXCEPT !.requested = amount]
           report == lookup.report
           ceiling == policy.products[body.product].ceiling
           Rules(b) ==
               <<Rule("THIN_FILE",
                      \/ Below(report.oldestAccountAgeMonths, policy.minOldestAccount)
                      \/ Below(report.totalAccounts, policy.minTotalAccounts)),
                 Rule("IDENTITY_MISMATCH",
                      ~ (report.subjectMatch.name /\ report.subjectMatch.born)),
                 Rule("AMOUNT_ABOVE_AUTO_LIMIT",
                      b.requested > policy.products[b.product].ceiling)>>
<1>1. other.requested = amount /\ other.product = body.product
  BY OtherAmount
<1>2. \A b : Referrals(b, report, policy) = Fired(Rules(b))
  BY DEF Referrals
<1>3. ASSUME NEW b
      PROVE  Fired(Rules(b)) = <<>> <=>
                 ~ Rules(b)[1].holds /\ ~ Rules(b)[2].holds /\ ~ Rules(b)[3].holds
  <2>1. DOMAIN Rules(b) = 1 .. 3
    OBVIOUS
  <2> HIDE DEF Rules
  <2>2. IsFiniteSet(DOMAIN Rules(b))
    <3>1. 1 \in Int /\ 3 \in Int
      OBVIOUS
    <3> QED BY <2>1, <3>1, FS_Interval, Zenon
  <2>3. \A i \in 1 .. 3 : i = 1 \/ i = 2 \/ i = 3
    OBVIOUS
  <2> QED BY <2>1, <2>2, <2>3, FiredIsSome
<1>4. /\ Rules(other)[1] = Rules(body)[1] /\ Rules(other)[2] = Rules(body)[2]
      /\ Rules(body)[3].holds = (body.requested > ceiling)
      /\ Rules(other)[3].holds = (other.requested > policy.products[other.product].ceiling)
  BY DEF Rule
<1>5. ceiling \in Nat
  BY ProductAt
<1>6. body.requested \in Nat
  BY BodiesAreTyped
<1>7. Fired(Rules(body)) = <<>>
  BY <1>2 DEF Cleared
<1> HIDE DEF Rules, other, ceiling
<1>8. ~ Rules(other)[3].holds
  <2>1. ~ (body.requested > ceiling)
    BY <1>3, <1>4, <1>7
  <2>2. ~ (amount > ceiling)
    BY <1>5, <1>6, <2>1
  <2>3. Rules(other)[3].holds = (amount > ceiling)
    BY <1>1, <1>4 DEF ceiling
  <2> QED BY <2>2, <2>3
<1>9. Fired(Rules(other)) = <<>>
  BY <1>3, <1>4, <1>7, <1>8
<1>10. Referrals(other, report, policy) = <<>>
  BY <1>2, <1>9
<1> QED BY <1>10 DEF Cleared, other

\* The lesser of two numbers.
LEMMA MinOfTwo ==
    ASSUME NEW x \in Nat, NEW y \in Nat
    PROVE  Min({x, y}) \in {x, y} /\ Min({x, y}) <= x /\ Min({x, y}) <= y
<1>1. {x, y} \subseteq Nat /\ {x, y} # {}
  OBVIOUS
<1> QED BY <1>1, LeastIsMin

\* Whoever is approved for an amount is approved for every smaller one the product
\* allows, and for as much of it as before: neither the ceiling nor affordability
\* turns against an applicant for asking for less.
THEOREM AskingLessNeverHurtsAlways == Spec => []AskingLessNeverHurts
<1>1. ASSUME Inv, decision # None, decision.verdict = "APPROVED", NEW amount \in Nat,
             TermsOf(decision).products[application.body.product].minAmount <= amount,
             amount <= decision.requested
      PROVE  /\ AskedFor(amount).verdict = "APPROVED"
             /\ AskedFor(amount).approved >= Min({amount, decision.approved})
  <2> DEFINE a == application
             v == decision.policyVersion
             policy == Policies[v]
             body == a.body
             other == [body EXCEPT !.requested = amount]
             lookup == RecordedLookup(decision)
             report == decision.report.report
             awards == Awards(report, policy)
             owed == Obligations(body, report)
             less == CounterOffer(body, owed, policy)
             minAmount == policy.products[body.product].minAmount
             before == Afford(body, report, awards, policy, a.submittedAt)
             after == Afford(other, report, awards, policy, a.submittedAt)
  <2>1. ApplicationOK /\ Reproduced(a, decision) /\ v \in Versions /\ body \in Bodies
    BY <1>1 DEF Inv, Decided, Reproduced, ApplicationOK
  <2>2. /\ OnReport(a, decision) /\ Cleared(body, lookup, policy) /\ lookup.report = report
        /\ decision.requested = body.requested
        /\ decision.verdict = before.verdict /\ decision.approved = before.approved
    BY <1>1, <2>1, ApprovedIsCleared
  <2>3. Screened(a, v) /\ body.product \in DOMAIN policy.products /\ owed \in Nat
    BY <2>1, <2>2, OwedIsNat DEF OnReport, Screened
  <2>4. body.requested \in Nat /\ less \in Nat /\ minAmount \in Nat
    BY <2>1, <2>3, Applicant, CounterIsNat
  <2>5. /\ other.requested = amount /\ other.product = body.product /\ other.term = body.term
        /\ other.income = body.income /\ other.obligations = body.obligations
    BY <2>1, OtherAmount
  <2>6. Cleared(other, lookup, policy)
    BY <1>1, <2>1, <2>2, <2>3, LessIsCleared
  <2>7. AskedFor(amount) = after
    BY <2>2, <2>6, ClearedIsAfford DEF AskedFor, TermsOf
  <2> HIDE DEF other
  <2>8. Obligations(other, report) = owed
    BY <2>5 DEF Obligations
  <2>9. /\ CounterOffer(other, owed, policy) = less
        /\ \A x : RatioOf(other, owed, x, policy) = RatioOf(body, owed, x, policy)
    BY <2>5 DEF CounterOffer, RatioOf
  <2>10. \A x : Affords(other, owed, x, policy) <=> Affords(body, owed, x, policy)
    BY <2>9 DEF Affords
  <2>11. \/ Affords(body, owed, amount, policy) /\ after.verdict = "APPROVED" /\ after.approved = amount
         \/ /\ ~ Affords(body, owed, amount, policy)
            /\ policy.counterOfferEnabled /\ less >= minAmount
            /\ after.verdict = "APPROVED" /\ after.approved = less
         \/ /\ ~ Affords(body, owed, amount, policy)
            /\ ~ (policy.counterOfferEnabled /\ less >= minAmount)
    BY <2>5, <2>8, <2>9, <2>10, AffordEnds
  <2>12. \/ Affords(body, owed, body.requested, policy) /\ before.approved = body.requested
         \/ policy.counterOfferEnabled /\ less >= minAmount /\ before.approved = less
    BY <1>1, <2>2, AffordEnds
  <2>13. Affords(body, owed, body.requested, policy) => Affords(body, owed, amount, policy)
    BY <1>1, <2>1, <2>2, <2>3, <2>4, LessIsAffordedToo
  <2> HIDE DEF after, before, less, minAmount, owed
  <2>14. decision.approved \in Nat
    BY <2>2, <2>4, <2>12
  <2>15. Min({amount, decision.approved}) <= amount /\ Min({amount, decision.approved}) <= decision.approved
         /\ Min({amount, decision.approved}) \in Nat
    BY <2>14, MinOfTwo
  <2>16. \/ after.verdict = "APPROVED" /\ after.approved = amount
         \/ after.verdict = "APPROVED" /\ after.approved = decision.approved
    BY <2>2, <2>11, <2>12, <2>13
  <2> QED BY <2>7, <2>14, <2>15, <2>16
<1>2. ASSUME Inv, decision # None, decision.verdict = "APPROVED"
      PROVE  {body.requested : body \in Bodies} \cup {decision.approved} \subseteq Nat
  <2>1. OfferOnRecord(application, decision)
    BY <1>2, RowAgrees DEF Inv, Decided, ApplicationOK
  <2> QED BY <1>2, <2>1, BodiesAreTyped DEF OfferOnRecord
<1>3. Inv => AskingLessNeverHurts
  BY <1>1, <1>2 DEF AskingLessNeverHurts
<1> QED
  BY <1>3, InvAlways, PTL

\* Division with a remainder.
LEMMA Divided ==
    ASSUME NEW n \in Nat, NEW d \in Nat \ {0}
    PROVE  n = d * (n \div d) + (n % d) /\ n \div d \in Nat
<1> DEFINE q == n \div d
           r == n % d
<1>1. q \in Nat /\ r \in Nat /\ r < d /\ n = d * q + r
  BY SMT
<1> QED BY <1>1

\* What the headroom of an application leaves for an offer on record.
LEMMA OfferKeepsLimit ==
    ASSUME NEW a, a.body \in Bodies, NEW v \in Versions, Screened(a, v),
           ExactLimit(Policies[v]), NEW owed \in Nat, NEW amount \in Nat,
           FitsInto(amount, Unit(Policies[v].products[a.body.product].rate, a.body.term),
                    Headroom(a.body.income, owed, Policies[v].maxDti))
    PROVE  Affords(a.body, owed, amount, Policies[v])
<1> DEFINE policy == Policies[v]
           limit == policy.maxDti
<1>1. PICK income \in Nat : income = a.body.income
  BY Applicant
<1>2. PICK unit \in Units : unit = Unit(policy.products[a.body.product].rate, a.body.term)
  BY Applicant
<1>3. income > Scale
  <2>1. income >= policy.minMonthlyIncome /\ policy.minMonthlyIncome \in Nat
    BY <1>1, Applicant, PolicyAt
  <2> QED BY <2>1 DEF ExactLimit, Scale
<1>4. limit \in Fractions
  BY PolicyAt
<1>5. Exact(limit)
  <2>1. PICK n \in Nat, d \in Nat \ {0} : n = limit.num /\ d = limit.den
    BY <1>4 DEF Fractions
  <2>2. (10000 * n) % d = 0
    BY <2>1 DEF ExactLimit
  <2>3. PICK m \in Nat : m = 10000 * n
    OBVIOUS
  <2>4. m = d * (m \div d) + (m % d) /\ m \div d \in Nat
    BY Divided, Zenon
  <2>5. PICK t \in Nat : t = m \div d
    BY <2>4
  <2>6. m = d * t
    BY <2>2, <2>3, <2>4, <2>5
  <2>7. Scale * n = t * d
    BY <2>3, <2>6 DEF Scale
  <2> HIDE DEF limit
  <2> QED BY <2>1, <2>7 DEF Exact
<1>6. FitsInto(amount, unit, Headroom(income, owed, limit))
  BY <1>1, <1>2
<1> HIDE DEF limit
<1>7. WithinLimit(DebtToIncome(owed, AnnuityPayment(amount, unit), income), limit)
  BY <1>3, <1>4, <1>5, <1>6, FittingIsWithin, Zenon
<1> QED BY <1>1, <1>2, <1>7 DEF Affords, RatioOf, limit

\* An offer keeps the limit, also after both roundings; and a counter-offer is
\* less than was asked, and the largest whole step that fits. This for policies
\* whose limit is in whole ten-thousandths and whose incomes are above 10000 minor
\* units: below that a ten-thousandth of the income is less than a minor unit, and
\* the rounding of the instalment alone may carry the ratio over the limit.
THEOREM OfferIsAffordableAlways ==
    ASSUME \A v \in Versions : ExactLimit(Policies[v])
    PROVE  Spec => []OfferIsAffordable
<1>1. ASSUME Inv, decision # None, decision.verdict = "APPROVED"
      PROVE  LET terms   == TermsOf(decision)
                 product == terms.products[application.body.product]
             IN  /\ WithinLimit(decision.dti, terms.maxDti)
                 /\ decision.approved >= product.minAmount
                 /\ decision.approved <= decision.requested
                 /\ decision.approved < decision.requested =>
                        /\ decision.approved % terms.rounding = 0
                        /\ Fits(decision.approved)
                        /\ ~ Fits(decision.approved + terms.rounding)
  <2> DEFINE a == application
             v == decision.policyVersion
             policy == Policies[v]
             body == a.body
             report == decision.report.report
             awards == Awards(report, policy)
             owed == Obligations(body, report)
             unit == Unit(policy.products[body.product].rate, body.term)
             room == Headroom(body.income, owed, policy.maxDti)
             less == CounterOffer(body, owed, policy)
             minAmount == policy.products[body.product].minAmount
             result == Afford(body, report, awards, policy, a.submittedAt)
  <2>1. ApplicationOK /\ Reproduced(a, decision) /\ v \in Versions /\ body \in Bodies
    BY <1>1 DEF Inv, Decided, Reproduced, ApplicationOK
  <2>2. /\ OnReport(a, decision) /\ decision.requested = body.requested
        /\ decision.verdict = result.verdict /\ decision.approved = result.approved
        /\ decision.dti = result.dti
    BY <1>1, <2>1, ApprovedIsCleared
  <2>3. Screened(a, v) /\ owed \in Nat
    BY <2>1, <2>2, OwedIsNat DEF OnReport
  <2>4. /\ body.requested \in Nat /\ less \in Nat /\ minAmount \in Nat \ {0}
        /\ body.requested >= minAmount /\ unit \in Units /\ body.income \in Nat
    BY <2>1, <2>3, Applicant, CounterIsNat
  <2>5. policy.maxDti \in Fractions /\ policy.rounding \in Nat \ {0}
    BY <2>1, PolicyAt
  <2>6. room.num \in Int /\ room.den \in Nat \ {0}
    BY <2>3, <2>4, <2>5, RoomIsTyped
  <2>7. /\ less = MaxPrincipal(room, unit, policy.rounding)
        /\ \A x : Fits(x) <=> FitsInto(x, unit, room)
    BY DEF CounterOffer, Fits, FitsInto, RoomLeft, UnitOfLoan, TermsOf
  <2>8. ASSUME NEW amount \in Nat, FitsInto(amount, unit, room)
        PROVE  Affords(body, owed, amount, policy)
    BY <2>1, <2>3, <2>8, OfferKeepsLimit
  <2>9. \/ Affords(body, owed, body.requested, policy) /\ result.approved = body.requested
           /\ result.dti = RatioOf(body, owed, body.requested, policy)
        \/ /\ ~ Affords(body, owed, body.requested, policy) /\ less >= minAmount
           /\ result.approved = less /\ result.dti = RatioOf(body, owed, less, policy)
    BY <1>1, <2>2, AffordEnds
  <2> HIDE DEF result, less, minAmount, unit, room, owed
  <2>10. CASE /\ Affords(body, owed, body.requested, policy) /\ result.approved = body.requested
              /\ result.dti = RatioOf(body, owed, body.requested, policy)
    <3>1. WithinLimit(decision.dti, policy.maxDti)
      BY <2>2, <2>10 DEF Affords
    <3>2. decision.approved = decision.requested /\ decision.approved \in Nat
      BY <2>2, <2>4, <2>10
    <3> QED BY <2>2, <2>4, <3>1, <3>2 DEF TermsOf, minAmount
  <2>11. CASE /\ ~ Affords(body, owed, body.requested, policy) /\ less >= minAmount
              /\ result.approved = less /\ result.dti = RatioOf(body, owed, less, policy)
    <3>1. less # 0
      BY <2>4, <2>11
    <3>2. /\ less % policy.rounding = 0 /\ FitsInto(less, unit, room)
          /\ ~ FitsInto(less + policy.rounding, unit, room)
      BY <2>4, <2>5, <2>6, <2>7, <3>1, PrincipalFits
    <3>3. Affords(body, owed, less, policy)
      BY <2>4, <2>8, <3>2
    <3>4. WithinLimit(decision.dti, policy.maxDti)
      BY <2>2, <2>11, <3>3 DEF Affords
    <3>5. less <= body.requested
      <4> SUFFICES ASSUME body.requested <= less PROVE FALSE
        BY <2>4
      <4>1. FitsInto(body.requested, unit, room)
        BY <2>4, <2>6, <3>2, LessFitsToo
      <4> QED BY <2>4, <2>8, <2>11, <4>1
    <3>6. decision.approved = less /\ decision.requested = body.requested
      BY <2>2, <2>11
    <3> QED BY <2>4, <2>7, <2>11, <3>2, <3>4, <3>5, <3>6 DEF TermsOf, minAmount
  <2> QED BY <2>9, <2>10, <2>11
<1>2. Inv => OfferIsAffordable
  BY <1>1 DEF OfferIsAffordable
<1> QED
  BY <1>2, InvAlways, PTL

-----------------------------------------------------------------------------
(***************************************************************************)
(* Reasons: which are disclosed, and in what order.                        *)
(***************************************************************************)

LEMMA ByRankOrders ==
    ASSUME NEW v \in Versions, NEW codes, IsList(codes)
    PROVE  StrictOrder(ByRank(codes, Policies[v]), DOMAIN codes)
<1> DEFINE policy == Policies[v]
           D == DOMAIN codes
           rank == [i \in D |-> Rank(policy, codes[i])]
           before == ByRank(codes, policy)
<1>1. \A i \in D : rank[i] \in Nat
  <2>1. IsList(policy.registry)
    BY PolicyAt
  <2>2. Len(policy.registry) \in Nat
    BY <2>1 DEF IsList
  <2>3. ASSUME NEW code PROVE Rank(policy, code) \in Nat
    <3>1. PlaceIn(policy.registry, code) \in 0 .. Len(policy.registry)
      BY <2>1, PlaceBounds
    <3> HIDE DEF policy
    <3> QED BY <2>2, <3>1 DEF Rank
  <2> HIDE DEF policy
  <2> QED BY <2>3
<1>2. \A x, y \in D : <<x, y>> \in before <=>
          rank[x] < rank[y] \/ (~ (rank[y] < rank[x]) /\ x < y)
  BY DEF ByRank, Stable
<1>3. D \subseteq Nat
  BY DEF IsList
<1> HIDE DEF D, rank, before
<1> QED BY <1>1, <1>2, <1>3 DEF StrictOrder, D, before, policy

\* The greater loss first, of equal ones the code that is first in the alphabet.
LEMMA ByLossOrders ==
    ASSUME NEW n \in Nat, NEW awards, DOMAIN awards = 1 .. n,
           \A i \in 1 .. n : awards[i].lost \in Nat, NEW S \in SUBSET (1 .. n)
    PROVE  /\ StrictOrder(ByLoss(awards), S)
           /\ \A x, y \in S : <<x, y>> \in ByLoss(awards) => awards[x].lost >= awards[y].lost
<1> DEFINE D == 1 .. n
           place == [i \in D |-> PlaceIn(Alphabetical, awards[i].reasonCode)]
           loss == [i \in D |-> awards[i].lost]
           before == ByLoss(awards)
<1>1. \A i \in D : place[i] \in Nat /\ loss[i] \in Nat /\ loss[i] = awards[i].lost /\ i \in Nat
  <2>1. ASSUME NEW code PROVE PlaceIn(Alphabetical, code) \in Nat
    <3>1. PlaceIn(Alphabetical, code) \in 0 .. Len(Alphabetical)
      BY AlphabetIsList, PlaceBounds
    <3> QED BY <3>1
  <2> QED BY <2>1
<1>2. \A x, y \in D : LosesMore(awards[x], awards[y]) <=>
          loss[x] > loss[y] \/ (loss[x] = loss[y] /\ place[x] < place[y])
  BY DEF LosesMore
<1>3. \A x, y \in D : <<x, y>> \in before <=>
          \/ LosesMore(awards[x], awards[y])
          \/ ~ LosesMore(awards[y], awards[x]) /\ x < y
  BY DEF ByLoss, Stable
<1>4. S \subseteq D
  OBVIOUS
<1> HIDE DEF D, place, loss, before
<1>5. StrictOrder(before, S)
  <2>1. \A x, y \in D : <<x, y>> \in before <=>
            \/ loss[x] > loss[y]
            \/ loss[x] = loss[y] /\ place[x] < place[y]
            \/ loss[x] = loss[y] /\ place[x] = place[y] /\ x < y
    <3> SUFFICES ASSUME NEW x \in D, NEW y \in D
                 PROVE  <<x, y>> \in before <=>
                            \/ loss[x] > loss[y]
                            \/ loss[x] = loss[y] /\ place[x] < place[y]
                            \/ loss[x] = loss[y] /\ place[x] = place[y] /\ x < y
      OBVIOUS
    <3>1. /\ loss[x] \in Nat /\ loss[y] \in Nat /\ place[x] \in Nat /\ place[y] \in Nat
          /\ x \in Nat /\ y \in Nat
      BY <1>1
    <3>2. LosesMore(awards[x], awards[y]) <=>
              loss[x] > loss[y] \/ (loss[x] = loss[y] /\ place[x] < place[y])
      BY <1>2
    <3>3. LosesMore(awards[y], awards[x]) <=>
              loss[y] > loss[x] \/ (loss[x] = loss[y] /\ place[y] < place[x])
      BY <1>2
    <3>4. <<x, y>> \in before <=>
              \/ LosesMore(awards[x], awards[y])
              \/ ~ LosesMore(awards[y], awards[x]) /\ x < y
      BY <1>3
    <3> QED BY <3>1, <3>2, <3>3, <3>4
  <2>2. \A x \in D : <<x, x>> \notin before
    <3>1. \A x \in D : loss[x] \in Nat /\ place[x] \in Nat /\ x \in Nat
      BY <1>1
    <3> QED BY <2>1, <3>1
  <2>3. ASSUME NEW x \in D, NEW y \in D, NEW z \in D,
               <<x, y>> \in before, <<y, z>> \in before
        PROVE  <<x, z>> \in before
    <3>1. /\ loss[x] \in Nat /\ place[x] \in Nat /\ x \in Nat
          /\ loss[y] \in Nat /\ place[y] \in Nat /\ y \in Nat
          /\ loss[z] \in Nat /\ place[z] \in Nat /\ z \in Nat
      BY <1>1
    <3>2. \/ loss[x] > loss[y]
          \/ loss[x] = loss[y] /\ place[x] < place[y]
          \/ loss[x] = loss[y] /\ place[x] = place[y] /\ x < y
      BY <2>1, <2>3
    <3>3. \/ loss[y] > loss[z]
          \/ loss[y] = loss[z] /\ place[y] < place[z]
          \/ loss[y] = loss[z] /\ place[y] = place[z] /\ y < z
      BY <2>1, <2>3
    <3>4. \/ loss[x] > loss[z]
          \/ loss[x] = loss[z] /\ place[x] < place[z]
          \/ loss[x] = loss[z] /\ place[x] = place[z] /\ x < z
      BY <3>1, <3>2, <3>3
    <3> QED BY <2>1, <3>4
  <2>4. ASSUME NEW x \in D, NEW y \in D
        PROVE  x = y \/ <<x, y>> \in before \/ <<y, x>> \in before
    <3>1. /\ loss[x] \in Nat /\ place[x] \in Nat /\ x \in Nat
          /\ loss[y] \in Nat /\ place[y] \in Nat /\ y \in Nat
      BY <1>1
    <3> QED BY <2>1, <3>1
  <2> QED BY <1>4, <2>2, <2>3, <2>4 DEF StrictOrder
<1>6. \A x, y \in S : <<x, y>> \in before => awards[x].lost >= awards[y].lost
  <2> SUFFICES ASSUME NEW x \in D, NEW y \in D, <<x, y>> \in before
               PROVE  awards[x].lost >= awards[y].lost
    BY <1>4
  <2>1. /\ loss[x] \in Nat /\ loss[y] \in Nat
        /\ loss[x] = awards[x].lost /\ loss[y] = awards[y].lost
    BY <1>1
  <2>2. loss[x] > loss[y] \/ loss[x] = loss[y] \/ ~ LosesMore(awards[y], awards[x])
    BY <1>2, <1>3
  <2>3. LosesMore(awards[y], awards[x]) <=>
            loss[y] > loss[x] \/ (loss[y] = loss[x] /\ place[y] < place[x])
    BY <1>2
  <2> QED BY <2>1, <2>2, <2>3
<1> QED BY <1>5, <1>6 DEF before

\* A list without its repetitions: the same elements, the first of them first; and
\* what is in a beginning of it comes before what is not.
Shortened(result, m, seq, n, T) ==
    /\ result \in [1 .. m -> T]
    /\ \A i \in 1 .. n : \E k \in 1 .. m : result[k] = seq[i]
    /\ \A k \in 1 .. m : \E i \in 1 .. n : result[k] = seq[i]
    /\ n # 0 => m # 0 /\ result[1] = seq[1]
    /\ \A c \in 0 .. m, p, q \in 1 .. n :
           (/\ \E k \in 1 .. c : result[k] = seq[p]
            /\ \A k \in 1 .. c : result[k] # seq[q])
           => \E i \in 1 .. n : seq[i] = seq[p] /\ i < q

LEMMA DistinctIs ==
    ASSUME NEW T, NEW n \in Nat, NEW seq \in [1 .. n -> T]
    PROVE  \E m \in 0 .. n : Shortened(Distinct(seq), m, seq, n, T)
<1> DEFINE first == {i \in 1 .. n : \A j \in 1 .. i - 1 : seq[j] # seq[i]}
           before == Ascending(first)
           m == Cardinality(first)
           position == InOrder(first, before)
           result == Distinct(seq)
<1>1. IsFiniteSet(first) /\ m \in 0 .. n
  <2>1. IsFiniteSet(1 .. n) /\ Cardinality(1 .. n) = n
    BY FS_Interval
  <2>2. first \in SUBSET (1 .. n)
    OBVIOUS
  <2> HIDE DEF first
  <2>3. IsFiniteSet(first) /\ Cardinality(first) <= Cardinality(1 .. n)
    BY <2>1, <2>2, FS_Subset, Zenon
  <2>4. m \in Nat
    BY <2>3, FS_CardinalityType
  <2> QED BY <2>1, <2>3, <2>4
<1>2. \A i \in 1 .. n : \E f \in first : seq[f] = seq[i] /\ f <= i
  <2> SUFFICES ASSUME NEW i \in 1 .. n PROVE \E f \in first : seq[f] = seq[i] /\ f <= i
    OBVIOUS
  <2> DEFINE J == {j \in 1 .. n : seq[j] = seq[i]}
  <2>1. J \subseteq Nat /\ i \in J
    OBVIOUS
  <2>2. Min(J) \in J /\ \A j \in J : Min(J) <= j
    <3> HIDE DEF J
    <3> QED BY <2>1, LeastIsMin
  <2>3. PICK f \in J : \A j \in J : f <= j
    BY <2>2
  <2>4. \A j \in 1 .. f - 1 : seq[j] # seq[f]
    BY <2>3
  <2> QED BY <2>1, <2>3, <2>4
<1>3. result = [k \in 1 .. m |-> seq[position[k]]]
  BY DEF Distinct, Arranged
<1>4. first \subseteq 1 .. n /\ (n # 0 => 1 \in first)
  OBVIOUS
<1>5. StrictOrder(before, first) /\ \A x, y \in first : <<x, y>> \in before => x < y
  <2>1. first \subseteq Nat
    OBVIOUS
  <2> HIDE DEF first
  <2> QED BY <2>1 DEF StrictOrder, Ascending
<1> HIDE DEF first, before
<1>6. /\ \A k \in 1 .. m : position[k] \in first
      /\ \A x \in first : \E k \in 1 .. m : position[k] = x
      /\ \A j, k \in 1 .. m : j < k => <<position[j], position[k]>> \in before
  <2>1. IsFiniteSet(first) /\ StrictOrder(before, first)
    BY <1>1, <1>5
  <2> QED BY <2>1, InOrderArranges
<1> HIDE DEF m, position, result
<1>7. \A j, k \in 1 .. m : j < k => position[j] < position[k]
  BY <1>5, <1>6
<1>8. result \in [1 .. m -> T] /\ \A k \in 1 .. m : result[k] = seq[position[k]] /\ position[k] \in 1 .. n
  BY <1>3, <1>4, <1>6
<1>9. \A i \in 1 .. n : \E k \in 1 .. m : result[k] = seq[i] /\ position[k] <= i
  BY <1>2, <1>6, <1>8
<1>10. ASSUME n # 0 PROVE m # 0 /\ result[1] = seq[1]
  <2>1. PICK k \in 1 .. m : position[k] = 1
    BY <1>4, <1>6, <1>10
  <2>2. m # 0 /\ 1 \in 1 .. m
    BY <1>1, <2>1
  <2>3. ~ (position[1] < 1)
    BY <1>8, <2>2
  <2>4. k = 1
    BY <1>7, <2>1, <2>2, <2>3
  <2> QED BY <1>8, <2>1, <2>2, <2>4
<1>11. ASSUME NEW c \in 0 .. m, NEW p \in 1 .. n, NEW q \in 1 .. n,
              \E k \in 1 .. c : result[k] = seq[p], \A k \in 1 .. c : result[k] # seq[q]
       PROVE  \E i \in 1 .. n : seq[i] = seq[p] /\ i < q
  <2>1. PICK k \in 1 .. c : result[k] = seq[p]
    BY <1>11
  <2>2. PICK l \in 1 .. m : result[l] = seq[q] /\ position[l] <= q
    BY <1>9
  <2>3. k \in 1 .. m /\ k < l
    BY <1>1, <1>11, <2>1, <2>2
  <2>4. position[k] < q /\ position[k] \in 1 .. n /\ seq[position[k]] = seq[p]
    BY <1>7, <1>8, <2>1, <2>2, <2>3
  <2> QED BY <2>4
<1>12. \A i \in 1 .. n : \E k \in 1 .. m : result[k] = seq[i]
  BY <1>9
<1>13. \A k \in 1 .. m : \E i \in 1 .. n : result[k] = seq[i]
  BY <1>8
<1>14. \A c \in 0 .. m, p, q \in 1 .. n :
           (/\ \E k \in 1 .. c : result[k] = seq[p]
            /\ \A k \in 1 .. c : result[k] # seq[q])
           => \E i \in 1 .. n : seq[i] = seq[p] /\ i < q
  BY <1>11, Zenon
<1>15. result \in [1 .. m -> T]
  BY <1>8
<1>16. Shortened(result, m, seq, n, T)
  BY <1>10, <1>12, <1>13, <1>14, <1>15, Zenon DEF Shortened
<1> QED BY <1>1, <1>16 DEF result

\* What a policy makes of codes and awards, before repetitions are dropped.
LEMMA LeadingThenMaterial ==
    ASSUME NEW v \in Versions, NEW codes, IsList(codes), NEW n \in Nat, NEW awards,
           DOMAIN awards = 1 .. n, \A i \in 1 .. n : awards[i].lost \in Nat,
           NEW T, Codes(codes) \subseteq T, \A i \in 1 .. n : awards[i].reasonCode \in T
    PROVE  LET policy   == Policies[v]
               material == Material(awards, policy)
               leading  == Arranged(codes, DOMAIN codes, ByRank(codes, policy))
               seq      == leading \o MaterialCodes(awards, policy)
               a        == Len(codes)
               b        == Cardinality(material)
               position == InOrder(material, ByLoss(awards))
           IN  /\ a \in Nat /\ b \in Nat /\ seq \in [1 .. a + b -> T]
               /\ \A k \in 1 .. a : seq[k] \in Codes(codes)
               /\ \A code \in Codes(codes) : \E k \in 1 .. a : seq[k] = code
               /\ \A k \in 1 .. b : position[k] \in material
                                    /\ seq[a + k] = awards[position[k]].reasonCode
               /\ \A i \in material : \E k \in 1 .. b : position[k] = i
               /\ \A j, k \in 1 .. b : j < k =>
                      awards[position[j]].lost >= awards[position[k]].lost
<1> DEFINE policy == Policies[v]
           material == Material(awards, policy)
           leading == Arranged(codes, DOMAIN codes, ByRank(codes, policy))
           mc == MaterialCodes(awards, policy)
           seq == leading \o mc
           a == Len(codes)
           b == Cardinality(material)
           position == InOrder(material, ByLoss(awards))
           D == DOMAIN codes
<1>1. a \in Nat /\ D = 1 .. a
  BY DEF IsList
<1>2. IsFiniteSet(D) /\ Cardinality(D) = a
  <2> HIDE DEF a, D
  <2> QED BY <1>1, FS_Interval
<1>3. \A i \in D : codes[i] \in T
  BY DEF Codes
<1>4. StrictOrder(ByRank(codes, policy), D)
  BY ByRankOrders
<1>5. /\ leading \in [1 .. a -> T]
      /\ \A k \in 1 .. a : \E i \in D : leading[k] = codes[i]
      /\ \A i \in D : \E k \in 1 .. a : leading[k] = codes[i]
  <2> DEFINE place == InOrder(D, ByRank(codes, policy))
  <2>1. /\ \A k \in 1 .. Cardinality(D) : place[k] \in D
        /\ \A x \in D : \E k \in 1 .. Cardinality(D) : place[k] = x
    BY <1>2, <1>4, InOrderArranges
  <2>2. leading = [k \in 1 .. Cardinality(D) |-> codes[place[k]]]
    BY DEF Arranged
  <2> HIDE DEF place, leading, D, a
  <2> QED BY <1>2, <1>3, <2>1, <2>2
<1>6. material \in SUBSET (1 .. n)
  BY DEF Material
<1>7. IsFiniteSet(material) /\ b \in Nat
  <2>1. IsFiniteSet(1 .. n)
    <3>1. 1 \in Int /\ n \in Int
      OBVIOUS
    <3> QED BY <3>1, FS_Interval, Zenon
  <2>2. IsFiniteSet(material)
    BY <1>6, <2>1, FS_Subset, Zenon
  <2> QED BY <2>2, FS_CardinalityType
<1>8. /\ StrictOrder(ByLoss(awards), material)
      /\ \A x, y \in material : <<x, y>> \in ByLoss(awards) => awards[x].lost >= awards[y].lost
  BY <1>6, ByLossOrders
<1>9. /\ \A k \in 1 .. b : position[k] \in material
      /\ \A x \in material : \E k \in 1 .. b : position[k] = x
      /\ \A j, k \in 1 .. b : j < k => <<position[j], position[k]>> \in ByLoss(awards)
  BY <1>7, <1>8, InOrderArranges
<1>10. mc = [k \in 1 .. b |-> CodesOf(awards)[position[k]]]
  BY DEF MaterialCodes, Arranged
<1> HIDE DEF material, b, position
<1>11. \A k \in 1 .. b : position[k] \in 1 .. n
                         /\ CodesOf(awards)[position[k]] = awards[position[k]].reasonCode
  BY <1>6, <1>9 DEF CodesOf
<1>12. mc \in [1 .. b -> T] /\ \A k \in 1 .. b : mc[k] = awards[position[k]].reasonCode
  BY <1>10, <1>11
<1> HIDE DEF leading, mc, D, a
<1>13. leading \in Seq(T) /\ Len(leading) = a /\ mc \in Seq(T) /\ Len(mc) = b
  BY <1>1, <1>5, <1>7, <1>12, SeqDef
<1>14. /\ seq \in Seq(T) /\ Len(seq) = a + b
       /\ \A i \in 1 .. a + b : seq[i] = IF i <= a THEN leading[i] ELSE mc[i - a]
  BY <1>13, ConcatProperties
<1> HIDE DEF seq
<1>15. seq \in [1 .. a + b -> T]
  BY <1>14, LenProperties
<1>16. \A k \in 1 .. a : seq[k] = leading[k]
  BY <1>1, <1>7, <1>14
<1>17. \A k \in 1 .. b : seq[a + k] = mc[k]
  <2> SUFFICES ASSUME NEW k \in 1 .. b PROVE seq[a + k] = mc[k]
    OBVIOUS
  <2>1. PICK i \in 1 .. a + b : i = a + k /\ ~ (i <= a) /\ i - a = k
    BY <1>1, <1>7
  <2>2. seq[i] = mc[i - a]
    BY <1>14, <2>1
  <2> QED BY <2>1, <2>2
<1>18. \A k \in 1 .. a : seq[k] \in Codes(codes)
  BY <1>5, <1>16 DEF Codes, D
<1>19. \A code \in Codes(codes) : \E k \in 1 .. a : seq[k] = code
  BY <1>5, <1>16 DEF Codes, D
<1>20. \A k \in 1 .. b : position[k] \in material /\ seq[a + k] = awards[position[k]].reasonCode
  BY <1>9, <1>12, <1>17
<1>21. \A j, k \in 1 .. b : j < k => awards[position[j]].lost >= awards[position[k]].lost
  BY <1>8, <1>9
<1> QED
  BY <1>1, <1>7, <1>9, <1>15, <1>18, <1>19, <1>20, <1>21, Zenon
     DEF material, b, position, seq, a, leading, mc

\* What the disclosed codes owe to the material losses.
Discloses(result, codes, awards, policy) ==
    LET material == Material(awards, policy)
        reasons  == {awards[i].reasonCode : i \in material}
    IN  /\ Codes(result) \subseteq Codes(codes) \cup reasons
        /\ Len(codes) + Cardinality(material) <= policy.maxDisclosed =>
               Codes(result) = Codes(codes) \cup reasons
        /\ \A i, j \in material :
               /\ awards[i].reasonCode \in Codes(result) \ Codes(codes)
               /\ awards[j].reasonCode \notin Codes(result)
               => \E h \in material : /\ awards[h].reasonCode = awards[i].reasonCode
                                      /\ awards[h].lost >= awards[j].lost

\* What is disclosed: the deciding codes lead, then the material losses, at most
\* four; none is invented, something is said when there is something to say, all is
\* said when there is room, and what is left out lost no more than what is not.
LEMMA DisclosedAre ==
    ASSUME NEW v \in Versions, NEW codes, IsList(codes), NEW n \in Nat, NEW awards,
           DOMAIN awards = 1 .. n, \A i \in 1 .. n : awards[i].lost \in Nat
    PROVE  LET policy   == Policies[v]
               material == Material(awards, policy)
               result   == DiscloseReasonCodes(codes, awards, policy)
               reasons  == {awards[i].reasonCode : i \in material}
           IN  /\ Len(result) \in 0 .. 4 /\ DOMAIN result = 1 .. Len(result)
               /\ Codes(result) \subseteq Codes(codes) \cup reasons
               /\ Codes(codes) \cup reasons # {} => result # <<>>
               /\ codes # <<>> => Len(result) # 0 /\ result[1] \in Codes(codes)
               /\ Discloses(result, codes, awards, policy)
<1> DEFINE policy == Policies[v]
           material == Material(awards, policy)
           result == DiscloseReasonCodes(codes, awards, policy)
           reasons == {awards[i].reasonCode : i \in material}
           T == Codes(codes) \cup {awards[i].reasonCode : i \in 1 .. n}
           seq == Arranged(codes, DOMAIN codes, ByRank(codes, policy))
                    \o MaterialCodes(awards, policy)
           whole == Distinct(seq)
           a == Len(codes)
           b == Cardinality(material)
           position == InOrder(material, ByLoss(awards))
<1>1. Codes(codes) \subseteq T /\ \A i \in 1 .. n : awards[i].reasonCode \in T
  OBVIOUS
<1>2. policy.maxDisclosed \in 1 .. 4
  BY PolicyAt
<1>3. result = SubSeq(whole, 1, Min({policy.maxDisclosed, Len(whole)}))
  BY DEF DiscloseReasonCodes, Capped
<1> HIDE DEF T
<1>4. /\ a \in Nat /\ b \in Nat /\ seq \in [1 .. a + b -> T]
      /\ \A k \in 1 .. a : seq[k] \in Codes(codes)
      /\ \A code \in Codes(codes) : \E k \in 1 .. a : seq[k] = code
      /\ \A k \in 1 .. b : position[k] \in material
                           /\ seq[a + k] = awards[position[k]].reasonCode
      /\ \A i \in material : \E k \in 1 .. b : position[k] = i
      /\ \A j, k \in 1 .. b : j < k =>
             awards[position[j]].lost >= awards[position[k]].lost
  BY <1>1, LeadingThenMaterial
<1>5. codes # <<>> => a # 0
  BY DEF IsList
<1> HIDE DEF material, seq, a, b, position, policy
<1>6. PICK length \in Nat : length = a + b
  BY <1>4
<1>7. \A k \in 1 .. length : \/ k \in 1 .. a
                             \/ \E j \in 1 .. b : k = a + j
  <2> SUFFICES ASSUME NEW k \in 1 .. length, k \notin 1 .. a PROVE \E j \in 1 .. b : k = a + j
    OBVIOUS
  <2>1. k - a \in 1 .. b /\ k = a + (k - a)
    BY <1>4, <1>6
  <2> QED BY <2>1
<1>8. {seq[k] : k \in 1 .. length} = Codes(codes) \cup reasons
  <2>1. ASSUME NEW k \in 1 .. length PROVE seq[k] \in Codes(codes) \cup reasons
    <3>1. CASE k \in 1 .. a
      BY <1>4, <3>1
    <3>2. CASE \E j \in 1 .. b : k = a + j
      <4>1. PICK j \in 1 .. b : k = a + j
        BY <3>2
      <4>2. position[j] \in material /\ seq[k] = awards[position[j]].reasonCode
        BY <1>4, <4>1
      <4> QED BY <4>2
    <3> QED BY <1>7, <3>1, <3>2
  <2>2. \A code \in Codes(codes) : \E k \in 1 .. length : seq[k] = code
    BY <1>4, <1>6
  <2>3. \A i \in material : \E k \in 1 .. length : seq[k] = awards[i].reasonCode
    <3> SUFFICES ASSUME NEW i \in material
                 PROVE  \E k \in 1 .. length : seq[k] = awards[i].reasonCode
      OBVIOUS
    <3>1. PICK j \in 1 .. b : position[j] = i
      BY <1>4
    <3>2. a + j \in 1 .. length /\ seq[a + j] = awards[i].reasonCode
      BY <1>4, <1>6, <3>1
    <3> QED BY <3>2
  <2> QED BY <2>1, <2>2, <2>3
<1>9. seq \in [1 .. length -> T]
  BY <1>4, <1>6
<1>10. PICK m \in 0 .. length : Shortened(whole, m, seq, length, T)
  BY <1>9, DistinctIs
<1> HIDE DEF whole, result
<1>11. m \in Nat /\ Len(whole) = m
  BY <1>6, <1>10, SeqDef DEF Shortened
<1>12. PICK c \in Nat : /\ c = Min({policy.maxDisclosed, m})
                        /\ c <= 4 /\ c <= m
                        /\ m # 0 => c # 0
                        /\ m <= policy.maxDisclosed => c = m
  <2>1. PICK top \in Nat : top = policy.maxDisclosed /\ top \in 1 .. 4
    BY <1>2
  <2>2. Min({top, m}) \in {top, m} /\ Min({top, m}) <= top /\ Min({top, m}) <= m
    BY <1>11, MinOfTwo
  <2> QED BY <1>11, <2>1, <2>2
<1>13. /\ Len(result) = c /\ DOMAIN result = 1 .. c
       /\ \A k \in 1 .. c : result[k] = whole[k] /\ k \in 1 .. m
  <2>1. result = SubSeq(whole, 1, c)
    BY <1>3, <1>11, <1>12
  <2>2. \A i \in 1 .. c : whole[i] \in T /\ i \in 1 .. m
    BY <1>10, <1>11, <1>12 DEF Shortened
  <2>3. /\ SubSeq(whole, 1, c) \in Seq(T)
        /\ Len(SubSeq(whole, 1, c)) = IF 1 <= c THEN c - 1 + 1 ELSE 0
        /\ \A i \in 1 .. c - 1 + 1 : SubSeq(whole, 1, c)[i] = whole[1 + i - 1]
    BY <2>2, SubSeqProperties
  <2>4. Len(result) = c /\ \A i \in 1 .. c : result[i] = whole[i]
    BY <2>1, <2>3
  <2>5. DOMAIN result = 1 .. Len(result)
    BY <2>1, <2>3, LenProperties
  <2> QED BY <2>2, <2>4, <2>5
<1>14. Codes(result) = {whole[k] : k \in 1 .. c}
  BY <1>13 DEF Codes
<1>15. Codes(result) \subseteq Codes(codes) \cup reasons
  BY <1>8, <1>10, <1>13, <1>14 DEF Shortened
<1>16. Codes(codes) \cup reasons # {} => c # 0
  <2>1. Codes(codes) \cup reasons # {} => length # 0
    BY <1>6, <1>8
  <2> QED BY <1>10, <1>12, <2>1 DEF Shortened
<1>17. ASSUME codes # <<>> PROVE c # 0 /\ result[1] \in Codes(codes)
  <2>1. a # 0 /\ 1 \in 1 .. a /\ length # 0
    BY <1>4, <1>5, <1>6, <1>17
  <2>2. c # 0 /\ 1 \in 1 .. c /\ whole[1] = seq[1]
    BY <1>10, <1>12, <2>1 DEF Shortened
  <2> QED BY <1>4, <1>13, <2>1, <2>2
<1>18. ASSUME a + b <= policy.maxDisclosed
       PROVE  Codes(result) = Codes(codes) \cup reasons
  <2>1. c = m
    <3>1. policy.maxDisclosed \in Nat
      BY <1>2
    <3> QED BY <1>6, <1>10, <1>11, <1>12, <1>18, <3>1
  <2>2. {whole[k] : k \in 1 .. m} = {seq[k] : k \in 1 .. length}
    <3>1. \A k \in 1 .. m : whole[k] \in {seq[i] : i \in 1 .. length}
      BY <1>10 DEF Shortened
    <3>2. \A i \in 1 .. length : seq[i] \in {whole[k] : k \in 1 .. m}
      BY <1>10 DEF Shortened
    <3> QED BY <3>1, <3>2
  <2> QED BY <1>8, <1>14, <2>1, <2>2
<1>19. ASSUME NEW i \in material, NEW j \in material,
              awards[i].reasonCode \in Codes(result) \ Codes(codes),
              awards[j].reasonCode \notin Codes(result)
       PROVE  \E h \in material : /\ awards[h].reasonCode = awards[i].reasonCode
                                  /\ awards[h].lost >= awards[j].lost
  <2>1. PICK x \in 1 .. b, y \in 1 .. b : position[x] = i /\ position[y] = j
    BY <1>4
  <2>2. PICK p \in 1 .. length, q \in 1 .. length :
            /\ p = a + x /\ q = a + y
            /\ seq[p] = awards[i].reasonCode /\ seq[q] = awards[j].reasonCode
    BY <1>4, <1>6, <2>1
  <2>3. (\E k \in 1 .. c : whole[k] = seq[p]) /\ \A k \in 1 .. c : whole[k] # seq[q]
    BY <1>14, <1>19, <2>2
  <2>4. c \in 0 .. m
    BY <1>11, <1>12
  <2>5. PICK r \in 1 .. length : seq[r] = seq[p] /\ r < q
    BY <1>10, <2>3, <2>4 DEF Shortened
  <2>6. r \notin 1 .. a
    BY <1>4, <1>19, <2>2, <2>5
  <2>7. PICK z \in 1 .. b : r = a + z
    BY <1>7, <2>6
  <2>8. z < y
    BY <1>4, <2>2, <2>5, <2>7
  <2>9. awards[position[z]].lost >= awards[position[y]].lost
    BY <1>4, <2>8
  <2>10. position[z] \in material /\ seq[r] = awards[position[z]].reasonCode
    BY <1>4, <2>7
  <2> QED BY <2>1, <2>2, <2>5, <2>9, <2>10
<1>20. Len(result) \in 0 .. 4 /\ DOMAIN result = 1 .. Len(result)
  BY <1>12, <1>13
<1>21. Codes(codes) \cup reasons # {} => result # <<>>
  BY <1>13, <1>16
<1>22. Discloses(result, codes, awards, policy)
  <2> DEFINE owed(i, j) == /\ awards[i].reasonCode \in Codes(result) \ Codes(codes)
                           /\ awards[j].reasonCode \notin Codes(result)
  <2> SUFFICES /\ Codes(result) \subseteq Codes(codes) \cup reasons
               /\ a + b <= policy.maxDisclosed => Codes(result) = Codes(codes) \cup reasons
               /\ \A i, j \in material : owed(i, j) =>
                      \E h \in material : /\ awards[h].reasonCode = awards[i].reasonCode
                                          /\ awards[h].lost >= awards[j].lost
    BY Zenon DEF Discloses, material, a, b
  <2> QED BY <1>15, <1>18, <1>19
<1> QED
  BY <1>13, <1>15, <1>17, <1>20, <1>21, <1>22 DEF material, policy, result

-----------------------------------------------------------------------------
(***************************************************************************)
(* Rows, by what they rest on.                                             *)
(***************************************************************************)

Says(row, codes, awards) ==
    /\ IsList(codes) /\ Codes(codes) \subseteq EngineCodes
    /\ row.reasons = DiscloseReasonCodes(codes, awards, Policies[row.policyVersion])

NoOffer(row) == row.approved = None /\ row.payment = None /\ row.expires = None

RowUnread(row) ==
    \E codes :
        /\ Says(row, codes, <<>>) /\ codes # <<>> /\ NoOffer(row)
        /\ row.verdict \in {"DECLINED", "MANUAL_REVIEW"}
        /\ row.score = None /\ row.dti = None

RowByScore(row, awards) ==
    \E codes :
        /\ Says(row, codes, awards) /\ NoOffer(row)
        /\ row.score = Score(awards) /\ row.dti = None
        /\ \/ row.verdict = "MANUAL_REVIEW" /\ codes # <<>>
           \/ row.verdict = "DECLINED" /\ Score(awards) < Policies[row.policyVersion].referralFrom

RowAfforded(a, row, awards) ==
    LET policy == Policies[row.policyVersion]
        body   == a.body
        owed   == Obligations(body, row.report.report)
        less   == CounterOffer(body, owed, policy)
        Ratio(amount) == RatioOf(body, owed, amount, policy)
    IN  \E codes :
            /\ Says(row, codes, awards) /\ Len(codes) <= 1
            /\ row.score = Score(awards) /\ ~ (Score(awards) < policy.autoApproveFrom)
            /\ \/ /\ row.verdict = "APPROVED" /\ row.approved = body.requested
                  /\ row.dti = Ratio(body.requested) /\ WithinLimit(row.dti, policy.maxDti)
               \/ /\ row.verdict = "APPROVED" /\ row.approved = less /\ row.dti = Ratio(less)
                  /\ less >= policy.products[body.product].minAmount /\ codes # <<>>
               \/ /\ row.verdict = "DECLINED" /\ NoOffer(row) /\ row.dti = Ratio(body.requested)
                  /\ codes = <<"DTI_ABOVE_LIMIT">>

LEMMA OneCode ==
    ASSUME NEW code
    PROVE  /\ IsList(<<code>>) /\ Codes(<<code>>) = {code}
           /\ Len(<<code>>) = 1 /\ <<code>> # <<>>
<1>1. Len(<<code>>) = 1 /\ DOMAIN <<code>> = {1} /\ <<code>>[1] = code
  OBVIOUS
<1>2. 1 .. 1 = {1}
  OBVIOUS
<1> DEFINE codes == <<code>>
<1> HIDE DEF codes
<1>3. Len(codes) = 1 /\ DOMAIN codes = {1} /\ codes[1] = code
  BY <1>1 DEF codes
<1>4. IsList(codes) /\ Codes(codes) = {code}
  BY <1>2, <1>3 DEF IsList, Codes
<1>5. <<code>> # <<>>
  OBVIOUS
<1> QED BY <1>1, <1>4, <1>5 DEF codes

LEMMA NoCode == IsList(<<>>) /\ Codes(<<>>) = {} /\ Len(<<>>) = 0
<1>1. Len(<<>>) = 0 /\ DOMAIN <<>> = {}
  OBVIOUS
<1>2. 1 .. 0 = {}
  OBVIOUS
<1> QED BY <1>1, <1>2 DEF IsList, Codes

LEMMA Reasoned ==
    ASSUME NEW a, a.body \in Bodies, NEW row, Reproduced(a, row)
    PROVE  LET awards == Awards(row.report.report, Policies[row.policyVersion])
           IN  \/ RowUnread(row)
               \/ OnReport(a, row) /\ RowByScore(row, awards)
               \/ OnReport(a, row) /\ RowAfforded(a, row, awards)
<1> DEFINE v == row.policyVersion
           policy == Policies[v]
           report == row.report.report
           awards == Awards(report, policy)
           score == Score(awards)
           result == Again(a, row)
<1>1. /\ row.verdict = result.verdict /\ row.reasons = result.reasons
      /\ row.approved = result.approved /\ row.payment = result.payment
      /\ row.expires = result.expires /\ row.score = result.score /\ row.dti = result.dti
  BY RowIs DEF Reproduced
<1>2. ASSUME NEW codes, IsCause(codes)
      PROVE  IsList(codes) /\ Codes(codes) \subseteq EngineCodes /\ codes # <<>>
  BY <1>2 DEF IsCause, Codes
<1>3. ASSUME NEW verdict, NEW stage, NEW codes, NEW scored, NEW of, NEW dti,
             IsList(codes), Codes(codes) \subseteq EngineCodes,
             result = Terminal(verdict, stage, codes, policy, of, scored, dti)
      PROVE  /\ Says(row, codes, of) /\ NoOffer(row) /\ row.verdict = verdict
             /\ row.score = scored /\ row.dti = dti
  <2> HIDE DEF result, policy
  <2> QED BY <1>1, <1>3, TerminalIs DEF Says, NoOffer, policy
<1>4. CASE Unread(result, policy)
  <2>1. PICK verdict, stage, codes :
            /\ verdict \in {"DECLINED", "MANUAL_REVIEW"} /\ IsCause(codes)
            /\ result = Unscored(verdict, stage, codes, policy)
    BY <1>4 DEF Unread
  <2>2. result = Terminal(verdict, stage, codes, policy, <<>>, None, None)
    BY <2>1 DEF Unscored
  <2> HIDE DEF result, policy
  <2>3. /\ Says(row, codes, <<>>) /\ NoOffer(row) /\ row.verdict = verdict
        /\ row.score = None /\ row.dti = None
    BY <1>2, <1>3, <2>1, <2>2
  <2> QED BY <1>2, <2>1, <2>3 DEF RowUnread
<1>5. CASE OnReport(a, row) /\ ByScore(result, policy, awards)
  <2> HIDE DEF result, awards
  <2>1. ASSUME NEW codes, IsCause(codes),
               result = Terminal("MANUAL_REVIEW", "D4", codes, policy, awards, score, None)
        PROVE  RowByScore(row, awards)
    BY <1>2, <1>3, <2>1 DEF RowByScore
  <2>2. ASSUME score < policy.referralFrom,
               result = Terminal("DECLINED", "D5", <<>>, policy, awards, score, None)
        PROVE  RowByScore(row, awards)
    BY <1>3, <2>2, NoCode DEF RowByScore
  <2>3. ASSUME result = Terminal("MANUAL_REVIEW", "D6", <<"SCORE_IN_REFERRAL_BAND">>, policy,
                                 awards, score, None)
        PROVE  RowByScore(row, awards)
    <3>1. "SCORE_IN_REFERRAL_BAND" \in EngineCodes
      BY DEF EngineCodes
    <3>2. PICK codes : codes = <<"SCORE_IN_REFERRAL_BAND">>
      OBVIOUS
    <3>3. IsList(codes) /\ Codes(codes) \subseteq EngineCodes /\ codes # <<>>
      BY <3>1, <3>2, OneCode
    <3> QED BY <1>3, <2>3, <3>2, <3>3 DEF RowByScore
  <2>4. RowByScore(row, awards)
    BY <1>5, <2>1, <2>2, <2>3 DEF ByScore
  <2> QED BY <1>5, <2>4 DEF awards
<1>6. CASE /\ OnReport(a, row) /\ Cleared(a.body, RecordedLookup(row), policy)
           /\ result = Decide(a.body, RecordedLookup(row), policy, a.submittedAt)
  <2> DEFINE body == a.body
             owed == Obligations(body, report)
             less == CounterOffer(body, owed, policy)
             asked == Offer(<<>>, body.requested, body, owed, awards, policy, a.submittedAt)
             cut == <<"AMOUNT_REDUCED_TO_FIT_DTI">>
             above == <<"DTI_ABOVE_LIMIT">>
  <2>1. RecordedLookup(row).report = report
    BY <1>6 DEF OnReport, Found
  <2>2. result = Afford(body, report, awards, policy, a.submittedAt)
    BY <1>6, <2>1, ClearedIsAfford
  <2>3. ~ (score < policy.autoApproveFrom)
    BY <1>6, <2>1 DEF Cleared
  <2>4. /\ IsList(cut) /\ Codes(cut) \subseteq EngineCodes /\ cut # <<>> /\ Len(cut) = 1
        /\ IsList(above) /\ Codes(above) \subseteq EngineCodes /\ Len(above) = 1
        /\ IsList(<<>>) /\ Codes(<<>>) \subseteq EngineCodes /\ Len(<<>>) = 0
    <3>1. "AMOUNT_REDUCED_TO_FIT_DTI" \in EngineCodes /\ "DTI_ABOVE_LIMIT" \in EngineCodes
      BY DEF EngineCodes
    <3> QED BY <3>1, OneCode, NoCode
  <2> HIDE DEF cut, result, awards, policy, owed
  <2>5. \/ WithinLimit(asked.dti, policy.maxDti) /\ result = asked
        \/ /\ less >= policy.products[body.product].minAmount
           /\ result = Offer(cut, less, body, owed, awards, policy, a.submittedAt)
        \/ result = Terminal("DECLINED", "D7", above, policy, awards, score, asked.dti)
    BY <2>2, AffordIs DEF cut, owed
  <2>6. ASSUME NEW codes, NEW amount
        PROVE  LET offer == Offer(codes, amount, body, owed, awards, policy, a.submittedAt)
               IN  /\ offer.verdict = "APPROVED" /\ offer.approved = amount
                   /\ offer.score = score /\ offer.dti = RatioOf(body, owed, amount, policy)
                   /\ offer.reasons = DiscloseReasonCodes(codes, awards, policy)
    BY OfferIs DEF RatioOf
  <2>7. CASE WithinLimit(asked.dti, policy.maxDti) /\ result = asked
    <3>1. /\ row.verdict = "APPROVED" /\ row.approved = body.requested
          /\ row.score = score /\ row.dti = RatioOf(body, owed, body.requested, policy)
          /\ WithinLimit(row.dti, policy.maxDti)
          /\ row.reasons = DiscloseReasonCodes(<<>>, awards, policy)
      BY <1>1, <2>6, <2>7
    <3>2. Says(row, <<>>, awards)
      BY <2>4, <3>1 DEF Says, policy
    <3> QED BY <1>6, <2>3, <2>4, <3>1, <3>2 DEF RowAfforded, awards, policy, owed
  <2>8. CASE /\ less >= policy.products[body.product].minAmount
             /\ result = Offer(cut, less, body, owed, awards, policy, a.submittedAt)
    <3>1. /\ row.verdict = "APPROVED" /\ row.approved = less
          /\ row.score = score /\ row.dti = RatioOf(body, owed, less, policy)
          /\ row.reasons = DiscloseReasonCodes(cut, awards, policy)
      BY <1>1, <2>6, <2>8
    <3>2. Says(row, cut, awards)
      BY <2>4, <3>1 DEF Says, policy
    <3>3. Len(cut) <= 1
      BY <2>4
    <3>4. RowAfforded(a, row, awards)
      BY <2>3, <2>4, <2>8, <3>1, <3>2, <3>3 DEF RowAfforded, policy, owed
    <3> QED BY <1>6, <3>4 DEF awards, policy
  <2>9. CASE result = Terminal("DECLINED", "D7", above, policy, awards, score, asked.dti)
    <3>1. /\ Says(row, above, awards) /\ NoOffer(row) /\ row.verdict = "DECLINED"
          /\ row.score = score /\ row.dti = asked.dti
      BY <1>3, <2>4, <2>9
    <3>2. row.dti = RatioOf(body, owed, body.requested, policy)
      BY <2>6, <3>1
    <3>3. Len(above) <= 1
      BY <2>4
    <3>4. RowAfforded(a, row, awards)
      BY <2>3, <3>1, <3>2, <3>3 DEF RowAfforded, policy, owed
    <3> QED BY <1>6, <3>4 DEF awards, policy
  <2> QED BY <2>5, <2>7, <2>8, <2>9
<1> QED BY <1>4, <1>5, <1>6, Concluded

\* The awards of a report are numbers, and the codes those of the policy.
LEMMA AwardsAre ==
    ASSUME NEW v \in Versions, NEW report
    PROVE  LET policy == Policies[v]
               awards == Awards(report, policy)
           IN  \E n \in Nat \ {0} :
                   /\ n = Len(policy.factors) /\ DOMAIN awards = 1 .. n
                   /\ DOMAIN policy.factors = 1 .. n
                   /\ \A i \in 1 .. n : /\ awards[i].lost \in Nat
                                        /\ awards[i].reasonCode = policy.factors[i].reasonCode
                                        /\ awards[i].reasonCode \in FactorCodes(policy)
<1> DEFINE policy == Policies[v]
           awards == Awards(report, policy)
           n == Len(policy.factors)
<1>1. /\ n \in Nat \ {0} /\ DOMAIN awards = 1 .. n
      /\ \A i \in 1 .. n : /\ awards[i].lost \in Nat
                           /\ awards[i].reasonCode = policy.factors[i].reasonCode
  BY ScoreBounds
<1>2. DOMAIN policy.factors = 1 .. n
  <2>1. IsList(policy.factors)
    BY PolicyAt
  <2> QED BY <2>1 DEF IsList
<1> HIDE DEF policy, awards, n
<1>3. \A i \in 1 .. n : policy.factors[i].reasonCode \in FactorCodes(policy)
  BY <1>2 DEF FactorCodes
<1> QED BY <1>1, <1>2, <1>3 DEF policy, awards, n

LEMMA ReasonsAreCodes ==
    ASSUME NEW a, NEW row, row.policyVersion \in Versions, NEW codes, NEW awards,
           Says(row, codes, awards),
           \/ awards = <<>>
           \/ awards = Awards(row.report.report, Policies[row.policyVersion])
    PROVE  /\ Codes(row.reasons) \subseteq EngineCodes \cup FactorCodes(TermsOf(row))
           /\ Len(row.reasons) \in 0 .. 4
           /\ codes # <<>> => row.reasons # <<>> /\ row.reasons[1] \in Codes(codes)
                              /\ 1 \in DOMAIN row.reasons
<1> DEFINE v == row.policyVersion
           policy == Policies[v]
           material == Material(awards, policy)
           reasons == {awards[i].reasonCode : i \in material}
<1>1. PICK n \in Nat : /\ DOMAIN awards = 1 .. n
                       /\ \A i \in 1 .. n : /\ awards[i].lost \in Nat
                                            /\ awards[i].reasonCode \in FactorCodes(policy)
  <2>1. CASE awards = <<>>
    <3>1. DOMAIN awards = 1 .. 0 /\ 1 .. 0 = {}
      BY <2>1
    <3> QED BY <3>1
  <2>2. CASE awards = Awards(row.report.report, policy)
    BY <2>2, AwardsAre
  <2> QED BY <2>1, <2>2
<1>2. IsList(codes) /\ Codes(codes) \subseteq EngineCodes
      /\ row.reasons = DiscloseReasonCodes(codes, awards, policy)
  BY DEF Says
<1>3. LET result == DiscloseReasonCodes(codes, awards, policy)
      IN  /\ Len(result) \in 0 .. 4 /\ DOMAIN result = 1 .. Len(result)
          /\ Codes(result) \subseteq Codes(codes) \cup reasons
          /\ codes # <<>> => Len(result) # 0 /\ result[1] \in Codes(codes)
  BY <1>1, <1>2, DisclosedAre
<1>4. reasons \subseteq FactorCodes(policy)
  BY <1>1 DEF Material
<1> DEFINE result == DiscloseReasonCodes(codes, awards, policy)
<1> HIDE DEF reasons, material, result
<1>5. Len(result) # 0 => result # <<>> /\ 1 \in 1 .. Len(result)
  <2>1. Len(<<>>) = 0
    OBVIOUS
  <2>2. Len(result) \in Nat
    BY <1>3 DEF result
  <2> QED BY <2>1, <2>2
<1> QED BY <1>2, <1>3, <1>4, <1>5 DEF TermsOf, result

LEMMA RowIsOK ==
    ASSUME NEW a, a.body \in Bodies, NEW row, Reproduced(a, row)
    PROVE  RowOK(row)
<1> DEFINE awards == Awards(row.report.report, Policies[row.policyVersion])
<1>1. row.policyVersion \in Versions /\ row.cause \in Causes
  BY DEF Reproduced
<1>2. \/ RowUnread(row) \/ RowByScore(row, awards) \/ RowAfforded(a, row, awards)
  BY Reasoned
<1>3. PICK codes, of : Says(row, codes, of) /\ of \in {<<>>, awards}
  <2> HIDE DEF awards
  <2>1. CASE RowUnread(row)
    BY <2>1 DEF RowUnread
  <2>2. CASE RowByScore(row, awards)
    BY <2>2 DEF RowByScore
  <2>3. CASE RowAfforded(a, row, awards)
    BY <2>3 DEF RowAfforded
  <2> QED BY <1>2, <2>1, <2>2, <2>3
<1>4. Codes(row.reasons) \subseteq EngineCodes \cup FactorCodes(TermsOf(row))
  BY <1>1, <1>3, ReasonsAreCodes
<1>5. row.verdict \in Verdicts
  <2> HIDE DEF awards
  <2> QED BY <1>2 DEF RowUnread, RowByScore, RowAfforded, Verdicts
<1> QED BY <1>1, <1>4, <1>5 DEF RowOK

\* The shape of what is stored and held in memory, for every policy and answer: a
\* verdict, reasons the engine or the policy has, a version that is on file.
THEOREM TypeAlways == Spec => []TypeOK
<1>1. Inv => TypeOK
  <2> SUFFICES ASSUME Inv PROVE TypeOK
    OBVIOUS
  <2>1. application # None => ApplicationOK
    BY DEF Inv
  <2>2. ASSUME decision # None PROVE application # None /\ RowOK(decision)
    <3>1. application # None /\ Reproduced(application, decision)
      BY <2>2 DEF Inv, Decided
    <3> QED BY <2>1, <3>1, RowIsOK DEF ApplicationOK
  <2>3. ASSUME request # None, request.step = "close" PROVE RowOK(request.row)
    <3>1. application # None /\ Reproduced(application, request.row)
      BY <2>3 DEF Inv, Closes
    <3> QED BY <2>1, <3>1, RowIsOK DEF ApplicationOK
  <2>4. ASSUME request # None
        PROVE  /\ application # None
               /\ \/ request.step = "pull" /\ request.version \in Versions
                  \/ request.step = "close" /\ RowOK(request.row)
    BY <2>3, <2>4 DEF Inv, Pulling
  <2> QED BY <2>1, <2>2, <2>4 DEF Inv, TypeOK, ApplicationOK
<1> QED
  BY <1>1, InvAlways, PTL

\* The one code of a decision that read no score is disclosed, and no other.
LEMMA OneReason ==
    ASSUME NEW v \in Versions, NEW code
    PROVE  Codes(DiscloseReasonCodes(<<code>>, <<>>, Policies[v])) = {code}
<1> DEFINE policy == Policies[v]
           awards == <<>>
           codes == <<code>>
           result == DiscloseReasonCodes(codes, awards, policy)
           material == Material(awards, policy)
<1>1. IsList(codes) /\ Codes(codes) = {code} /\ codes # <<>>
  BY OneCode
<1>2. DOMAIN awards = 1 .. 0 /\ 1 .. 0 = {}
  OBVIOUS
<1>3. material = {}
  BY <1>2 DEF Material
<1> HIDE DEF awards, codes
<1>4. PICK n \in Nat : DOMAIN awards = 1 .. n /\ \A i \in 1 .. n : awards[i].lost \in Nat
  BY <1>2
<1>5. LET disclosed == DiscloseReasonCodes(codes, awards, policy)
      IN  /\ Len(disclosed) \in 0 .. 4 /\ DOMAIN disclosed = 1 .. Len(disclosed)
          /\ Codes(disclosed) \subseteq
                 Codes(codes) \cup {awards[i].reasonCode : i \in Material(awards, policy)}
          /\ codes # <<>> => Len(disclosed) # 0 /\ disclosed[1] \in Codes(codes)
  <2>1. /\ IsList(codes) /\ DOMAIN awards = 1 .. n
        /\ \A i \in 1 .. n : awards[i].lost \in Nat
    BY <1>1, <1>4
  <2> QED BY <2>1, DisclosedAre
<1> HIDE DEF result, policy
<1>6. Codes(result) = {code}
  <2>1. 1 \in DOMAIN result /\ result[1] = code
    BY <1>1, <1>5 DEF result, policy
  <2>2. Codes(result) \subseteq {code}
    BY <1>1, <1>3, <1>5 DEF result, policy
  <2> QED BY <2>1, <2>2 DEF Codes
<1> QED BY <1>6 DEF result, codes, awards, policy

\* A gap in the evidence is not decided over: a person looks at it, and the gap is
\* the reason. This for policies that require every scored input of the evidence.
THEOREM GapIsReferredAlways ==
    ASSUME \A v \in Versions : EvidenceRequired(Policies[v])
    PROVE  Spec => []GapIsReferred
<1>1. ASSUME Inv, decision # None, decision.report # None, decision.report.outcome = "FOUND",
             \/ \E i \in Evidence : decision.report.report[i] = Gap
             \/ MatchIncomplete(decision.report.report)
      PROVE  decision.verdict = "MANUAL_REVIEW" /\ Disclosed = {"BUREAU_DATA_INCOMPLETE"}
  <2> DEFINE a == application
             v == decision.policyVersion
             policy == Policies[v]
             report == decision.report.report
             code == "BUREAU_DATA_INCOMPLETE"
             result == Again(a, decision)
  <2>1. /\ Reproduced(a, decision) /\ v \in Versions
        /\ Passes(a.body, policy, a.submittedAt)
    BY <1>1 DEF Inv, Decided, Reproduced, Screened
  <2>2. EvidenceRequired(policy)
    BY <2>1
  <2>3. ~ IsComplete(report, policy)
    <3>1. CASE MatchIncomplete(report)
      <4>1. "subjectMatch" \in MissingInputs(report, policy)
        BY <3>1 DEF MissingInputs
      <4> QED BY <4>1 DEF IsComplete
    <3>2. CASE \E i \in Evidence : report[i] = Gap
      <4>1. PICK i \in Evidence : report[i] = Gap
        BY <3>2
      <4>2. i \in StructuralInputs \/ i \in ScoredInputs
        BY DEF Evidence, StructuralInputs, ScoredInputs
      <4>3. i \in MissingInputs(report, policy)
        <5>1. CASE i \in StructuralInputs
          BY <4>1, <5>1 DEF MissingInputs
        <5>2. CASE i \in ScoredInputs
          <6>1. i \in RequiredInputs(policy)
            BY <2>2, <5>2 DEF EvidenceRequired
          <6>2. ReadInput(report, i) = Gap
            BY <4>1, <5>2 DEF ReadInput
          <6> QED BY <6>1, <6>2 DEF MissingInputs
        <5> QED BY <4>2, <5>1, <5>2
      <4> QED BY <4>3 DEF IsComplete
    <3> QED BY <1>1, <3>1, <3>2
  <2>4. /\ RecordedLookup(decision).outcome = "FOUND"
        /\ RecordedLookup(decision).report = report
    BY <1>1 DEF RecordedLookup, Found
  <2>5. result = Unscored("MANUAL_REVIEW", "D1", <<code>>, policy)
    BY <2>1, <2>3, <2>4 DEF Again, Decide
  <2>6. result = Terminal("MANUAL_REVIEW", "D1", <<code>>, policy, <<>>, None, None)
    BY <2>5 DEF Unscored
  <2>7. decision.verdict = result.verdict /\ decision.reasons = result.reasons
    BY <2>1, RowIs DEF Reproduced
  <2> HIDE DEF result, policy, code
  <2>8. /\ result.verdict = "MANUAL_REVIEW"
        /\ result.reasons = DiscloseReasonCodes(<<code>>, <<>>, policy)
    BY <2>6, TerminalIs
  <2>9. Codes(result.reasons) = {code}
    BY <2>1, <2>8, OneReason DEF policy
  <2> QED BY <2>7, <2>8, <2>9 DEF Codes, Disclosed, code
<1>2. Inv => GapIsReferred
  BY <1>1 DEF GapIsReferred
<1> QED
  BY <1>2, InvAlways, PTL

-----------------------------------------------------------------------------
(***************************************************************************)
(* What the table takes.                                                   *)
(***************************************************************************)

\* A score below the referral band has lost a material number of points somewhere.
LEMMA LowScoreHasLoss ==
    ASSUME NEW v \in Versions, LowScoresExplained(Policies[v]), NEW report,
           Score(Awards(report, Policies[v])) < Policies[v].referralFrom
    PROVE  Material(Awards(report, Policies[v]), Policies[v]) # {}
<1> DEFINE policy == Policies[v]
           awards == Awards(report, policy)
           score == Score(awards)
<1>1. PICK n \in Nat \ {0} : n = Len(policy.factors)
  BY ScoreBounds
<1>2. /\ score \in 0 .. policy.maxPoints /\ DOMAIN awards = 1 .. n
      /\ \A i \in 1 .. n : awards[i].lost \in Nat
      /\ \A c \in Nat : (\A i \in 1 .. n : awards[i].lost <= c) => policy.maxPoints <= score + c * n
  BY <1>1, ScoreBounds
<1>3. PICK m \in Nat, top \in Nat, from \in Nat :
          m = policy.materialPointsLost /\ top = policy.maxPoints /\ from = policy.referralFrom
  BY PolicyAt
<1>4. n * (m - 1) <= top - from
  BY <1>1, <1>3 DEF LowScoresExplained
<1>5. PICK points \in Nat : points = score /\ points < from
  BY <1>2, <1>3
<1> HIDE DEF awards, score, policy
<1>6. Material(awards, policy) = {i \in 1 .. n : awards[i].lost >= m}
  BY <1>2, <1>3 DEF Material
<1>7. CASE m = 0
  <2>1. 1 \in 1 .. n /\ awards[1].lost >= m
    BY <1>2, <1>7
  <2> QED BY <1>6, <2>1 DEF awards, policy
<1>8. CASE m # 0
  <2> SUFFICES ASSUME Material(awards, policy) = {} PROVE FALSE
    BY DEF awards, policy
  <2>1. PICK c \in Nat : c = m - 1
    BY <1>8
  <2>2. \A i \in 1 .. n : awards[i].lost <= c
    BY <1>2, <1>6, <2>1
  <2>3. top <= points + c * n
    BY <1>2, <1>3, <1>5, <2>2
  <2>4. n * c <= top - from
    BY <1>4, <2>1
  <2>5. c * n = n * c /\ c * n \in Nat
    OBVIOUS
  <2> QED BY <1>5, <2>3, <2>4, <2>5
<1> QED BY <1>7, <1>8

\* Every constraint of the table but the range of the ratio.
Whole(row) ==
    /\ Explained(row)
    /\ (row.verdict = "APPROVED") <=> HasOffer(row)
    /\ row.score # None => row.score \in 0 .. 100
    /\ row.cause # None => row.report = None

\* A decline by score says what was lost; who is refused or cut down hears why.
LEMMA RowIsExplained ==
    ASSUME NEW a, a.body \in Bodies, NEW row, Reproduced(a, row),
           LowScoresExplained(Policies[row.policyVersion])
    PROVE  Explained(row)
<1> DEFINE v == row.policyVersion
           policy == Policies[v]
           report == row.report.report
           awards == Awards(report, policy)
<1>1. v \in Versions
  BY DEF Reproduced
<1>2. row.requested = a.body.requested
  BY RowIs DEF Reproduced
<1>3. ASSUME NEW codes, NEW of, Says(row, codes, of), of \in {<<>>, awards}
      PROVE  Len(row.reasons) <= 4 /\ (codes # <<>> => row.reasons # <<>>)
  <2>1. /\ Len(row.reasons) \in 0 .. 4 /\ (codes # <<>> => row.reasons # <<>>)
    BY <1>1, <1>3, ReasonsAreCodes
  <2>2. \A n \in 0 .. 4 : n <= 4
    OBVIOUS
  <2> QED BY <2>1, <2>2, Zenon
<1>4. CASE RowUnread(row)
  <2> HIDE DEF awards
  <2>1. PICK codes : /\ Says(row, codes, <<>>) /\ codes # <<>>
                     /\ row.verdict \in {"DECLINED", "MANUAL_REVIEW"}
    BY <1>4 DEF RowUnread
  <2>2. Len(row.reasons) <= 4 /\ row.reasons # <<>>
    BY <1>3, <2>1
  <2> QED BY <2>2 DEF Explained
<1>5. CASE RowByScore(row, awards)
  <2>1. PICK codes : /\ Says(row, codes, awards)
                     /\ \/ row.verdict = "MANUAL_REVIEW" /\ codes # <<>>
                        \/ row.verdict = "DECLINED" /\ Score(awards) < policy.referralFrom
    BY <1>5 DEF RowByScore
  <2>2. Len(row.reasons) <= 4 /\ (codes # <<>> => row.reasons # <<>>)
    BY <1>3, <2>1
  <2>3. ASSUME Score(awards) < policy.referralFrom PROVE row.reasons # <<>>
    <3>1. Material(awards, policy) # {}
      BY <1>1, <2>3, LowScoreHasLoss
    <3>2. PICK n \in Nat : DOMAIN awards = 1 .. n /\ \A i \in 1 .. n : awards[i].lost \in Nat
      BY <1>1, AwardsAre
    <3>3. IsList(codes) /\ row.reasons = DiscloseReasonCodes(codes, awards, policy)
      BY <2>1 DEF Says
    <3> HIDE DEF awards, policy
    <3>4. LET result == DiscloseReasonCodes(codes, awards, policy)
          IN  Codes(codes) \cup {awards[i].reasonCode : i \in Material(awards, policy)} # {}
                  => result # <<>>
      BY <1>1, <3>2, <3>3, DisclosedAre DEF policy
    <3> QED BY <3>1, <3>3, <3>4
  <2> HIDE DEF awards
  <2> QED BY <2>1, <2>2, <2>3 DEF Explained
<1>6. CASE OnReport(a, row) /\ RowAfforded(a, row, awards)
  <2> DEFINE less == CounterOffer(a.body, Obligations(a.body, report), policy)
  <2>1. PICK codes :
           /\ Says(row, codes, awards)
           /\ \/ row.verdict = "APPROVED" /\ row.approved = a.body.requested
              \/ row.verdict = "APPROVED" /\ codes # <<>>
              \/ row.verdict = "DECLINED" /\ codes = <<"DTI_ABOVE_LIMIT">>
    <3> HIDE DEF awards
    <3> QED BY <1>6 DEF RowAfforded
  <2>2. Len(row.reasons) <= 4 /\ (codes # <<>> => row.reasons # <<>>)
    BY <1>3, <2>1
  <2>3. <<"DTI_ABOVE_LIMIT">> # <<>>
    OBVIOUS
  <2>4. a.body.requested \in Nat
    BY BodiesAreTyped
  <2>5. row.approved = a.body.requested => ~ (row.approved < row.requested)
    BY <1>2, <2>4
  <2> QED BY <2>1, <2>2, <2>3, <2>5 DEF Explained
<1> QED BY <1>4, <1>5, <1>6, Reasoned

LEMMA RowIsWhole ==
    ASSUME NEW a, a.body \in Bodies, a.submittedAt \in Days, NEW row, Reproduced(a, row),
           LowScoresExplained(Policies[row.policyVersion]), ScoresFit(Policies[row.policyVersion])
    PROVE  Whole(row)
<1> DEFINE policy == Policies[row.policyVersion]
           awards == Awards(row.report.report, policy)
<1>1. Explained(row)
  BY RowIsExplained
<1>2. (row.verdict = "APPROVED") <=> HasOffer(row)
  BY RowAgrees DEF Consistent
<1>3. row.cause # None => row.report = None
  BY DEF Reproduced
<1>4. row.score = None \/ row.score = Score(awards)
  <2> HIDE DEF awards
  <2>1. RowUnread(row) \/ RowByScore(row, awards) \/ RowAfforded(a, row, awards)
    BY Reasoned DEF awards
  <2> QED BY <2>1 DEF RowUnread, RowByScore, RowAfforded
<1>5. Score(awards) \in 0 .. 100
  <2>1. row.policyVersion \in Versions
    BY DEF Reproduced
  <2>2. Score(awards) \in 0 .. policy.maxPoints /\ policy.maxPoints \in Nat
    BY <2>1, ScoreBounds, PolicyAt
  <2>3. policy.maxPoints <= 100
    BY DEF ScoresFit
  <2> HIDE DEF awards, policy
  <2> QED BY <2>2, <2>3
<1> QED BY <1>1, <1>2, <1>3, <1>4, <1>5 DEF Whole

LEMMA RatioIsNat ==
    ASSUME NEW a, a.body \in Bodies, NEW v \in Versions, Screened(a, v),
           NEW owed \in Nat, NEW amount \in Nat
    PROVE  RatioOf(a.body, owed, amount, Policies[v]) \in Nat
<1> DEFINE unit == Unit(Policies[v].products[a.body.product].rate, a.body.term)
<1>1. unit \in Units /\ a.body.income \in Nat \ {0}
  BY Applicant
<1> HIDE DEF unit
<1>2. PICK pay \in Nat : pay = AnnuityPayment(amount, unit)
  BY <1>1, PaymentRounded
<1>3. PICK income \in Nat \ {0} : income = a.body.income
  BY <1>1
<1>4. DebtToIncome(owed, pay, income) \in Nat
  BY <1>2, <1>3, RatioRounded
<1> QED BY <1>2, <1>3, <1>4 DEF RatioOf, unit

\* Offers leave a ratio the column holds: the asked amount for keeping the limit,
\* the reduced one for fitting it.
LEMMA OfferedRatioIsHeld ==
    ASSUME NEW a, a.body \in Bodies, NEW row, Reproduced(a, row), OnReport(a, row),
           RowAfforded(a, row, Awards(row.report.report, Policies[row.policyVersion])),
           row.verdict = "APPROVED"
    PROVE  row.dti < 1000000
<1> DEFINE v == row.policyVersion
           policy == Policies[v]
           body == a.body
           awards == Awards(row.report.report, policy)
           owed == Obligations(body, row.report.report)
           less == CounterOffer(body, owed, policy)
           unit == Unit(policy.products[body.product].rate, body.term)
           limit == policy.maxDti
           room == Headroom(body.income, owed, limit)
           minAmount == policy.products[body.product].minAmount
<1>1. v \in Versions /\ Screened(a, v) /\ owed \in Nat
  BY OwedIsNat DEF Reproduced, OnReport
<1>2. /\ unit \in Units /\ body.income \in Nat \ {0} /\ body.requested \in Nat
      /\ minAmount \in Nat \ {0} /\ less \in Nat
  BY <1>1, Applicant, CounterIsNat
<1>3. limit \in Fractions /\ limit.num < limit.den /\ policy.rounding \in Nat \ {0}
  BY <1>1, PolicyAt
<1>4. \A x : RatioOf(body, owed, x, policy)
               = DebtToIncome(owed, AnnuityPayment(x, unit), body.income)
  BY DEF RatioOf
<1>5. \/ /\ row.dti = RatioOf(body, owed, body.requested, policy)
         /\ WithinLimit(row.dti, limit)
      \/ row.dti = RatioOf(body, owed, less, policy) /\ less >= minAmount
  <2> HIDE DEF awards
  <2> QED BY DEF RowAfforded, awards
<1>6. less = MaxPrincipal(room, unit, policy.rounding)
  BY DEF CounterOffer
<1> HIDE DEF less, unit, owed, minAmount, limit
<1>7. CASE /\ row.dti = RatioOf(body, owed, body.requested, policy)
           /\ WithinLimit(row.dti, limit)
  <2>1. PICK n \in Nat, d \in Nat \ {0} : n = limit.num /\ d = limit.den /\ n < d
    BY <1>3 DEF Fractions
  <2>2. PICK dti \in Nat : dti = row.dti
    BY <1>1, <1>2, <1>7, RatioIsNat
  <2>3. dti * d <= 10000 * n
    BY <1>7, <2>1, <2>2 DEF WithinLimit
  <2>4. dti < 1000000
    <3> SUFFICES ASSUME 1000000 <= dti PROVE FALSE
      OBVIOUS
    <3>1. 1000000 * d <= dti * d
      BY TimesKeepsOrder
    <3>2. dti * d \in Nat
      OBVIOUS
    <3> QED BY <2>1, <2>3, <3>1, <3>2
  <2> QED BY <2>2, <2>4
<1>8. CASE row.dti = RatioOf(body, owed, less, policy) /\ less >= minAmount
  <2>1. less # 0
    BY <1>2, <1>8
  <2>2. PICK income \in Nat \ {0} : income = body.income
    BY <1>2
  <2>3. room.num \in Int /\ room.den \in Nat \ {0}
    BY <1>1, <1>3, <2>2, RoomIsTyped
  <2>4. FitsInto(less, unit, room)
    <3> HIDE DEF room
    <3> QED BY <1>2, <1>3, <1>6, <2>1, <2>3, PrincipalFits
  <2>5. FitsInto(less, unit, Headroom(income, owed, limit))
    BY <2>2, <2>4
  <2>6. DebtToIncome(owed, AnnuityPayment(less, unit), income) <= Scale
    BY <1>1, <1>2, <1>3, <2>5, FittingIsBelowOne, Zenon
  <2>7. row.dti \in Nat
    <3>1. PICK x \in Nat : x = less
      BY <1>2
    <3>2. RatioOf(a.body, owed, x, Policies[v]) \in Nat
      BY <1>1, RatioIsNat
    <3> QED BY <1>8, <3>1, <3>2
  <2> QED BY <1>4, <1>8, <2>2, <2>6, <2>7 DEF Scale
<1> QED BY <1>5, <1>7, <1>8

\* The one row the table refuses is a decline for obligations of a hundred times the
\* income: everything else the engine concludes is stored. This for policies whose
\* scores fit the column and leave no low score without a material loss.
THEOREM OnlyTheRatioIsRefusedAlways ==
    ASSUME \A v \in Versions : ScoresFit(Policies[v]) /\ LowScoresExplained(Policies[v])
    PROVE  Spec => []OnlyTheRatioIsRefused
<1>1. ASSUME Inv, request # None, request.step = "close", ~ Storable(request.row)
      PROVE  /\ request.row.verdict = "DECLINED"
             /\ "DTI_ABOVE_LIMIT" \in Codes(request.row.reasons)
             /\ request.row.dti >= 1000000
             /\ Storable([request.row EXCEPT !.dti = None])
  <2> DEFINE a == application
             row == request.row
             awards == Awards(row.report.report, Policies[row.policyVersion])
             other == [row EXCEPT !.dti = None]
  <2>1. Reproduced(a, row) /\ ApplicationOK /\ row.policyVersion \in Versions
    BY <1>1 DEF Inv, Closes, Reproduced
  <2>2. Whole(row)
    BY <2>1, RowIsWhole DEF ApplicationOK
  <2>3. row.dti # None /\ ~ (row.dti < 1000000)
    BY <1>1, <2>2 DEF Whole, Storable
  <2>4. OnReport(a, row) /\ RowAfforded(a, row, awards)
    <3> HIDE DEF awards
    <3>1. \/ RowUnread(row) \/ RowByScore(row, awards)
          \/ OnReport(a, row) /\ RowAfforded(a, row, awards)
      BY <2>1, Reasoned DEF ApplicationOK, awards
    <3> QED BY <2>3, <3>1 DEF RowUnread, RowByScore
  <2>5. row.verdict # "APPROVED"
    BY <2>1, <2>3, <2>4, OfferedRatioIsHeld DEF ApplicationOK
  <2>6. PICK codes : /\ Says(row, codes, awards) /\ codes = <<"DTI_ABOVE_LIMIT">>
                     /\ row.verdict = "DECLINED"
                     /\ row.dti = RatioOf(a.body, Obligations(a.body, row.report.report),
                                          a.body.requested, Policies[row.policyVersion])
    <3> HIDE DEF awards
    <3> QED BY <2>4, <2>5 DEF RowAfforded
  <2>7. "DTI_ABOVE_LIMIT" \in Codes(row.reasons)
    <3>1. codes # <<>> /\ Codes(codes) = {"DTI_ABOVE_LIMIT"}
      BY <2>6, OneCode
    <3>2. row.reasons[1] \in Codes(codes) /\ 1 \in DOMAIN row.reasons
      BY <2>1, <2>6, <3>1, ReasonsAreCodes
    <3> QED BY <3>1, <3>2 DEF Codes
  <2>8. row.dti >= 1000000
    <3>1. row.dti \in Nat
      <4>1. Screened(a, row.policyVersion) /\ Obligations(a.body, row.report.report) \in Nat
        BY <2>1, <2>4, OwedIsNat DEF OnReport, ApplicationOK
      <4>2. a.body.requested \in Nat
        BY <2>1, BodiesAreTyped DEF ApplicationOK
      <4> QED BY <2>1, <2>6, <4>1, <4>2, RatioIsNat DEF ApplicationOK
    <3> QED BY <2>3, <3>1
  <2>9. Storable(other)
    <3>1. /\ other.verdict = row.verdict /\ other.reasons = row.reasons
          /\ other.requested = row.requested /\ other.approved = row.approved
          /\ other.payment = row.payment /\ other.expires = row.expires
          /\ other.score = row.score /\ other.cause = row.cause
          /\ other.report = row.report /\ other.dti = None
      <4>1. PICK result, asked, version, report, cause :
                row = Row(result, asked, version, report, cause)
        BY <2>1 DEF Reproduced
      <4> HIDE DEF row
      <4> QED BY <4>1 DEF Row
    <3> HIDE DEF other, row
    <3> QED BY <2>2, <3>1 DEF Storable, Whole, Explained, HasOffer
  <2> QED BY <2>6, <2>7, <2>8, <2>9
<1>2. Inv => OnlyTheRatioIsRefused
  BY <1>1 DEF OnlyTheRatioIsRefused
<1> QED
  BY <1>2, InvAlways, PTL

-----------------------------------------------------------------------------
(***************************************************************************)
(* What is disclosed beside the code that decided.                         *)
(***************************************************************************)

LEMMA AwardIsAtABand ==
    ASSUME NEW factor, FactorTyped(factor), NEW value
    PROVE  \E h \in 0 .. Len(factor.bands) : Award(factor, value) = AwardAt(factor, h)
<1> DEFINE I == {i \in 1 .. Len(factor.bands) : Matches(factor.bands[i], value)}
           h == IF I # {} THEN Min(I) ELSE 0
<1>1. Award(factor, value) = AwardAt(factor, h)
  BY DEF Award, SelectInSeq
<1>2. I \subseteq Nat /\ I \subseteq 1 .. Len(factor.bands)
  OBVIOUS
<1>3. h \in 0 .. Len(factor.bands)
  <2>1. Len(factor.bands) \in Nat
    BY DEF FactorTyped, IsList
  <2> HIDE DEF I
  <2>2. CASE I = {}
    BY <2>1, <2>2
  <2>3. CASE I # {}
    <3>1. Min(I) \in 1 .. Len(factor.bands)
      BY <1>2, <2>3, LeastIsMin
    <3> HIDE DEF h
    <3>2. h = Min(I)
      BY <2>3 DEF h
    <3> QED BY <2>1, <3>1, <3>2
  <2> QED BY <2>2, <2>3
<1> QED BY <1>1, <1>3

\* A score that reaches affordability leaves a place beside its material losses.
LEMMA RoomIsLeft ==
    ASSUME NEW v \in Versions, RoomForReasons(Policies[v]), NEW report,
           ~ (Score(Awards(report, Policies[v])) < Policies[v].autoApproveFrom)
    PROVE  Cardinality(Material(Awards(report, Policies[v]), Policies[v]))
             < Policies[v].maxDisclosed
<1> DEFINE policy == Policies[v]
           D == DOMAIN policy.factors
           Bottom(i) == Len(policy.factors[i].bands)
           awarded(i) == Award(policy.factors[i], ReadInput(report, policy.factors[i].input))
           hit == [i \in D |-> CHOOSE h \in 0 .. Bottom(i) :
                                   awarded(i) = AwardAt(policy.factors[i], h)]
           others == [i \in D |-> AwardAt(policy.factors[i], hit[i])]
<1>1. \A i \in D : hit[i] \in 0 .. Bottom(i) /\ awarded(i) = AwardAt(policy.factors[i], hit[i])
  <2> SUFFICES ASSUME NEW i \in D
               PROVE  /\ hit[i] \in 0 .. Bottom(i)
                      /\ awarded(i) = AwardAt(policy.factors[i], hit[i])
    OBVIOUS
  <2>1. FactorTyped(policy.factors[i])
    BY PolicyAt
  <2>2. \E h \in 0 .. Bottom(i) : awarded(i) = AwardAt(policy.factors[i], h)
    BY <2>1, AwardIsAtABand
  <2> QED BY <2>2, Zenon
<1>2. Awards(report, policy) = others
  BY <1>1 DEF Awards
<1>3. \A i \in D : Bottom(i) \in Nat
  BY PolicyAt DEF FactorTyped, IsList
<1> HIDE DEF hit
<1>4. hit \in [D -> UNION {0 .. Bottom(i) : i \in D}] /\ \A i \in D : hit[i] <= Bottom(i)
  <2>1. DOMAIN hit = D /\ hit = [i \in D |-> hit[i]]
    BY DEF hit
  <2>2. \A i \in D : hit[i] \in UNION {0 .. Bottom(j) : j \in D}
    BY <1>1
  <2>3. \A i \in D : hit[i] <= Bottom(i)
    BY <1>1, <1>3
  <2> QED BY <2>1, <2>2, <2>3
<1>5. \/ Cardinality(Material(others, policy)) < policy.maxDisclosed
      \/ Score(others) < policy.autoApproveFrom
  BY <1>4, Zenon DEF RoomForReasons
<1> QED BY <1>2, <1>5

\* A decision that reached affordability shows every material loss, and what any
\* scored decision shows of the losses are the largest.
LEMMA LargestAreShown ==
    ASSUME NEW a, a.body \in Bodies, NEW row, Reproduced(a, row), row.score # None,
           CodesApart(Policies[row.policyVersion]), RoomForReasons(Policies[row.policyVersion])
    PROVE  LET policy  == Policies[row.policyVersion]
               factors == Awards(row.report.report, policy)
               shown   == {i \in DOMAIN factors : factors[i].reasonCode \in Codes(row.reasons)}
               hidden  == {i \in DOMAIN factors \ shown :
                               factors[i].lost >= policy.materialPointsLost}
           IN  /\ row.dti # None => hidden = {}
               /\ \A i \in shown, j \in hidden : factors[i].lost >= factors[j].lost
<1> DEFINE v == row.policyVersion
           policy == Policies[v]
           awards == Awards(row.report.report, policy)
           material == Material(awards, policy)
           result == row.reasons
           reasons == {awards[i].reasonCode : i \in material}
<1>1. v \in Versions
  BY DEF Reproduced
<1>2. CodesApart(policy) /\ RoomForReasons(policy)
  BY <1>1
<1>3. PICK n \in Nat :
         /\ DOMAIN awards = 1 .. n /\ DOMAIN policy.factors = 1 .. n
         /\ \A i \in 1 .. n : /\ awards[i].lost \in Nat
                              /\ awards[i].reasonCode = policy.factors[i].reasonCode
                              /\ awards[i].reasonCode \in FactorCodes(policy)
  BY <1>1, AwardsAre
<1>4. PICK codes :
         /\ Says(row, codes, awards)
         /\ row.dti # None => /\ Len(codes) <= 1
                                   /\ ~ (Score(awards) < policy.autoApproveFrom)
  <2> HIDE DEF awards
  <2>1. RowUnread(row) \/ RowByScore(row, awards) \/ RowAfforded(a, row, awards)
    BY Reasoned DEF awards
  <2> QED BY <2>1 DEF RowUnread, RowByScore, RowAfforded
<1>5. /\ IsList(codes) /\ Codes(codes) \subseteq EngineCodes
      /\ result = DiscloseReasonCodes(codes, awards, policy)
  BY <1>4 DEF Says
<1>6. /\ Codes(result) \subseteq Codes(codes) \cup reasons
      /\ Len(codes) + Cardinality(material) <= policy.maxDisclosed =>
             Codes(result) = Codes(codes) \cup reasons
      /\ \A i, j \in material :
             /\ awards[i].reasonCode \in Codes(result) \ Codes(codes)
             /\ awards[j].reasonCode \notin Codes(result)
             => \E h \in material : /\ awards[h].reasonCode = awards[i].reasonCode
                                    /\ awards[h].lost >= awards[j].lost
  <2>1. DOMAIN awards = 1 .. n /\ \A i \in 1 .. n : awards[i].lost \in Nat
    BY <1>3
  <2> HIDE DEF awards
  <2>2. Discloses(DiscloseReasonCodes(codes, awards, Policies[v]), codes, awards, Policies[v])
    BY <1>1, <1>5, <2>1, DisclosedAre
  <2>3. Discloses(result, codes, awards, policy)
    BY <1>5, <2>2
  <2> HIDE DEF result, policy
  <2> QED BY <2>3, Zenon DEF Discloses, material, reasons
<1>7. /\ material \subseteq 1 .. n
      /\ material = {i \in 1 .. n : awards[i].lost >= policy.materialPointsLost}
  <2> HIDE DEF awards, policy
  <2> QED BY <1>3 DEF Material
<1>8. /\ \A i \in 1 .. n : awards[i].reasonCode \notin Codes(codes)
      /\ \A i, j \in 1 .. n : awards[i].reasonCode = awards[j].reasonCode => i = j
  <2> HIDE DEF awards, policy
  <2> QED BY <1>2, <1>3, <1>5 DEF CodesApart
<1>9. ASSUME row.dti # None PROVE reasons \subseteq Codes(result)
  <2>1. Cardinality(material) < policy.maxDisclosed /\ Len(codes) <= 1
    BY <1>1, <1>2, <1>4, <1>9, RoomIsLeft
  <2>2. policy.maxDisclosed \in Nat
    BY <1>1, PolicyAt
  <2>3. IsFiniteSet(material)
    <3>1. IsFiniteSet(1 .. n)
      BY FS_Interval
    <3> HIDE DEF material
    <3> QED BY <1>7, <3>1, FS_Subset
  <2>4. Cardinality(material) \in Nat /\ Len(codes) \in Nat
    BY <1>5, <2>3, FS_CardinalityType DEF IsList
  <2> HIDE DEF material, policy, result
  <2>5. Len(codes) + Cardinality(material) <= policy.maxDisclosed
    BY <2>1, <2>2, <2>4
  <2> QED BY <1>6, <2>5
<1> DEFINE shown == {i \in 1 .. n : awards[i].reasonCode \in Codes(result)}
           hidden == {i \in (1 .. n) \ shown : awards[i].lost >= policy.materialPointsLost}
<1> HIDE DEF awards, policy, result
<1>10. row.dti # None => hidden = {}
  BY <1>7, <1>9
<1>11. ASSUME NEW i \in shown, NEW j \in hidden PROVE awards[i].lost >= awards[j].lost
  <2>1. i \in 1 .. n /\ awards[i].reasonCode \in Codes(result) \ Codes(codes)
    BY <1>8
  <2>2. PICK k \in material : awards[k].reasonCode = awards[i].reasonCode
    BY <1>6, <2>1
  <2>3. i \in material
    BY <1>7, <1>8, <2>1, <2>2
  <2>4. j \in material /\ awards[j].reasonCode \notin Codes(result)
    BY <1>7
  <2> HIDE DEF material
  <2>5. PICK h \in material : /\ awards[h].reasonCode = awards[i].reasonCode
                              /\ awards[h].lost >= awards[j].lost
    BY <1>6, <2>1, <2>3, <2>4
  <2>6. h = i
    BY <1>7, <1>8, <2>1, <2>5
  <2> QED BY <2>5, <2>6
<1> QED BY <1>3, <1>10, <1>11 DEF awards, policy, result

\* A decision that reached affordability discloses every material loss, and no
\* disclosed factor lost less than one that is left out. This for policies whose
\* factors have codes of their own, and whose scores leave room beside the losses.
THEOREM PrincipalReasonsDisclosedAlways ==
    ASSUME \A v \in Versions : CodesApart(Policies[v]) /\ RoomForReasons(Policies[v])
    PROVE  Spec => []PrincipalReasonsDisclosed
<1>1. ASSUME Inv, decision # None, decision.score # None
      PROVE  LET policy  == Policies[decision.policyVersion]
                 factors == Awards(decision.report.report, policy)
                 shown   == {i \in DOMAIN factors :
                                 factors[i].reasonCode \in Codes(decision.reasons)}
                 hidden  == {i \in DOMAIN factors \ shown :
                                 factors[i].lost >= policy.materialPointsLost}
             IN  /\ decision.dti # None => hidden = {}
                 /\ \A i \in shown, j \in hidden : factors[i].lost >= factors[j].lost
  <2>1. PICK a, row : a = application /\ row = decision
    OBVIOUS
  <2>2. /\ Reproduced(a, row) /\ a.body \in Bodies /\ row.score # None
        /\ row.policyVersion \in Versions
    BY <1>1, <2>1 DEF Inv, Decided, Reproduced, ApplicationOK
  <2>3. CodesApart(Policies[row.policyVersion]) /\ RoomForReasons(Policies[row.policyVersion])
    BY <2>2
  <2> QED BY <2>1, <2>2, <2>3, LargestAreShown
<1>2. Inv => PrincipalReasonsDisclosed
  BY <1>1 DEF PrincipalReasonsDisclosed, Disclosed, Codes, FactorsOf, TermsOf
<1> QED
  BY <1>2, InvAlways, PTL
=============================================================================
