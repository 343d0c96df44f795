# Loan pre-decision service: models, checks and proofs

The service takes a loan application over HTTP, pulls a credit report about the
applicant from a bureau, runs a pure decision engine over both and answers with
a verdict in the same request. Postgres is its only datastore and the only thing
its processes share. What is hard in it is duplication: every enquiry marks a
person's credit file, so retries, concurrent submissions, crashes and takeovers
must not multiply enquiries, applications or verdicts.

The modules here model the service from its source (`src/src/...`). TLC checks
them on small instances, TLAPS proves the results that matter most for every
instance, and three runs exhibit places where the code does not keep what the
documents say of it.

## The system

| Component | State | Operations | Interacts with |
|---|---|---|---|
| Submission (`services/application-service.ts`) | per request: its clock, application, lookup, verdict | `submit`: claim the key, insert or resume, screen, look up, decide, close in one transaction, recover from a lost verdict | every row below, the gateway, the engine |
| Idempotency keys (`db/idempotency.ts`) | one row per (client, scope, key): state, fingerprint, lease, expiry, application, body | claim or take over, look, complete | submission, sweeper |
| Applications, verdicts (`db/applications.ts`, `db/pre-decisions.ts`) | status; at most one verdict per application | insert with the key, set status, insert verdict | submission, sweeper, reviews |
| Bureau gateway (`bureau/gateway.ts`, `db/bureau-reports.ts`) | one claim row per (subject, provider); the reports | `getReport`: reuse, claim, record, ask, store or release, wait | submission, bureau call, sweeper |
| Bureau call (`bureau/resilience.ts`, `bureau/provider.ts`) | attempts of one pull | time out, retry, give up | gateway |
| Engine (`domain/engine.ts`, `scorecard.ts`, `money.ts`, `reason-codes.ts`) | none | `screen`, `decide` | submission, replay |
| Policy (`domain/policy.ts`, `policy/loader.ts`) | files, cached per version | load and validate | engine, replay |
| Audit chain (`db/audit.ts`) | one hash-linked list per application | append, read, verify | everything that changes an application |
| Replay (`services/audit-service.ts`) | none | recompute a verdict from what is stored | engine, policy |
| Reviews (`services/review-service.ts`, `db/reviews.ts`) | one row per referred application | open, close | submission, status |
| Status (`services/envelope.ts`) | none | compose an answer from several reads | applications, verdicts, reviews |
| Sweeper (`services/sweeper.ts`) | a timer | abandon orphans with their keys, purge keys, purge claims | applications, keys, claims |
| Migrations (`db/migrate.ts`), boot (`index.ts`) | a ledger under an advisory lock | migrate, load the policy, serve, shut down | the schema |
| HTTP edge (`http/*`), mock bureau, configuration, metrics | none that matters between requests | parse, authenticate, render | submission |

The behaviours that are hard to test, each at its line and with the properties
that watch it, are the `hazards` of `PROJECT.json`. The main ones: two
statements where one decision is taken (reuse, then claim; read, then close);
leases compared with a clock that was read long before; holders that are slow
and not dead; a crash between any two steps; a sweeper that works beside live
requests; two requests racing for one verdict.

## The modules

| Module | What it is |
|---|---|
| `OneEnquiry` | the promise to the subject: an enquiry starts only while none is under way and no valid report exists |
| `BureauGateway` | `getReport` for one (subject, provider), statement by statement |
| `BureauGatewayProofs` | theorems about it |
| `Lifecycle` | the promise about an application: the state machine of `docs/01` section 4 |
| `Submission` | `submit`, the reviewers and the sweeper, for one idempotency key |
| `SubmissionProofs` | theorems about it that need nothing of timing, and the refinement of `Lifecycle` |
| `SubmissionKeyProofs` | theorems about the key, its applications and their trails, each under the timing it needs |
| `AuditLog` | the promise of a trail: a log to which only whole transactions are appended |
| `AuditChain` | `db/audit.ts` for one application, statement by statement, under every writer at once, and its verifier |
| `AuditChainProofs` | theorems about it |
| `LogicalPull` | the promise of one pull: one enquiry on the file, one ending told |
| `BureauPull` | `pullWithResilience` around the provider: attempts, timers, abandoned calls, pauses |
| `BureauPullProofs` | theorems about it |
| `StatusReads` | the status call, read by read, and the call that closes a review, beside everything that writes their rows |
| `StatusReadsProofs` | theorems about it |
| `SchemaHistory` | the promise about the schema: whole images, each file once, in order |
| `Boot` | `index.ts` and `runMigrations` of several instances and of the migration command, on one database |
| `BootProofs` | theorems about it |
| `Money`, `Calendar` | the arithmetic of `money.ts` in exact fractions; the dates of `engine.ts` |
| `Engine` | `screen`, `decide`, the scorecard, the completeness gate and the reason codes, and what makes a policy file coherent |
| `Decisions` | one application from submission to decision and long after: `submit` around the engine, the row of `pre_decisions`, its rendering and its replay, while days pass and policies are deployed |
| `DecisionsProofs` | theorems about it |
| `MCBureauGateway`, `MCSubmission`, `MCAuditChain`, `MCDecisions`, `MCStatusReads`, `MCBoot` | symmetry and instance constants for TLC |

### How a model corresponds to the code

Every statement of the code that touches the claim or the reports is keyed by
(subject, provider), and every one that touches an idempotency key by (client,
scope, key). So one instance of `BureauGateway` is one such subject and one
instance of `Submission` is one such key; several keys or subjects share nothing.

One action is one database statement or one transaction, because that is where
other processes can come in between. The closing transaction, the sweeper's and
the reviewer's are one step each: they meet on the row of the application, on a
primary key, or on a conditional update, and Postgres rolls the whole of one of
them back. `Crash` stands for the death of the process and for any statement
that fails where the code has no handler; it may happen between any two steps
and forgets what the request held in memory.

In `AuditChain` that closing transaction is opened up: `Begin` takes the row lock,
`ReadTail` and `Insert` are the two statements of `appendAuditEvent`, and a
writer without a transaction (`BUREAU_PULL_REQUESTED`, which has to be on record
before the pull) inserts on its own, `InsertBare`. Canonical JSON and SHA-256 are
one injective operator, `Hash`. The chain starts after index 0, which is written
with the application itself.

Time is a counter of ticks that advances on its own. A request reads it once,
when it arrives, as `submit` does (`clock()` at its first line), and carries
that value into every lease and every comparison, as the code does; the waits of
the gateway read it afresh, as the code does. How slow a request may be is one
constant, `HoldBound`: the most ticks between reading its clock and its last
write. With `HoldBound` at most the lease, every holder is *timely*; above it, a
holder may stall past its lease and be taken over while alive. The configuration
(`config.ts`, `superRefine`) enforces a lease longer than the worst case of a
pull, not of everything else a request does, so both cases are checked and each
theorem says which it needs.

`SweepRaces` says whether the sweeper may reach an application that a live
request works on. FALSE is an assumption the code does not enforce: fifteen
minutes against a request of seconds make it likely, and a retry that resumes an
orphan at the fifteenth minute breaks it (`AbandonedTerminal` below).

`BureauPull` opens up what `BureauGateway` has as one step, `Ask`, and then an
answer or a failure. The two sides of a call are separate: `remote` is what became
of it at the bureau, `heard` what the loop made of it. A timer that fires abandons
the call where it is, so the bureau may receive it, mark the file and answer
later, also after the pull has returned. A timer may be `Lag` ticks late. The
bureau is external: it promises nothing but to take a repeated request id for the
same enquiry, which is what `provider.ts` says of it.

`StatusReads` has the rows of one application and every caller's request with what
it has read so far. Each `await` of `buildStatus` and `buildEnvelope` is an action;
between two of them anybody may write. What else the service does is one
transaction at a time: `Receive`, `Decide`, `Abandon`, as `Submission` has them.

In `Boot` an image is a function from file numbers to contents, so a file that was
edited is the same number with other contents. The lock, the ledger and the open
transaction are those of PostgreSQL: killing a process rolls its transaction back
and frees its lock. `schema` is the history of what took effect; `ledger` is the
table, and nothing in the model keeps the two together but the transaction.

In `BureauGateway`, `Submission` and `AuditChain` bodies, names and payloads are model values or left out. A
report is named after the request that pulled it, an application after the
request that inserted it.

`Decisions` keeps the data the others abstract and drops the races they are
about: one request works at a time, the gateway is whatever lookup it may
return, and a row of `pre_decisions` is a record that the constraints of the
migrations take or refuse (`Storable`). A request holds its policy and its row
from one step to the next, and between any two steps the process may die, a day
may pass and another version may be deployed. The clock counts days, so a
consent is as old as its date; the skew of seconds is left out. The engine reads no
clock: it is given the date of submission.

A `Decimal` is an exact fraction in `Money`, where the code keeps 28 digits; a rate
is the monthly fraction; a ratio is an integer of ten-thousandths, the resolution
at which the code rounds before it compares. `Gap` is `undefined` and `None` is
`null`, which the code tells apart. `Alphabetical` gives the order of
`localeCompare`. What `policySchema` accepts is the operator `Coherent`, assumed of
every policy and evaluated on those of the instance. Two assumptions are not the
schema's: a positive minimum income (`IncomesPositive`; with 0 an applicant
without income makes `debtToIncome` throw), and names that match contents
(`VersionsAgree`, which the loader enforces).

## The runs

| Run | Instance | What it shows |
|---|---|---|
| `GatewayTimely` | 3 requests, lease 2, TTL 3, every fault | refinement of `OneEnquiry` (so one holder, and no enquiry beside a valid report), fresh evidence |
| `GatewayLive` | 2 requests that stall to 3 ticks under a lease of 1, two attempts, every fault, claims purged | waiters' conclusions stay true when enquiries overlap; every call returns |
| `SubmissionTimely` | 3 requests, one with another body, crashes, reviews, sweeps, purges | one application per key, the key tells its answer, nobody is answered about another body or told of one that never came, ordered trails, refinement of `Lifecycle` |
| `SubmissionLive` | 2 requests that stall under a lease of 0, a racing sweeper, keys that expire after a tick | verdict, status, trail and review agree, answers are the stored verdict; no application stays RECEIVED, no key names one for ever, no kept answer stays for ever, every submit returns |
| `ChainRaces` | a closing transaction with three events, a sweep, two bare appends, aborts anywhere; one row edited or deleted behind the trigger at any moment | verifiable until then, the damage named ever after (when an append in flight refills the hole of a deleted row, the row after it); refinement of `AuditLog`; only bare appends lose an index; nobody waits for ever on the lock or on an uncommitted index |
| `PullAttempts` | 3 attempts, timeout 1, pauses below 4, lease 12, timers up to a tick late, a bureau that answers, fails, hangs or answers too late | refinement of `LogicalPull`: one mark, one ending; only failures are retried and told; the lease suffices; every pull returns |
| `Decisions` | ten applications, two policies, a month's end with 29 February, the scorecard of `policies/2026.09.1.json` with a value inside every band, a gap in each attribute, all outcomes | replay finds no difference, whatever is deployed; nobody is asked about in vain; offers keep the limit and asking for less never hurts; reasons are the largest losses; gaps are referred; every row is stored but one kind |
| `StatusReads` | 1 client that polls for ever, 2 reviewers who may call again, statements and acknowledgements lost | what anyone was told stays true, no part of an answer is older than the part before it, a later answer is never behind an earlier one |
| `Boot` | a service of a release (files 1, 2, 3), one of an image in which file 2 was edited (1, 2), the migration command of a branch (1, 3), killed and restarted anywhere | who is up finds its own schema; the schema has a history of whole images; every boot ends in a service or in an exit with a reason |

`Decisions` needs one application at a time: two share no row, and the engine is
a function of one. Its bodies fall on both sides of every rule of the screen and
of affordability, its reports into every band; money is scaled to TLC's 32-bit
integers (a loan of two months at a tenth a month), and the products of the
annuity stay exact. One body, stretched to a counter-offer, meets all 300
combinations of awards; the others meet the gaps and the blemishes.

Three requests are enough for the races the code speaks of: a holder, the one
that takes over, and a third that takes over again or meets the leftovers. The
clock runs far enough for a lease to lapse, a report to expire, a key to pass
its retention and a sweep to follow, in that order and in others; `LastArrival`
and `LastTick` bound it, and no request arrives so late that its lease, wait and
retention do not fit. Deadlock is not checked: a system whose requests have all
returned and whose clock has stopped may stop. `StatusReads` and `Boot` have no
clock and no end, so deadlock is checked there.

One client is enough for `StatusReads`, since readers write nothing, and two
reviewers for its only race of writers. In `Boot` three images meet in any order:
one that has what another lacks, one that is a part of another, and one that
contradicts it. An instance that leaves migrations to others
(`MIGRATE_ON_BOOT=false`) skips them and is up on whatever schema it finds;
nothing is claimed for it, the run leaves it out and the theorem does not.

### Fairness

The runs of the gateway and of submissions assume weak fairness of the clock, of
each request's own steps, of each sweep and each purge. The code justifies it:
continuations and timers of a live process run, every provider call is bounded by
its timeout, and the sweeper's interval survives a failing sweep (`sweeper.ts`,
`start`). One thing in `sweepOnce` weakens it: an orphan whose transaction throws
ends the whole pass, and as the oldest come first, one that throws every time
holds up those after it. Nothing in the model throws every time.

`PullAttempts` assumes the loop and its timers, and nothing of the bureau.
`ChainRaces` assumes that transactions proceed and that PostgreSQL grants its
waits. `Boot` assumes that a process that runs goes on running (`WF` of `Run`) and
that the advisory lock is granted in the order in which it is asked for (`SF` of
`TakeLock`: a waiter is not passed over for ever).

Nothing is assumed of callers (nobody is forced to retry), of reviewers, of the
platform, or of faults: a crash is never forced, and no property relies on one.

### Where the code and its documents differ

| Run | What happens |
|---|---|
| `WaitExpiredInOutage` | the read after a waiter's deadline looks for DONE only; a claim that has gone FAILED since the last poll is recorded as WAIT_EXPIRED |
| `AbandonedTerminal` | the closing transaction sets the status unconditionally, so an application abandoned by the sweeper comes back with a verdict |
| `TwoApplications` | a holder that stalls before inserting makes a second application for its key |

`findings` in `PROJECT.json` quotes the lines. The run `Decisions` passes with a
property that says where a promise ends: `OnlyTheRatioIsRefused`. A decline whose
obligations are a hundred times the income, which no schema excludes, does not fit
`numeric(6, 4)`; the closing transaction fails, the caller gets a 500 on every
retry, and the application is abandoned where `docs/03` section 2 has it
`DECLINED` with `DTI_ABOVE_LIMIT`. Also met while modelling, and present in
the models, without a run of their own: a failed audit append after the claim
leaves it IN_FLIGHT with nobody working under it, so a waiter can record
WAIT_EXPIRED behind a winner that is gone (`gateway.ts:217`, `docs/06`: "The
winner is alive"); a key whose holder died before inserting stays IN_PROGRESS
for ever, because the purge skips such rows (`sweeper.ts:113`); a completed key
past its retention is replayed until the sweeper comes by (`docs/07`: "Treated as
fresh"); and the age of the consent is checked before the key is looked at, so a
retry a day later is refused as stale although its answer is stored
(`application-service.ts:177`).

`StatusReads` shows which torn answers exist, by what its properties leave out. The
outcome is composed from a second read of the review (`envelope.ts:192`), so an
answer may say `review.state: PENDING` beside `outcome.source: REVIEWER`; and the
status is read first, so an answer may say `RECEIVED` beside a verdict
(`schemas.ts:160` has `preDecision` null in that status and does not require it). A
reviewer whose commit succeeded and whose acknowledgement was lost gets
`REVIEW_ALREADY_CLOSED` from the retry, about its own closing. `docs/05-api.md:617`
calls the status call the only endpoint that computes `outcome`; closing a review
computes one too (`review-service.ts:76`).

`BureauPull` has the pauses of the code, uniform below one base
(`resilience.ts:98`), where `docs/02-idempotency.md:323` has an exponential backoff
and a `Retry-After` that is honoured; under the documented one the lease that
`config.ts` accepts would not suffice, which is the mutant of `InsideTheLease`. That
lease is counted by `submit` from its own first line, and `config.ts` compares it
with the time of a pull only; neither `IDEMPOTENCY_LEASE_SECONDS` nor
`ORPHAN_SWEEP_AFTER_MINUTES` is compared with it at all. `HoldBound` and
`SweepRaces` stand for these gaps. Outside the models, and for completeness:
`docs/06-failure-modes.md:29` has callers answered 503 while PostgreSQL is
unreachable, and `translate` (`server.ts`) makes that a 500 for all but
`/health/ready`; and every 409 carries `Retry-After` (`routes.ts:289`), also
`REVIEW_ALREADY_CLOSED`, which no retry will change.

## The proofs

Eight modules hold theorems, for every number of requests, writers, callers and
instances, every lease, TTL, budget, image, policy, application and report. Each
module's type invariant is among them. A theorem that needs more than the constants'
assumptions says so in its statement, and the table has what.

| Theorems | Besides the module's assumptions |
|---|---|
| `AnswerIsTheDecision`, `DecisionIsWhole`, `MismatchIsReal` | nothing: any stall, any sweep |
| `FingerprintRespected` | `OutlivesRequests`: an answer is kept at least twice as long as a request may run |
| `ImplementsLifecycle` | the sweeper keeps off live applications |
| `KeyTellsItsAnswer`, `TrailInOrder` | `Orderly`: that, and requests end inside their lease |
| `OneApplicationPerKey` | `Orderly` and `Patient`: nothing is swept before a request may have ended |
| the refinement of `OneEnquiry` | holders end inside their lease; for `FreshEvidence` also `ReportsOutliveLeases` |
| `CauseIsReal`, `WaitExpiredOnlyWithoutReport` | nothing |
| all of `AuditChain`, `BureauPull`, `StatusReads`, `Boot` | nothing |
| `TypeOK`, `ReplayMatches`, `EnquiryIsWarranted`, `EnvelopeAgrees`, `AskingLessNeverHurts` of `Decisions` | nothing |
| `OfferIsAffordable` | `ExactLimit` |
| `GapIsReferred` | `EvidenceRequired` |
| `OnlyTheRatioIsRefused` | `ScoresFit` and `LowScoresExplained` |
| `PrincipalReasonsDisclosed` | `CodesApart` and `RoomForReasons` |

**The gateway.** `OneHolder` is not inductive: it needs that whoever holds the
claim owns the row under a lease granted from its own clock, that this clock is
at most `HoldBound` behind the time, and that a valid report keeps the claim row
closed under a lease that outlives it. `IInv` is that strengthening; with it,
under `Timely`, one holder, no enquiry beside a report and the refinement of
`OneEnquiry` follow. `FreshEvidence` adds that a report outlives the lease of
the claim that names it (`ReportsOutliveLeases`: TTL at least the lease, 15
minutes against 5 seconds by default).

**Submissions.** `AnswerIsTheDecision` needs that a completed key's body agrees
with the stored verdict (`KeyIsTrue`), that verdicts are never replaced and that
requests in memory hold applications that exist; `DecisionIsWhole` adds that the
events of a trail tell the verdict (`TrailTellsTheDecision`), by counting
occurrences under append. The refinement of `Lifecycle` rests on nobody holding an
abandoned application (`NobodyHoldsTheDead`).

What a key may do to its callers is five invariants, each on top of the one
before. `ClockInv` orders the clocks: a key's expiry and lease come from the clock
of a request that is at most `HoldBound` old, so a foreign body, or a purge that
lets a second body in, has left its mark. `BodyInv` says that the application a key
names, and the one a request holds, has the body the key was claimed with; a key that
was purged and claimed again is younger than every request that could still hold its
past, which is where `OutlivesRequests` is used. `OwnerInv` says that only the owner
of a running lease has still to insert or close, and `SingleInv` that of two
applications the older is settled by the sweep or by the purge; `TrailInv` that
nothing has closed what somebody is still to close. `TwoApplications` and
`AbandonedTerminal` are what happens without `Orderly`.

**The audit chain.** Until somebody edits the table, every committed prefix, extended
by the rows its lock holder has not committed, is linked from the genesis hash, and so
the verifier, which recomputes what the appends computed, finds nothing
(`ChainVerifies`). `IInv` adds that a reader's tail is still the end of what it will
extend, or else its index is taken, so the primary key refuses it. From there:
a refused writer that held the row lock was refused by an append that did not
(`OnlyBareAppendsRefuse`); the committed rows, read as a list of writers, grow by one
whole batch at a time (`KeepsLog`, the refinement of `AuditLog`); and after an edit
(`EditIsFound`) the rows below the damage stay linked, the damaged place stays
damaged, and whatever is appended later lies above it (`Side`, `Harm`), so the least
broken position is the damaged one, or the row after a hole that was refilled.

**The pull.** `BureauPullProofs` proves the safety of the retry loop and its
refinement of `LogicalPull`. `Inductive` says that every call carries the one id
(`OneId`), that each attempt before the current one failed (`Failed`), and where the
clock is at most after so many rounds (`Paced`); `InsideTheLease` is then the
arithmetic of `config.ts` with one `Lag` for every timer.

**The status call.** `IInv` has a part about the rows (`RowsAgree`), one about each
request under way (what it holds is behind the rows, each part behind the next:
`HeldIsBehind`) and three about each answer (`ToldTrue`, `ToldBehind`,
`ToldBeforeHeld`: what was told is behind what is held, which is behind the rows).
Rows only advance (`RowsAdvance`), so a caller that takes no part in a step keeps all
of it (`Bystander`). `AnswersNeverGoBack` follows from the same invariant, step by
step.

**Boot.** `ServesItsSchema`, and that nobody meets a row of the ledger that was not
there when it read it (`NobodyConflicts`). `IInv` says who holds the lock (`Locked`),
that the holder knows the ledger and that all it has passed is known or pending
(`HolderKnows`), and that nobody else has anything pending (`NothingLeft`). The
refinement of `SchemaHistory` (`KeepsHistory`) adds `HistInv`: the ledger is what the
schema is made of, with one content under a name, and an open transaction has applied
files the ledger lacks, in order, ahead of all those to come. So what a commit adds is
exactly what the image had missing, counted by a bijection, and a service that finds
nothing to do commits a stutter.

**Decisions.** All nine invariants of the run are theorems. None of them is inductive:
they speak of the decision, which is copied from a row that a request computed
earlier, maybe under a deployment and on a day that are gone. `Inv` says of that row
already that the engine concludes it from itself (`Reproduced`), and of a request that
is about to pull that its application passed the screen under the version it holds
(`Screened`). From there every proof is about the engine:

- *Replay and the screen*: a stored answer reads back as the answer
  (`AnswerReadsBack`), the row of a knockout needs no answer, and `ageAt` counts
  birthdays (`AgeCountsBirthdays`, on integers, for every date).
- *The score*: the points awarded lie between 0 and `maxPoints` (`ScoreBounds`), so a
  band means what it says (`EnvelopeAgrees`), and a score below the referral band has
  a material loss (`LowScoreHasLoss`), so a decline by score has a reason.
- *Money*: `PrincipalFits` says that `MaxPrincipal` is the largest whole step whose
  exact instalment fits; `FittingIsWithin` that what fits stays within the limit after
  both roundings, when a ten-thousandth of the income is at least one minor unit;
  `LessIsAffordedToo` that the rounded ratio is monotone in the amount.
- *Reasons*: `ByLossOrders` and `ByRankOrders` are strict orders, so the sorts are
  permutations; `DistinctIs` that dropping repetitions keeps first occurrences in
  order; `DisclosedAre` that the deciding codes lead, nothing is invented, and what is
  cut off lost no more than what is shown (`Discloses`).

The library's induction theorems take an operator as a parameter, which the provers
cannot instantiate. Where a sum or an order needs induction, it is on a set: the
least element of the set of counterexamples (`WFMin`) contradicts itself. So the
engine sums with the folds of the community modules, and `Array.prototype.sort` is
stated by what it does: the sequence in the order of a strict total order on
positions, with ties left in place (`InOrder`, `Stable`).

The four hypotheses about policies are what the code leaves to whoever writes one:
`policy.ts` checks none of them. The instance's policies satisfy all but one, which
`MCDecisions` assumes and TLC evaluates: `Careful` for both, `ExactLimit` for the
shipped one. The second policy has smaller incomes; TLC finds `OfferIsAffordable` for
the applications it meets, and the proof shows why not for all: below 10000 minor
units of income the half minor unit by which an instalment is rounded up is more than
half a ten-thousandth of the income, so the ratio of an offer that fits exactly may
round to one step above the limit. The shipped minimum is 200000.

Some theorems state what no run checks on its own, because another property of a
run implies it: `OneHolder` and `NoEnquiryBesideReport` (the refinement of
`OneEnquiry`), `MarkedOnce` (that of `LogicalPull`), `Linked` (`ChainVerifies`),
`CauseIsReal`, and the type invariants.

TLC alone checks liveness (fairness and ENABLED are beyond the prover) and the
counterexamples.

## Plan

Every component that keeps state is modelled, checked and proved about, and every
invariant of a passing run is a theorem. What is left, in this order:

1. The attestation in `Submission`: its check ahead of the key, and what a late
   retry is told (`docs/02` section 3).
2. The connections of a pool as a resource: how long a request may wait for one.

## Not modelled

The HTTP edge (parsing, authentication, schemas, rendering of problems and of the
OpenAPI document) keeps nothing between requests, and what reaches the services is
enumerated in their models. The mock bureau's catalogue is test data; the hash of a
subject identifier and the normalisation of a national id are pure functions of
strings; metrics and logs are never read back. A pool's connections and the wait
for one are left out: no transaction asks for a second connection while it holds
one, so they bound throughput and cannot close a circle. The loader's cache of
policies holds files that do not change under their version, which
`VersionsAgree` assumes.
