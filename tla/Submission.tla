----------------------------- MODULE Submission -----------------------------
(***************************************************************************)
(* Submissions under ONE idempotency key, with the applications, verdicts, *)
(* reviews and audit trails they leave, the reviewers and the sweeper.     *)
(* The key table is keyed by (client, scope, key), so one instance of this *)
(* module is one such key; an application is named after the request that  *)
(* inserted it, which inserts at most one.                                 *)
(*                                                                         *)
(* Each database transaction is one step: those that touch an application  *)
(* meet on its row lock or on a primary key.  What the gateway does for    *)
(* the report is BureauGateway's matter; here the lookup may take any time *)
(* and answer anything.                                                    *)
(***************************************************************************)
EXTENDS Integers, Sequences, FiniteSets

CONSTANTS
    Requests,    \* POST requests carrying the key
    BodyOf,      \* the request body of each, by its fingerprint
    NoApp,       \* stands for a NULL application_id
    KeyLease,    \* IDEMPOTENCY_LEASE_SECONDS, in ticks
    Retention,   \* IDEMPOTENCY_RETENTION_HOURS, in ticks
    SweepAfter,  \* ORPHAN_SWEEP_AFTER_MINUTES, in ticks
    HoldBound,   \* most ticks a request may take; above KeyLease it may stall
    SweepRaces,  \* whether the sweeper may reach an application in use
    LastArrival, \* bound: no request starts after this tick
    LastTick     \* bound: the clock stops here

ASSUME SubmissionConstants ==
    /\ NoApp \notin Requests
    /\ KeyLease \in Nat /\ Retention \in Nat /\ SweepAfter \in Nat
    /\ HoldBound \in Nat /\ LastArrival \in Nat /\ LastTick \in Nat
    /\ SweepRaces \in BOOLEAN

VARIABLES
    time,
    key,       \* the row of idempotency_keys, or NoKey
    status,    \* applications.status
    submitted, \* applications.submitted_at
    hopeless,  \* whether screening knocks the application out
    decision,  \* pre_decisions.verdict
    outcome,   \* reviews: the outcome a human recorded
    trail,     \* audit_events, in chain order
    pc,        \* where each request is in submit
    now,       \* the clock the submission read
    app,       \* the application a request works on
    seen,      \* the status in the application record a request holds
    found,     \* what the lookup came back with
    verdict,   \* what the engine made of it
    reply      \* what the caller was told

vars == <<time, key, status, submitted, hopeless, decision, outcome, trail,
          pc, now, app, seen, found, verdict, reply>>

rows == <<status, submitted, hopeless, decision, outcome, trail>>
local == <<now, app, seen, found, verdict>>

-----------------------------------------------------------------------------
(***************************************************************************)
(* Rows and values.                                                        *)
(***************************************************************************)
Verdicts == {"APPROVED", "DECLINED", "MANUAL_REVIEW"}
Outcomes == {"APPROVED", "DECLINED"}
Statuses == {"RECEIVED", "PRE_DECIDED", "IN_REVIEW", "REVIEW_CLOSED", "ABANDONED"}
ReviewStates == {"none", "PENDING", "CLOSED"}
Events == {"APPLICATION_RECEIVED", "BUREAU_PULL_REQUESTED", "SCREENING_FAILED",
           "BUREAU_UNAVAILABLE", "BUREAU_REPORT_ATTACHED", "PRE_DECISION_MADE",
           "REVIEW_OPENED", "REVIEW_CLOSED", "APPLICATION_ABANDONED"}

\* The response body, as far as the properties tell bodies apart.
Envelopes == [app : Requests, status : Statuses, verdict : Verdicts, review : ReviewStates]
NoBody == [app |-> NoApp]

NoKey == [state |-> "ABSENT"]
Keys == [state : {"IN_PROGRESS", "COMPLETED", "ABANDONED"}, fingerprint : {BodyOf[r] : r \in Requests},
         lease : Nat, expires : Nat, app : Requests \cup {NoApp}, body : Envelopes \cup {NoBody}]

NoReply == [kind |-> "none"]
Failed == [kind |-> "error"]
Refused(why) == [kind |-> "refused", why |-> why]
Replayed(body) == [kind |-> "replayed", body |-> body]
Decided(body) == [kind |-> "decided", body |-> body]
Refusals == {"IN_PROGRESS", "FINGERPRINT_MISMATCH"}
Replies == {NoReply, Failed} \cup {Refused(w) : w \in Refusals}
               \cup [kind : {"replayed", "decided"}, body : Envelopes]

Active == {"claim", "peek", "persist", "resume", "lookup", "pulled", "close", "recover", "look"}

TypeOK ==
    /\ time \in Nat
    /\ key \in Keys \cup {NoKey}
    /\ status \in [Requests -> Statuses \cup {"ABSENT"}]
    /\ submitted \in [Requests -> Nat]
    /\ hopeless \in [Requests -> BOOLEAN]
    /\ decision \in [Requests -> Verdicts \cup {"none"}]
    /\ outcome \in [Requests -> Outcomes \cup {"none"}]
    /\ trail \in [Requests -> Seq(Events)]
    /\ pc \in [Requests -> Active \cup {"idle", "done"}]
    /\ now \in [Requests -> Nat]
    /\ app \in [Requests -> Requests \cup {NoApp}]
    /\ seen \in [Requests -> Statuses \cup {"ABSENT"}]
    /\ found \in [Requests -> {"none", "attached", "unavailable", "knockout"}]
    /\ verdict \in [Requests -> Verdicts \cup {"none"}]
    /\ reply \in [Requests -> Replies]

-----------------------------------------------------------------------------
(***************************************************************************)
(* Helpers.                                                                *)
(***************************************************************************)
Goto(r, stage) == pc' = [pc EXCEPT ![r] = stage]

\* The call returns, and what it held in memory is gone.
Answer(r, value) ==
    /\ Goto(r, "done")
    /\ reply' = [reply EXCEPT ![r] = value]
    /\ now' = [now EXCEPT ![r] = 0]
    /\ app' = [app EXCEPT ![r] = NoApp]
    /\ seen' = [seen EXCEPT ![r] = "ABSENT"]
    /\ found' = [found EXCEPT ![r] = "none"]
    /\ verdict' = [verdict EXCEPT ![r] = "none"]

\* A review row exists exactly for a referred application, and is closed once.
ReviewState(a) ==
    IF decision[a] # "MANUAL_REVIEW" THEN "none"
    ELSE IF outcome[a] = "none" THEN "PENDING" ELSE "CLOSED"

\* Mutant: the takeover does not compare fingerprints.
TakesOverAnyBody(r) ==
    \/ key.state = "ABANDONED"
    \/ key.state = "IN_PROGRESS" /\ key.lease < now[r]

\* The takeover predicate of claimKey, for a row that exists.
TakesOver(r) ==
    /\ key.fingerprint = BodyOf[r]
    /\ \/ key.state = "ABANDONED"
       \/ key.state = "IN_PROGRESS" /\ key.lease < now[r]

\* The row claimKey writes: an ABANDONED row forgets its application.
ClaimedRow(r, a) ==
    [state |-> "IN_PROGRESS", fingerprint |-> BodyOf[r], lease |-> now[r] + KeyLease,
     expires |-> now[r] + Retention, app |-> a, body |-> NoBody]

StatusFor(v) == IF v = "MANUAL_REVIEW" THEN "IN_REVIEW" ELSE "PRE_DECIDED"

\* Mutant: the verdict is recorded before what it rests on.
ClosingTrailVerdictFirst(how, v) ==
    <<"PRE_DECISION_MADE",
      CASE how = "knockout"    -> "SCREENING_FAILED"
        [] how = "unavailable" -> "BUREAU_UNAVAILABLE"
        [] how = "attached"    -> "BUREAU_REPORT_ATTACHED">>
        \o (IF v = "MANUAL_REVIEW" THEN <<"REVIEW_OPENED">> ELSE <<>>)

\* appendClosingTrail, and REVIEW_OPENED after it for a referral.
ClosingTrail(how, v) ==
    <<CASE how = "knockout"    -> "SCREENING_FAILED"
        [] how = "unavailable" -> "BUREAU_UNAVAILABLE"
        [] how = "attached"    -> "BUREAU_REPORT_ATTACHED",
      "PRE_DECISION_MADE">>
        \o (IF v = "MANUAL_REVIEW" THEN <<"REVIEW_OPENED">> ELSE <<>>)

-----------------------------------------------------------------------------
Init ==
    /\ time = 0
    /\ key = NoKey
    /\ status = [a \in Requests |-> "ABSENT"]
    /\ submitted = [a \in Requests |-> 0]
    /\ hopeless \in [Requests -> BOOLEAN]
    /\ decision = [a \in Requests |-> "none"]
    /\ outcome = [a \in Requests |-> "none"]
    /\ trail = [a \in Requests |-> <<>>]
    /\ pc = [r \in Requests |-> "idle"]
    /\ now = [r \in Requests |-> 0]
    /\ app = [r \in Requests |-> NoApp]
    /\ seen = [r \in Requests |-> "ABSENT"]
    /\ found = [r \in Requests |-> "none"]
    /\ verdict = [r \in Requests |-> "none"]
    /\ reply = [r \in Requests |-> NoReply]

Arrive(r) ==
    /\ pc[r] = "idle"
    /\ time <= LastArrival
    /\ now' = [now EXCEPT ![r] = time]
    /\ Goto(r, "claim")
    /\ UNCHANGED <<time, key, rows, app, seen, found, verdict, reply>>

\* STARTED: the key is new, was abandoned, or its holder died with nothing stored.
ClaimStarted(r) ==
    /\ pc[r] = "claim"
    /\ \/ key = NoKey
       \/ key # NoKey /\ TakesOver(r) /\ (key.state = "ABANDONED" \/ key.app = NoApp)
    /\ key' = ClaimedRow(r, NoApp)
    /\ Goto(r, "persist")
    /\ UNCHANGED <<time, rows, local, reply>>

\* RESUMED: the holder died after inserting; its application is continued.
ClaimResumed(r) ==
    /\ pc[r] = "claim"
    /\ key # NoKey
    /\ TakesOver(r)
    /\ key.state = "IN_PROGRESS" /\ key.app # NoApp
    /\ key' = ClaimedRow(r, key.app)
    /\ app' = [app EXCEPT ![r] = key.app]
    /\ Goto(r, "resume")
    /\ UNCHANGED <<time, rows, now, seen, found, verdict, reply>>

\* The upsert returned nothing; a second statement looks at the row.
ClaimRefused(r) ==
    /\ pc[r] = "claim"
    /\ key # NoKey
    /\ ~TakesOver(r)
    /\ Goto(r, "peek")
    /\ UNCHANGED <<time, key, rows, local, reply>>

\* What the second statement finds may differ from what the upsert met.
Peek(r) ==
    /\ pc[r] = "peek"
    /\ Answer(r, IF key = NoKey THEN Refused("FINGERPRINT_MISMATCH")
                 ELSE IF key.fingerprint # BodyOf[r] THEN Refused("FINGERPRINT_MISMATCH")
                 ELSE IF key.state = "COMPLETED" THEN Replayed(key.body)
                 ELSE Refused("IN_PROGRESS"))
    /\ UNCHANGED <<time, key, rows>>

\* Mutant: the key row does not learn the application's id.
PersistUnlinked(r) ==
    /\ pc[r] = "persist"
    /\ status' = [status EXCEPT ![r] = "RECEIVED"]
    /\ submitted' = [submitted EXCEPT ![r] = now[r]]
    /\ trail' = [trail EXCEPT ![r] = <<"APPLICATION_RECEIVED">>]
    /\ app' = [app EXCEPT ![r] = r]
    /\ seen' = [seen EXCEPT ![r] = "RECEIVED"]
    /\ Goto(r, "lookup")
    /\ UNCHANGED <<time, key, hopeless, decision, outcome, now, found, verdict, reply>>

\* One transaction inserts the application, points the key at it, whoever holds
\* the key by now, and opens the trail.
Persist(r) ==
    /\ pc[r] = "persist"
    /\ status' = [status EXCEPT ![r] = "RECEIVED"]
    /\ submitted' = [submitted EXCEPT ![r] = now[r]]
    /\ trail' = [trail EXCEPT ![r] = <<"APPLICATION_RECEIVED">>]
    /\ key' = IF key = NoKey THEN NoKey ELSE [key EXCEPT !.app = r]
    /\ app' = [app EXCEPT ![r] = r]
    /\ seen' = [seen EXCEPT ![r] = "RECEIVED"]
    /\ Goto(r, "lookup")
    /\ UNCHANGED <<time, hopeless, decision, outcome, now, found, verdict, reply>>

\* A resume, and a recovery after a duplicate verdict, read the application ...
ReadApplication(r) ==
    /\ pc[r] \in {"resume", "recover"}
    /\ seen' = [seen EXCEPT ![r] = status[app[r]]]
    /\ Goto(r, "look")
    /\ UNCHANGED <<time, key, rows, now, app, found, verdict, reply>>

\* ... and then its verdict and review: the envelope mixes the two reads.
Look(r) ==
    /\ pc[r] = "look"
    /\ IF decision[app[r]] = "none"
       THEN Goto(r, "lookup") /\ UNCHANGED <<local, reply>>
       ELSE Answer(r, Decided([app |-> app[r], status |-> seen[r],
                               verdict |-> decision[app[r]], review |-> ReviewState(app[r])]))
    /\ UNCHANGED <<time, key, rows>>

\* Screening knocks the application out: no bureau call.
Knockout(r) ==
    /\ pc[r] = "lookup"
    /\ hopeless[app[r]]
    /\ found' = [found EXCEPT ![r] = "knockout"]
    /\ verdict' = [verdict EXCEPT ![r] = "DECLINED"]
    /\ Goto(r, "close")
    /\ UNCHANGED <<time, key, rows, now, app, seen, reply>>

\* The gateway's winner appends the event before it asks, in a transaction of its own.
PullRequested(r) ==
    /\ pc[r] = "lookup"
    /\ ~hopeless[app[r]]
    /\ trail' = [trail EXCEPT ![app[r]] = Append(@, "BUREAU_PULL_REQUESTED")]
    /\ Goto(r, "pulled")
    /\ UNCHANGED <<time, key, status, submitted, hopeless, decision, outcome, local, reply>>

\* A report, own or reused, lets the engine decide; without one it refers.
LookupReturns(r) ==
    /\ \/ pc[r] = "pulled"
       \/ pc[r] = "lookup" /\ ~hopeless[app[r]]
    /\ \E v \in Verdicts :
          /\ verdict' = [verdict EXCEPT ![r] = v]
          /\ \/ found' = [found EXCEPT ![r] = "attached"]
             \/ v = "MANUAL_REVIEW" /\ found' = [found EXCEPT ![r] = "unavailable"]
    /\ Goto(r, "close")
    /\ UNCHANGED <<time, key, rows, now, app, seen, reply>>

\* Mutant: the envelope is built from the record the request still holds.
CloseSubmissionStaleBody(r) ==
    /\ pc[r] = "close"
    /\ decision[app[r]] = "none"
    /\ LET a == app[r]
           v == verdict[r]
           body == [app |-> a, status |-> seen[r], verdict |-> v,
                    review |-> IF v = "MANUAL_REVIEW" THEN "PENDING" ELSE "none"]
       IN /\ decision' = [decision EXCEPT ![a] = v]
          /\ status' = [status EXCEPT ![a] = StatusFor(v)]
          /\ trail' = [trail EXCEPT ![a] = @ \o ClosingTrail(found[r], v)]
          /\ key' = IF key = NoKey THEN NoKey
                    ELSE [key EXCEPT !.state = "COMPLETED", !.body = body]
          /\ Answer(r, Decided(body))
    /\ UNCHANGED <<time, submitted, hopeless, outcome>>

\* Mutant: the insert of the verdict is an upsert.
CloseSubmissionUpsert(r) ==
    /\ pc[r] = "close"
    /\ LET a == app[r]
           v == verdict[r]
           body == [app |-> a, status |-> StatusFor(v), verdict |-> v,
                    review |-> IF v = "MANUAL_REVIEW" THEN "PENDING" ELSE "none"]
       IN /\ decision' = [decision EXCEPT ![a] = v]
          /\ status' = [status EXCEPT ![a] = StatusFor(v)]
          /\ trail' = [trail EXCEPT ![a] = @ \o ClosingTrail(found[r], v)]
          /\ key' = IF key = NoKey THEN NoKey
                    ELSE [key EXCEPT !.state = "COMPLETED", !.body = body]
          /\ Answer(r, Decided(body))
    /\ UNCHANGED <<time, submitted, hopeless, outcome>>

\* The closing transaction: the verdict, the status, the trail, the review and
\* the key, whatever the application's status and whoever holds the key by now.
CloseSubmission(r) ==
    /\ pc[r] = "close"
    /\ decision[app[r]] = "none"
    /\ LET a == app[r]
           v == verdict[r]
           body == [app |-> a, status |-> StatusFor(v), verdict |-> v,
                    review |-> IF v = "MANUAL_REVIEW" THEN "PENDING" ELSE "none"]
       IN /\ decision' = [decision EXCEPT ![a] = v]
          /\ status' = [status EXCEPT ![a] = StatusFor(v)]
          /\ trail' = [trail EXCEPT ![a] = @ \o ClosingTrail(found[r], v)]
          /\ key' = IF key = NoKey THEN NoKey
                    ELSE [key EXCEPT !.state = "COMPLETED", !.body = body]
          /\ Answer(r, Decided(body))
    /\ UNCHANGED <<time, submitted, hopeless, outcome>>

\* Mutant: the request that lost answers with its own verdict.
DuplicateVerdictOwnAnswer(r) ==
    /\ pc[r] = "close"
    /\ decision[app[r]] # "none"
    /\ Answer(r, Decided([app |-> app[r], status |-> StatusFor(verdict[r]), verdict |-> verdict[r],
                          review |-> IF verdict[r] = "MANUAL_REVIEW" THEN "PENDING" ELSE "none"]))
    /\ UNCHANGED <<time, key, rows>>

\* Mutant: the request that lost tries again.
DuplicateVerdictRetries(r) ==
    /\ pc[r] = "close"
    /\ decision[app[r]] # "none"
    /\ UNCHANGED vars

\* pre_decisions_pkey lets one verdict through; the other request reads it back.
DuplicateVerdict(r) ==
    /\ pc[r] = "close"
    /\ decision[app[r]] # "none"
    /\ Goto(r, "recover")
    /\ UNCHANGED <<time, key, rows, local, reply>>

\* The process dies, or a statement or transaction fails and is rolled back.
Crash(r) ==
    /\ pc[r] \in Active
    /\ Answer(r, Failed)
    /\ UNCHANGED <<time, key, rows>>

\* A reviewer closes a pending review: a compare and set, the status, the event.
CloseReview(a, o) ==
    /\ ReviewState(a) = "PENDING"
    /\ outcome' = [outcome EXCEPT ![a] = o]
    /\ status' = [status EXCEPT ![a] = "REVIEW_CLOSED"]
    /\ trail' = [trail EXCEPT ![a] = Append(@, "REVIEW_CLOSED")]
    /\ UNCHANGED <<time, key, submitted, hopeless, decision, pc, local, reply>>

\* A request that holds this application and may still write about it.
InUse(a) == \E r \in Requests : app[r] = a /\ pc[r] \in Active

\* Mutant: the key is not retired with the application.
SweepKeepsKey(a) ==
    /\ status[a] = "RECEIVED"
    /\ submitted[a] + SweepAfter < time
    /\ SweepRaces \/ ~InUse(a)
    /\ status' = [status EXCEPT ![a] = "ABANDONED"]
    /\ trail' = [trail EXCEPT ![a] = Append(@, "APPLICATION_ABANDONED")]
    /\ UNCHANGED <<time, key, submitted, hopeless, decision, outcome, pc, local, reply>>

\* Mutant: orphans are found through the key rows.
SweepByKey(a) ==
    /\ status[a] = "RECEIVED"
    /\ submitted[a] + SweepAfter < time
    /\ SweepRaces \/ ~InUse(a)
    /\ key # NoKey /\ key.app = a
    /\ status' = [status EXCEPT ![a] = "ABANDONED"]
    /\ trail' = [trail EXCEPT ![a] = Append(@, "APPLICATION_ABANDONED")]
    /\ key' = IF key.state = "IN_PROGRESS" THEN [key EXCEPT !.state = "ABANDONED"] ELSE key
    /\ UNCHANGED <<time, submitted, hopeless, decision, outcome, pc, local, reply>>

\* The sweeper abandons an old application still RECEIVED and retires its key.
Sweep(a) ==
    /\ status[a] = "RECEIVED"
    /\ submitted[a] + SweepAfter < time
    /\ SweepRaces \/ ~InUse(a)
    /\ status' = [status EXCEPT ![a] = "ABANDONED"]
    /\ trail' = [trail EXCEPT ![a] = Append(@, "APPLICATION_ABANDONED")]
    /\ key' = IF key # NoKey /\ key.app = a /\ key.state = "IN_PROGRESS"
              THEN [key EXCEPT !.state = "ABANDONED"] ELSE key
    /\ UNCHANGED <<time, submitted, hopeless, decision, outcome, pc, local, reply>>

\* Mutant: the purge goes by the lease.
PurgeKeyByLease ==
    /\ key # NoKey
    /\ key.lease < time
    /\ key.state # "IN_PROGRESS"
    /\ key' = NoKey
    /\ UNCHANGED <<time, rows, pc, local, reply>>

\* Mutant: only the keys that were retired are purged.
PurgeKeyRetired ==
    /\ key # NoKey
    /\ key.expires < time
    /\ key.state = "ABANDONED"
    /\ key' = NoKey
    /\ UNCHANGED <<time, rows, pc, local, reply>>

\* The sweeper purges keys past their retention, never one in progress.
PurgeKey ==
    /\ key # NoKey
    /\ key.expires < time
    /\ key.state # "IN_PROGRESS"
    /\ key' = NoKey
    /\ UNCHANGED <<time, rows, pc, local, reply>>

\* HoldBound is the only restriction on how slow a request may be.
Tick ==
    /\ time < LastTick
    /\ \A r \in Requests : pc[r] \in Active => time < now[r] + HoldBound
    /\ time' = time + 1
    /\ UNCHANGED <<key, rows, pc, local, reply>>

Submit(r) ==
    \/ ClaimStarted(r) \/ ClaimResumed(r) \/ ClaimRefused(r) \/ Peek(r)
    \/ Persist(r) \/ ReadApplication(r) \/ Look(r)
    \/ Knockout(r) \/ PullRequested(r) \/ LookupReturns(r)
    \/ CloseSubmission(r) \/ DuplicateVerdict(r)

Sweeper == PurgeKey \/ \E a \in Requests : Sweep(a)

Reviewer == \E a \in Requests, o \in Outcomes : CloseReview(a, o)

Next ==
    \/ \E r \in Requests : Arrive(r) \/ Submit(r) \/ Crash(r)
    \/ Reviewer
    \/ Sweeper
    \/ Tick

Spec == Init /\ [][Next]_vars

\* Continuations and timers run, and so does the sweeper's interval; nobody is
\* forced to retry, to review or to crash.
Fairness ==
    /\ WF_vars(Tick)
    /\ WF_vars(PurgeKey)
    /\ \A r \in Requests : WF_vars(Submit(r))
    /\ \A a \in Requests : WF_vars(Sweep(a))

FairSpec == Spec /\ Fairness

-----------------------------------------------------------------------------
(***************************************************************************)
(* Properties.                                                             *)
(***************************************************************************)

\* A request that takes a key over finds its previous holder gone.
Timely == HoldBound <= KeyLease

Count(a, event) == Cardinality({i \in DOMAIN trail[a] : trail[a][i] = event})
Times(condition) == IF condition THEN 1 ELSE 0

\* The verdict, the status, the audit event and the review are one fact, written
\* together and once, however many requests reach the closing transaction of the
\* same application and whatever the reviewers and the sweeper do meanwhile.
DecisionIsWhole ==
    \A a \in Requests :
        /\ decision[a] # "none" <=> status[a] \in {"PRE_DECIDED", "IN_REVIEW", "REVIEW_CLOSED"}
        /\ outcome[a] # "none" <=> status[a] = "REVIEW_CLOSED"
        /\ Count(a, "PRE_DECISION_MADE") = Times(decision[a] # "none")
        /\ Count(a, "REVIEW_OPENED") = Times(decision[a] = "MANUAL_REVIEW")
        /\ Count(a, "REVIEW_CLOSED") = Times(outcome[a] # "none")

\* No caller, replayed or recovered, is ever told a verdict the database does not
\* hold: also the one whose own verdict lost to another request's.
AnswerIsTheDecision ==
    \A r \in Requests : reply[r].kind \in {"replayed", "decided"} =>
        decision[reply[r].body.app] = reply[r].body.verdict

\* A caller is never answered about an application made from another body, after
\* takeovers, abandonments and purges of the key.
FingerprintRespected ==
    \A r \in Requests : reply[r].kind \in {"replayed", "decided"} =>
        BodyOf[reply[r].body.app] = BodyOf[r]

\* A caller is told that its key was used for another body only if another body
\* came under that key, or the key it met was purged before the second look.
MismatchIsReal ==
    \A r \in Requests : reply[r] = Refused("FINGERPRINT_MISMATCH") =>
        \/ \E q \in Requests : BodyOf[q] # BodyOf[r] /\ pc[q] # "idle"
        \/ Retention < time

\* One key makes one application: a second one needs the first abandoned, or the
\* key purged (up to the time a request may hold a stale clock).
OneApplicationPerKey ==
    \A a, b \in Requests :
        a # b /\ status[a] # "ABSENT" /\ status[b] # "ABSENT" /\ submitted[a] <= submitted[b] =>
            \/ status[a] = "ABANDONED"
            \/ submitted[a] + Retention < submitted[b] + HoldBound

\* What a COMPLETED key will replay is the answer of the application it names,
\* as it was when the verdict was written.
KeyTellsItsAnswer ==
    key # NoKey /\ key.state = "COMPLETED" =>
        /\ key.app # NoApp
        /\ key.body = [app |-> key.app, status |-> StatusFor(decision[key.app]),
                       verdict |-> decision[key.app],
                       review |-> IF decision[key.app] = "MANUAL_REVIEW" THEN "PENDING" ELSE "none"]

\* The trail of an application ends with what settled it: nothing follows an
\* abandonment, and only the review follows a verdict.
TrailInOrder ==
    \A a \in Requests : \A i, j \in DOMAIN trail[a] :
        i < j /\ trail[a][i] \in {"PRE_DECISION_MADE", "APPLICATION_ABANDONED"} =>
            /\ trail[a][i] = "PRE_DECISION_MADE"
            /\ trail[a][j] \in {"REVIEW_OPENED", "REVIEW_CLOSED"}

\* The state machine of docs/01, section 4.
StateMachine == INSTANCE Lifecycle WITH Applications <- Requests, verdict <- decision

\* Applications move only as the state machine allows, as long as the sweeper
\* never reaches an application a request still works on.
ImplementsLifecycle == StateMachine!Spec

\* An application left behind by a crash does not stay RECEIVED for ever.
EveryApplicationSettles ==
    \A a \in Requests : (status[a] = "RECEIVED") ~> (status[a] # "RECEIVED")

\* A key whose holder died with an application behind it does not stay taken:
\* somebody finishes the application, or the sweeper retires both.
EveryKeyIsReleased ==
    (key # NoKey /\ key.state = "IN_PROGRESS" /\ key.app # NoApp)
        ~> (key = NoKey \/ key.state # "IN_PROGRESS" \/ key.app = NoApp)

\* A stored answer is not replayed for ever: the purge reaches its key.
EveryAnswerExpires ==
    (key # NoKey /\ key.state = "COMPLETED") ~> (key = NoKey \/ key.state # "COMPLETED")

\* Every call of submit comes back, also when two requests race for a verdict.
EveryRequestEnds == \A r \in Requests : (pc[r] = "claim") ~> (pc[r] = "done")

-----------------------------------------------------------------------------
(***************************************************************************)
(* What the documents and comments say, and the code does not keep.        *)
(***************************************************************************)

\* docs/01 section 4: ABANDONED is terminal.
AbandonedIsTerminal ==
    \A a \in Requests : Count(a, "APPLICATION_ABANDONED") > 0 => status[a] = "ABANDONED"
=============================================================================
