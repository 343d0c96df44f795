---------------------------- MODULE BureauGateway ----------------------------
(***************************************************************************)
(* The bureau gateway: several requests about ONE subject want a credit    *)
(* report, and each enquiry marks the subject's file.  A request reuses a  *)
(* report that is still valid, or wins the claim row and asks the bureau,  *)
(* or loses the claim and waits for the winner.                            *)
(*                                                                         *)
(* Every statement of the code is keyed by (subject, provider), so one     *)
(* instance of this module is one such key.  Each database statement, and  *)
(* each transaction, is one step; anything may happen between two steps.   *)
(* Time is counted in ticks and advances on its own.                       *)
(***************************************************************************)
EXTENDS Integers, FiniteSets

CONSTANTS
    Requests,       \* calls of getReport for the subject
    ClaimLease,     \* BUREAU_CLAIM_LEASE_MS, in ticks
    Wait,           \* BUREAU_WAIT_MS, in ticks
    TTL,            \* BUREAU_REPORT_TTL_MINUTES, in ticks
    ClaimRetention, \* how long after its lease the sweeper keeps a claim row
    MaxAttempts,    \* BUREAU_MAX_ATTEMPTS
    HoldBound,      \* most ticks a request may spend between reading its clock
                    \* and closing its claim; above ClaimLease it may stall
    Faults,         \* the faults this instance injects
    LastArrival,    \* bound: no request starts after this tick
    LastTick        \* bound: the clock stops here

FaultKinds == {"crash", "record", "store"}

ASSUME GatewayConstants ==
    /\ ClaimLease \in Nat \ {0}
    /\ Wait \in Nat \ {0}
    /\ TTL \in Nat \ {0}
    /\ ClaimRetention \in Nat
    /\ MaxAttempts \in Nat \ {0}
    /\ HoldBound \in Nat
    /\ Faults \subseteq FaultKinds
    /\ LastArrival \in Nat
    /\ LastTick \in Nat

VARIABLES
    time,     \* the clock every process reads
    claim,    \* the row of bureau_pull_claims, or NoClaim
    reports,  \* the rows of bureau_reports
    recorded, \* requests whose BUREAU_PULL_REQUESTED event is committed
    pc,       \* where each request is in getReport
    now,      \* request.now, read once when the submission starts
    deadline, \* a waiter's deadline
    lastSeen, \* the claim state a waiter read after its deadline
    answer,   \* what the bureau call of a winner came back with
    pulledAt, \* when it came back
    result,   \* what getReport returned or threw
    enquired  \* requests whose call reached the bureau

vars == <<time, claim, reports, recorded, pc, now, deadline, lastSeen,
          answer, pulledAt, result, enquired>>

-----------------------------------------------------------------------------
(***************************************************************************)
(* Rows and values.                                                        *)
(***************************************************************************)
ProviderFailures == {"TIMEOUT", "SERVER_ERROR", "RETRIES_EXHAUSTED"}

\* The causes pullWithResilience can report under this retry budget.
PullCauses == IF MaxAttempts = 1 THEN {"TIMEOUT", "SERVER_ERROR"}
                                 ELSE {"RETRIES_EXHAUSTED"}

NoClaim == [state |-> "ABSENT"]
InFlight(lease) == [state |-> "IN_FLIGHT", lease |-> lease]
Done(lease, id) == [state |-> "DONE", lease |-> lease, report |-> id]
Failed(lease, cause) == [state |-> "FAILED", lease |-> lease, cause |-> cause]

ClaimRows ==
    [state : {"IN_FLIGHT"}, lease : Nat]
        \cup [state : {"DONE"}, lease : Nat, report : Requests]
        \cup [state : {"FAILED"}, lease : Nat, cause : ProviderFailures]

\* A report is identified by the request that pulled it; storedAt is the tick
\* its transaction committed.
ReportRows == [id : Requests, pulledAt : Nat, expiresAt : Nat, storedAt : Nat]

Nothing == [kind |-> "none"]
Threw == [kind |-> "error"]
GotReport(id) == [kind |-> "report", report |-> id]
Unavailable(cause) == [kind |-> "unavailable", cause |-> cause]

Results == {Nothing, Threw} \cup {GotReport(id) : id \in Requests}
               \cup {Unavailable(c) : c \in ProviderFailures \cup {"WAIT_EXPIRED"}}

\* The stages a request passes between reading its clock and closing its claim.
Active == {"reuse", "claim", "record", "ask", "asked", "store", "release"}
Holding == {"record", "ask", "asked", "store", "release"}
Enquiring == {"asked", "store", "release"}
Stages == Active \cup {"idle", "wait", "reread", "table", "done"}

TypeOK ==
    /\ time \in Nat
    /\ claim \in ClaimRows \cup {NoClaim}
    /\ reports \subseteq ReportRows
    /\ recorded \subseteq Requests
    /\ pc \in [Requests -> Stages]
    /\ now \in [Requests -> Nat]
    /\ deadline \in [Requests -> Nat]
    /\ lastSeen \in [Requests -> {"UNREAD", "ABSENT", "IN_FLIGHT", "FAILED"}]
    /\ answer \in [Requests -> ProviderFailures \cup {"none", "report", "defect", "lost"}]
    /\ pulledAt \in [Requests -> Nat]
    /\ result \in [Requests -> Results]
    /\ enquired \subseteq Requests

-----------------------------------------------------------------------------
(***************************************************************************)
(* What the queries select.                                                *)
(***************************************************************************)
LeaseOf(r) == now[r] + ClaimLease

\* Mutant: reuses a report of any age.
ReusableAnyAge(at) == reports

\* findReusableReport: unexpired at the given clock ...
Reusable(at) == {p \in reports : p.expiresAt > at}

\* ... and the latest of those.
Latest(rows) == {p \in rows : \A q \in rows : q.pulledAt <= p.pulledAt}

\* Mutant: a closed claim is free, whatever closed it.
ClaimableWhenClosed(r) ==
    \/ claim.state # "IN_FLIGHT"
    \/ claim # NoClaim /\ claim.lease < now[r]

\* The takeover predicate of claimPull.
Claimable(r) ==
    \/ claim = NoClaim
    \/ claim # NoClaim /\ claim.state = "FAILED"
    \/ claim # NoClaim /\ claim.lease < now[r]

\* The guard of completeClaim and failClaim: the lease this caller was granted.
StillMine(r) == claim = InFlight(LeaseOf(r))

Goto(r, stage) == pc' = [pc EXCEPT ![r] = stage]
Return(r, value) == Goto(r, "done") /\ result' = [result EXCEPT ![r] = value]

-----------------------------------------------------------------------------
Init ==
    /\ time = 0
    /\ claim = NoClaim
    /\ reports = {}
    /\ recorded = {}
    /\ pc = [r \in Requests |-> "idle"]
    /\ now = [r \in Requests |-> 0]
    /\ deadline = [r \in Requests |-> 0]
    /\ lastSeen = [r \in Requests |-> "UNREAD"]
    /\ answer = [r \in Requests |-> "none"]
    /\ pulledAt = [r \in Requests |-> 0]
    /\ result = [r \in Requests |-> Nothing]
    /\ enquired = {}

\* The submission reads its clock, once, long before it reaches the gateway.
Arrive(r) ==
    /\ pc[r] = "idle"
    /\ time <= LastArrival
    /\ now' = [now EXCEPT ![r] = time]
    /\ Goto(r, "reuse")
    /\ UNCHANGED <<time, claim, reports, recorded, deadline, lastSeen, answer,
                   pulledAt, result, enquired>>

\* 4.1: reuse a valid report, judged by the clock the submission read.
Reuse(r) ==
    /\ pc[r] = "reuse"
    /\ IF Reusable(now[r]) = {}
       THEN Goto(r, "claim") /\ UNCHANGED result
       ELSE \E p \in Latest(Reusable(now[r])) : Return(r, GotReport(p.id))
    /\ UNCHANGED <<time, claim, reports, recorded, now, deadline, lastSeen,
                   answer, pulledAt, enquired>>

\* 4.2: one statement inserts the claim or takes it over.
WinClaim(r) ==
    /\ pc[r] = "claim"
    /\ Claimable(r)
    /\ claim' = InFlight(LeaseOf(r))
    /\ Goto(r, "record")
    /\ UNCHANGED <<time, reports, recorded, now, deadline, lastSeen, answer,
                   pulledAt, result, enquired>>

\* 4.3: the loser starts its bounded wait.
LoseClaim(r) ==
    /\ pc[r] = "claim"
    /\ ~Claimable(r)
    /\ deadline' = [deadline EXCEPT ![r] = time + Wait]
    /\ Goto(r, "wait")
    /\ UNCHANGED <<time, claim, reports, recorded, now, lastSeen, answer,
                   pulledAt, result, enquired>>

\* onPullRequested commits the audit event in a transaction of its own.
RecordPull(r) ==
    /\ pc[r] = "record"
    /\ recorded' = recorded \cup {r}
    /\ Goto(r, "ask")
    /\ UNCHANGED <<time, claim, reports, now, deadline, lastSeen, answer,
                   pulledAt, result, enquired>>

\* onPullRequested is awaited outside any try: when it throws the claim stays.
RecordPullThrows(r) ==
    /\ "record" \in Faults
    /\ pc[r] = "record"
    /\ Return(r, Threw)
    /\ UNCHANGED <<time, claim, reports, recorded, now, deadline, lastSeen,
                   answer, pulledAt, enquired>>

\* The call leaves for the bureau (all its attempts carry one request id).
Ask(r) ==
    /\ pc[r] = "ask"
    /\ enquired' = enquired \cup {r}
    /\ Goto(r, "asked")
    /\ UNCHANGED <<time, claim, reports, recorded, now, deadline, lastSeen,
                   answer, pulledAt, result>>

\* The bureau answered: FOUND and NO_HIT alike are reports to be stored.
BureauAnswers(r) ==
    /\ pc[r] = "asked"
    /\ answer' = [answer EXCEPT ![r] = "report"]
    /\ pulledAt' = [pulledAt EXCEPT ![r] = time]
    /\ Goto(r, "store")
    /\ UNCHANGED <<time, claim, reports, recorded, now, deadline, lastSeen,
                   result, enquired>>

\* Every attempt failed, or a defect of ours surfaced in the adapter.
BureauFails(r) ==
    /\ pc[r] = "asked"
    /\ \E a \in PullCauses \cup {"defect"} : answer' = [answer EXCEPT ![r] = a]
    /\ Goto(r, "release")
    /\ UNCHANGED <<time, claim, reports, recorded, now, deadline, lastSeen,
                   pulledAt, result, enquired>>

\* One transaction stores the report and closes the claim if it is still ours.
Store(r) ==
    /\ pc[r] = "store"
    /\ reports' = reports \cup {[id |-> r, pulledAt |-> pulledAt[r],
                                 expiresAt |-> pulledAt[r] + TTL, storedAt |-> time]}
    /\ claim' = IF StillMine(r) THEN Done(LeaseOf(r), r) ELSE claim
    /\ Return(r, GotReport(r))
    /\ UNCHANGED <<time, recorded, now, deadline, lastSeen, answer, pulledAt,
                   enquired>>

\* The transaction fails: the answer is lost and the claim has to be released.
StoreFails(r) ==
    /\ "store" \in Faults
    /\ pc[r] = "store"
    /\ answer' = [answer EXCEPT ![r] = "lost"]
    /\ Goto(r, "release")
    /\ UNCHANGED <<time, claim, reports, recorded, now, deadline, lastSeen,
                   pulledAt, result, enquired>>

\* The cause failClaim writes: a defect or a lost report is our SERVER_ERROR.
ReleaseCause(r) == IF answer[r] \in ProviderFailures THEN answer[r] ELSE "SERVER_ERROR"

\* failClaim, then the failure is returned, or the error rethrown.
Release(r) ==
    /\ pc[r] = "release"
    /\ claim' = IF StillMine(r) THEN Failed(LeaseOf(r), ReleaseCause(r)) ELSE claim
    /\ Return(r, IF answer[r] \in ProviderFailures THEN Unavailable(answer[r]) ELSE Threw)
    /\ UNCHANGED <<time, reports, recorded, now, deadline, lastSeen, answer,
                   pulledAt, enquired>>

\* A poll, and the read after the deadline, that finds the winner's report.
ReadDone(r) ==
    /\ pc[r] \in {"wait", "reread"}
    /\ claim.state = "DONE"
    /\ Return(r, GotReport(claim.report))
    /\ UNCHANGED <<time, claim, reports, recorded, now, deadline, lastSeen,
                   answer, pulledAt, enquired>>

\* A poll that finds the winner failed adopts the winner's cause.
ReadFailed(r) ==
    /\ pc[r] = "wait"
    /\ claim.state = "FAILED"
    /\ Return(r, Unavailable(claim.cause))
    /\ UNCHANGED <<time, claim, reports, recorded, now, deadline, lastSeen,
                   answer, pulledAt, enquired>>

\* Mutant: only a claim in flight lets the waiter go.
StopPollingInFlight(r) ==
    /\ pc[r] = "wait"
    /\ claim.state = "IN_FLIGHT"
    /\ time >= deadline[r]
    /\ Goto(r, "reread")
    /\ UNCHANGED <<time, claim, reports, recorded, now, deadline, lastSeen,
                   answer, pulledAt, result, enquired>>

\* A poll at or past the deadline that finds neither leaves the loop.
StopPolling(r) ==
    /\ pc[r] = "wait"
    /\ claim.state \notin {"DONE", "FAILED"}
    /\ time >= deadline[r]
    /\ Goto(r, "reread")
    /\ UNCHANGED <<time, claim, reports, recorded, now, deadline, lastSeen,
                   answer, pulledAt, result, enquired>>

\* The read after the deadline looks for DONE only.
Reread(r) ==
    /\ pc[r] = "reread"
    /\ claim.state # "DONE"
    /\ lastSeen' = [lastSeen EXCEPT ![r] = claim.state]
    /\ Goto(r, "table")
    /\ UNCHANGED <<time, claim, reports, recorded, now, deadline, answer,
                   pulledAt, result, enquired>>

\* Mutant: the waiter gives up without looking at the table.
ReadTableSkipped(r) ==
    /\ pc[r] = "table"
    /\ Return(r, Unavailable("WAIT_EXPIRED"))
    /\ UNCHANGED <<time, claim, reports, recorded, now, deadline, lastSeen,
                   answer, pulledAt, enquired>>

\* Last, the report table itself, judged by the clock as it is now.
ReadTable(r) ==
    /\ pc[r] = "table"
    /\ IF Reusable(time) = {}
       THEN Return(r, Unavailable("WAIT_EXPIRED"))
       ELSE \E p \in Latest(Reusable(time)) : Return(r, GotReport(p.id))
    /\ UNCHANGED <<time, claim, reports, recorded, now, deadline, lastSeen,
                   answer, pulledAt, enquired>>

\* The process dies, or a statement fails where the code has no handler.
Crash(r) ==
    /\ "crash" \in Faults
    /\ pc[r] \notin {"idle", "done"}
    /\ Return(r, Threw)
    /\ UNCHANGED <<time, claim, reports, recorded, now, deadline, lastSeen,
                   answer, pulledAt, enquired>>

\* The sweeper deletes claim rows long past their lease, whatever their state.
PurgeClaim ==
    /\ claim # NoClaim
    /\ claim.lease + ClaimRetention < time
    /\ claim' = NoClaim
    /\ UNCHANGED <<time, reports, recorded, pc, now, deadline, lastSeen,
                   answer, pulledAt, result, enquired>>

\* HoldBound is the only restriction on how slow a request may be.
Tick ==
    /\ time < LastTick
    /\ \A r \in Requests : pc[r] \in Active => time < now[r] + HoldBound
    /\ time' = time + 1
    /\ UNCHANGED <<claim, reports, recorded, pc, now, deadline, lastSeen,
                   answer, pulledAt, result, enquired>>

GetReport(r) ==
    \/ Reuse(r) \/ WinClaim(r) \/ LoseClaim(r)
    \/ RecordPull(r) \/ Ask(r)
    \/ BureauAnswers(r) \/ BureauFails(r) \/ Store(r) \/ Release(r)
    \/ ReadDone(r) \/ ReadFailed(r) \/ StopPolling(r) \/ Reread(r) \/ ReadTable(r)

Next ==
    \/ \E r \in Requests :
          Arrive(r) \/ GetReport(r) \/ RecordPullThrows(r) \/ StoreFails(r) \/ Crash(r)
    \/ PurgeClaim
    \/ Tick

Spec == Init /\ [][Next]_vars

\* A live process runs its continuations and its timers; the provider call is
\* bounded by its timeout, so it always returns.  Faults are never forced.
Fairness == WF_vars(Tick) /\ \A r \in Requests : WF_vars(GetReport(r))

FairSpec == Spec /\ Fairness

-----------------------------------------------------------------------------
(***************************************************************************)
(* Properties.                                                             *)
(***************************************************************************)

\* The assumption behind a lease: whoever will write under it is done before it
\* ends, and the sweeper leaves a claim alone at least that long.
Timely == HoldBound <= ClaimLease /\ ClaimLease <= ClaimRetention

\* No two requests believe they hold the claim at once (claimPull's compare and
\* set, with leases that outlive their holders).
OneHolder ==
    \A r, s \in Requests : pc[r] \in Holding /\ pc[s] \in Holding => r = s

\* A holder never asks the bureau, and never even prepares to, while a valid
\* report about the subject sits in the table: the reuse lookup and the claim
\* are two statements, and a report committed between them must stop the claim.
NoEnquiryBesideReport ==
    \A r \in Requests : pc[r] \in Holding => Reusable(time) = {}

\* A request decides only on a stored report, and on one that had not expired
\* when the submission read its clock, also when it took the report from a
\* winner's claim row, where no query looks at the expiry.
FreshEvidence ==
    \A r \in Requests : result[r].kind = "report" =>
        \E p \in reports : p.id = result[r].report /\ p.expiresAt > now[r]

\* WAIT_EXPIRED is never recorded by a request whose subject had a report
\* committed before its deadline and valid until now, wherever the claim row
\* has moved in the meantime.
WaitExpiredOnlyWithoutReport ==
    \A r \in Requests : result[r] = Unavailable("WAIT_EXPIRED") =>
        \A p \in reports : p.storedAt < deadline[r] => p.expiresAt <= time

\* The failure of this request's own call, as failClaim would write it.
FailedWith(h, cause) ==
    \/ answer[h] = cause
    \/ cause = "SERVER_ERROR" /\ answer[h] \in {"defect", "lost"}

\* A cause a request returns is one some call really ended with: a waiter adopts
\* it from the claim row and never invents it (migration 003).
CauseIsReal ==
    \A r \in Requests : result[r].kind = "unavailable" /\ result[r].cause # "WAIT_EXPIRED" =>
        \E h \in Requests : h \in enquired /\ FailedWith(h, result[r].cause)

\* Every call of getReport comes back, whatever happens to the other holders:
\* a crashed winner or a purged claim row strands nobody.
EveryCallReturns == \A r \in Requests : (pc[r] = "reuse") ~> (pc[r] = "done")

\* The promise to the subject, under the mapping: the requests that asked and
\* have not closed their claim, and the stored reports that are valid now.
Promise == INSTANCE OneEnquiry WITH
    underWay <- {r \in Requests : pc[r] \in Enquiring},
    placed <- enquired,
    usable <- {p.id : p \in Reusable(time)}

\* The gateway implements the promise while every holder is timely.
KeepsPromise == Promise!Spec

-----------------------------------------------------------------------------
(***************************************************************************)
(* What the documents say of WAIT_EXPIRED, and the code does not keep.     *)
(***************************************************************************)

\* docs/02 4.3: a waiter that reads FAILED adopts the winner's cause; it never
\* records WAIT_EXPIRED during an outage.
NoWaitExpiredInOutage ==
    \A r \in Requests : result[r] = Unavailable("WAIT_EXPIRED") => lastSeen[r] # "FAILED"
=============================================================================
