------------------------- MODULE BureauGatewayProofs -------------------------
(***************************************************************************)
(* Proofs about the gateway, for any number of requests and any timing.    *)
(***************************************************************************)
EXTENDS BureauGateway, TLAPS

\* Every step keeps the types.
LEMMA TypeStep == TypeOK /\ [Next]_vars => TypeOK'
<1> USE GatewayConstants DEF FaultKinds
<1> SUFFICES ASSUME TypeOK, [Next]_vars
             PROVE  TypeOK'
  OBVIOUS
<1> USE DEF TypeOK, Stages, Active
<1>1. ASSUME NEW r \in Requests, Arrive(r)
      PROVE  TypeOK'
  BY <1>1 DEF Arrive, Goto
<1>2. ASSUME NEW r \in Requests, Reuse(r)
      PROVE  TypeOK'
  BY <1>2 DEF Reuse, Goto, Return, Latest, Reusable, Results, ReportRows
<1>3. ASSUME NEW r \in Requests, WinClaim(r)
      PROVE  TypeOK'
  BY <1>3 DEF WinClaim, Goto, ClaimRows, InFlight, LeaseOf
<1>4. ASSUME NEW r \in Requests, LoseClaim(r)
      PROVE  TypeOK'
  BY <1>4 DEF LoseClaim, Goto
<1>5. ASSUME NEW r \in Requests, RecordPull(r)
      PROVE  TypeOK'
  BY <1>5 DEF RecordPull, Goto
<1>6. ASSUME NEW r \in Requests, RecordPullThrows(r)
      PROVE  TypeOK'
  BY <1>6 DEF RecordPullThrows, Goto, Return, Results
<1>7. ASSUME NEW r \in Requests, Ask(r)
      PROVE  TypeOK'
  BY <1>7 DEF Ask, Goto
<1>8. ASSUME NEW r \in Requests, BureauAnswers(r)
      PROVE  TypeOK'
  BY <1>8 DEF BureauAnswers, Goto
<1>9. ASSUME NEW r \in Requests, BureauFails(r)
      PROVE  TypeOK'
  BY <1>9 DEF BureauFails, Goto, PullCauses, ProviderFailures
<1>10. ASSUME NEW r \in Requests, Store(r)
       PROVE  TypeOK'
  BY <1>10 DEF Store, Goto, Return, Results, ReportRows, ClaimRows, Done, LeaseOf
<1>11. ASSUME NEW r \in Requests, StoreFails(r)
       PROVE  TypeOK'
  BY <1>11 DEF StoreFails, Goto
<1>12. ASSUME NEW r \in Requests, Release(r)
       PROVE  TypeOK'
  BY <1>12 DEF Release, ReleaseCause, Goto, Return, Results, ClaimRows, Failed,
               LeaseOf, ProviderFailures
<1>13. ASSUME NEW r \in Requests, ReadDone(r)
       PROVE  TypeOK'
  BY <1>13 DEF ReadDone, Goto, Return, Results, ClaimRows, NoClaim
<1>14. ASSUME NEW r \in Requests, ReadFailed(r)
       PROVE  TypeOK'
  BY <1>14 DEF ReadFailed, Goto, Return, Results, ClaimRows, NoClaim
<1>15. ASSUME NEW r \in Requests, StopPolling(r)
       PROVE  TypeOK'
  BY <1>15 DEF StopPolling, Goto
<1>16. ASSUME NEW r \in Requests, Reread(r)
       PROVE  TypeOK'
  BY <1>16 DEF Reread, Goto, ClaimRows, NoClaim
<1>17. ASSUME NEW r \in Requests, ReadTable(r)
       PROVE  TypeOK'
  BY <1>17 DEF ReadTable, Goto, Return, Latest, Reusable, Results, ReportRows
<1>18. ASSUME NEW r \in Requests, Crash(r)
       PROVE  TypeOK'
  BY <1>18 DEF Crash, Goto, Return, Results
<1>19. CASE PurgeClaim
  BY <1>19 DEF PurgeClaim
<1>20. CASE Tick
  BY <1>20 DEF Tick
<1>21. CASE UNCHANGED vars
  BY <1>21 DEF vars
<1>22. QED
  BY <1>1, <1>2, <1>3, <1>4, <1>5, <1>6, <1>7, <1>8, <1>9, <1>10, <1>11, <1>12,
     <1>13, <1>14, <1>15, <1>16, <1>17, <1>18, <1>19, <1>20, <1>21
     DEF Next, GetReport

\* Every variable keeps its type, and every claim row keeps the shape the
\* migrations demand: DONE names a report, FAILED names a provider's cause.
THEOREM TypeCorrect == Spec => []TypeOK
<1>1. Init => TypeOK
  BY DEF Init, TypeOK, Stages, Active, Results
<1>2. QED
  BY <1>1, TypeStep, PTL DEF Spec

-----------------------------------------------------------------------------
(***************************************************************************)
(* One holder at a time, and no enquiry beside a valid report.             *)
(*                                                                         *)
(* Neither is inductive.  That nobody takes over a live holder's row needs *)
(* the clocks: a holder inside its lease and a challenger whose clock is   *)
(* not ahead of the real one.  That a claim finds no valid report needs    *)
(* LosersStayOut: from the moment a report is valid until its claim row is *)
(* swept, a request that looked too early finds the row closed to it.      *)
(***************************************************************************)

\* No submission's clock is ahead, and no active request is over its bound.
Clocks ==
    \A r \in Requests :
        /\ now[r] <= time
        /\ pc[r] \in Active => time <= now[r] + HoldBound

\* Whoever believes it holds the claim is right.
HolderOwnsRow == \A r \in Requests : pc[r] \in Holding => StillMine(r)

\* A request past its reuse lookup cannot win a claim beside a valid report.
LosersStayOut ==
    \A r \in Requests : pc[r] = "claim" /\ Reusable(time) # {} => ~Claimable(r)

\* An enquiry is counted from the step that sends it, once.
CountedOnce ==
    \A r \in enquired : pc[r] \notin {"idle", "reuse", "claim", "record", "ask"}

IInv ==
    /\ TypeOK
    /\ Clocks
    /\ OneHolder
    /\ HolderOwnsRow
    /\ LosersStayOut
    /\ NoEnquiryBesideReport
    /\ CountedOnce

\* As time passes the valid reports only get fewer.
LEMMA FewerReusable ==
    ASSUME TypeOK, time' \in Nat, time' >= time, reports' = reports
    PROVE  Reusable(time)' \subseteq Reusable(time)
  BY DEF TypeOK, Reusable, ReportRows

\* A live holder's row is closed to everybody else.
LEMMA HolderBlocks ==
    ASSUME Timely, IInv, NEW r \in Requests, NEW s \in Requests, pc[s] \in Holding
    PROVE  ~Claimable(r)
<1>1. claim = InFlight(LeaseOf(s)) /\ time <= now[s] + HoldBound /\ now[r] <= time
  BY DEF IInv, HolderOwnsRow, StillMine, Clocks, Holding, Active
<1>2. claim.state = "IN_FLIGHT" /\ claim.lease = now[s] + ClaimLease /\ claim # NoClaim
  BY <1>1 DEF InFlight, LeaseOf, NoClaim
<1>3. ~(claim.lease < now[r])
  BY <1>1, <1>2, GatewayConstants DEF Timely, IInv, TypeOK
<1>4. QED
  BY <1>2, <1>3 DEF Claimable

\* Every step keeps the inductive invariant, when holders are timely.
LEMMA InvStep == ASSUME Timely, IInv, [Next]_vars PROVE IInv'
<1> USE GatewayConstants DEF Timely
<1>0. TypeOK' /\ TypeOK
  BY TypeStep DEF IInv
<1> USE DEF TypeOK, Stages, Active, Holding, Clocks, OneHolder, HolderOwnsRow, StillMine, LeaseOf,
            LosersStayOut, Claimable, NoEnquiryBesideReport, CountedOnce, Reusable
<1>1. ASSUME NEW r \in Requests, Arrive(r)
      PROVE  IInv'
  BY <1>0, <1>1 DEF IInv, Arrive, Goto
<1>2. ASSUME NEW r \in Requests, Reuse(r)
      PROVE  IInv'
  <2>0. \/ pc' = [pc EXCEPT ![r] = "claim"] /\ Reusable(now[r]) = {}
        \/ pc' = [pc EXCEPT ![r] = "done"]
    BY <1>2 DEF Reuse, Goto, Return
  <2>1. Reusable(now[r]) = {} => Reusable(time) = {}
    BY <1>0 DEF IInv, ReportRows
  <2>2. LosersStayOut' /\ NoEnquiryBesideReport'
    BY <1>0, <1>2, <2>0, <2>1 DEF IInv, Reuse
  <2>3. HolderOwnsRow' /\ OneHolder' /\ Clocks' /\ CountedOnce'
    BY <1>0, <1>2, <2>0 DEF IInv, Reuse
  <2>4. QED
    BY <1>0, <2>2, <2>3 DEF IInv
<1>3. ASSUME NEW r \in Requests, WinClaim(r)
      PROVE  IInv'
  <2>1. \A s \in Requests : pc[s] \notin Holding
    BY <1>3, HolderBlocks DEF WinClaim
  <2>2. Reusable(time) = {}
    BY <1>3 DEF IInv, WinClaim
  <2>3. Reusable(time)' = {}
    BY <1>3, <2>2 DEF WinClaim
  <2>4. HolderOwnsRow' /\ OneHolder'
    BY <1>3, <2>1 DEF IInv, WinClaim, Goto
  <2>5. LosersStayOut' /\ NoEnquiryBesideReport'
    BY <2>3
  <2>6. Clocks' /\ CountedOnce'
    BY <1>0, <1>3 DEF IInv, WinClaim, Goto
  <2>7. QED
    BY <1>0, <2>4, <2>5, <2>6 DEF IInv
<1>4. ASSUME NEW r \in Requests, LoseClaim(r)
      PROVE  IInv'
  BY <1>0, <1>4 DEF IInv, LoseClaim, Goto
<1>5. ASSUME NEW r \in Requests, RecordPull(r)
      PROVE  IInv'
  BY <1>0, <1>5 DEF IInv, RecordPull, Goto
<1>6. ASSUME NEW r \in Requests, RecordPullThrows(r)
      PROVE  IInv'
  BY <1>0, <1>6 DEF IInv, RecordPullThrows, Goto, Return
<1>7. ASSUME NEW r \in Requests, Ask(r)
      PROVE  IInv'
  BY <1>0, <1>7 DEF IInv, Ask, Goto
<1>8. ASSUME NEW r \in Requests, BureauAnswers(r)
      PROVE  IInv'
  BY <1>0, <1>8 DEF IInv, BureauAnswers, Goto
<1>9. ASSUME NEW r \in Requests, BureauFails(r)
      PROVE  IInv'
  BY <1>0, <1>9 DEF IInv, BureauFails, Goto
<1>10. ASSUME NEW r \in Requests, Store(r)
      PROVE  IInv'
  <2>1. claim' = Done(LeaseOf(r), r) /\ \A s \in Requests : pc'[s] \notin Holding
    BY <1>0, <1>10 DEF IInv, Store, Goto, Return
  <2>2. \A s \in Requests : now'[s] <= LeaseOf(r)
    BY <1>0, <1>10 DEF IInv, Store
  <2>3. \A s \in Requests : ~Claimable(s)'
    BY <1>0, <2>1, <2>2 DEF Done, NoClaim
  <2>4. Clocks' /\ CountedOnce'
    BY <1>0, <1>10 DEF IInv, Store, Goto, Return
  <2>5. QED
    BY <1>0, <2>1, <2>3, <2>4 DEF IInv
<1>11. ASSUME NEW r \in Requests, StoreFails(r)
      PROVE  IInv'
  BY <1>0, <1>11 DEF IInv, StoreFails, Goto
<1>12. ASSUME NEW r \in Requests, Release(r)
      PROVE  IInv'
  BY <1>0, <1>12 DEF IInv, Release, Goto, Return
<1>13. ASSUME NEW r \in Requests, ReadDone(r)
      PROVE  IInv'
  BY <1>0, <1>13 DEF IInv, ReadDone, Goto, Return
<1>14. ASSUME NEW r \in Requests, ReadFailed(r)
      PROVE  IInv'
  BY <1>0, <1>14 DEF IInv, ReadFailed, Goto, Return
<1>15. ASSUME NEW r \in Requests, StopPolling(r)
      PROVE  IInv'
  BY <1>0, <1>15 DEF IInv, StopPolling, Goto
<1>16. ASSUME NEW r \in Requests, Reread(r)
      PROVE  IInv'
  BY <1>0, <1>16 DEF IInv, Reread, Goto
<1>17. ASSUME NEW r \in Requests, ReadTable(r)
      PROVE  IInv'
  <2>1. pc' = [pc EXCEPT ![r] = "done"]
    BY <1>17 DEF ReadTable, Goto, Return
  <2>2. QED
    BY <1>0, <1>17, <2>1 DEF IInv, ReadTable
<1>18. ASSUME NEW r \in Requests, Crash(r)
      PROVE  IInv'
  BY <1>0, <1>18 DEF IInv, Crash, Goto, Return
<1>19. CASE PurgeClaim
  <2>1. \A r \in Requests : pc[r] \notin Holding
    BY <1>0, <1>19 DEF IInv, PurgeClaim, InFlight
  <2>2. \A r \in Requests : pc[r] = "claim" => Reusable(time) = {}
    <3> SUFFICES ASSUME NEW r \in Requests, pc[r] = "claim", ~Claimable(r)
                 PROVE  FALSE
      BY DEF IInv
    <3>1. claim.lease \in Nat /\ now[r] <= claim.lease
      BY <1>0, <1>19 DEF PurgeClaim, ClaimRows
    <3>2. QED
      BY <1>0, <1>19, <3>1 DEF IInv, PurgeClaim
  <2>3. QED
    BY <1>0, <1>19, <2>1, <2>2 DEF IInv, PurgeClaim
<1>20. CASE Tick
  <2>1. Clocks'
    BY <1>0, <1>20 DEF IInv, Tick
  <2>2. Reusable(time)' \subseteq Reusable(time)
    BY <1>0, <1>20, FewerReusable DEF Tick
  <2>3. LosersStayOut' /\ NoEnquiryBesideReport'
    BY <1>20, <2>2 DEF IInv, Tick
  <2>4. HolderOwnsRow' /\ OneHolder' /\ CountedOnce'
    BY <1>20 DEF IInv, Tick
  <2>5. QED
    BY <1>0, <2>1, <2>3, <2>4 DEF IInv
<1>21. CASE UNCHANGED vars
  BY <1>0, <1>21 DEF IInv, vars
<1>22. QED
  BY <1>1, <1>2, <1>3, <1>4, <1>5, <1>6, <1>7, <1>8, <1>9, <1>10, <1>11, <1>12, <1>13, <1>14, <1>15, <1>16, <1>17, <1>18, <1>19, <1>20, <1>21
     DEF Next, GetReport

LEMMA InvHolds == Timely => (Spec => []IInv)
<1> SUFFICES ASSUME Timely PROVE Spec => []IInv
  OBVIOUS
<1>1. Init => IInv
  <2> SUFFICES ASSUME Init PROVE IInv
    OBVIOUS
  <2>1. TypeOK
    BY DEF Init, TypeOK, Stages, Active, Results
  <2>2. QED
    BY <2>1 DEF Init, IInv, Clocks, OneHolder, HolderOwnsRow, LosersStayOut, Active,
                NoEnquiryBesideReport, CountedOnce, Holding
<1>2. IInv /\ [Next]_vars => IInv'
  BY InvStep
<1>3. QED
  BY <1>1, <1>2, PTL DEF Spec

\* However many requests race for a subject, the claim has one holder at a time.
THEOREM OneHolderAlways == Timely => (Spec => []OneHolder)
<1>1. IInv => OneHolder
  BY DEF IInv
<1>2. QED
  BY <1>1, InvHolds, PTL

\* Nobody holds the claim, and so nobody asks the bureau, beside a valid report.
THEOREM NoEnquiryBesideReportAlways == Timely => (Spec => []NoEnquiryBesideReport)
<1>1. IInv => NoEnquiryBesideReport
  BY DEF IInv
<1>2. QED
  BY <1>1, InvHolds, PTL

\* Each step of the gateway is a step of the promise, or leaves it alone.
LEMMA PromiseStep ==
    ASSUME Timely, IInv, IInv', [Next]_vars
    PROVE  [Promise!Next]_Promise!vars
<1> DEFINE U == {r \in Requests : pc[r] \in Enquiring}
           V == {p.id : p \in Reusable(time)}
<1> USE DEF Enquiring
<1>1. ASSUME NEW r \in Requests, Ask(r)
      PROVE  Promise!Begin(r)
  <2>1. U = {} /\ U' = {r}
    BY <1>1 DEF Ask, Goto, IInv, OneHolder, Holding, TypeOK
  <2>2. V = {} /\ V' = V
    BY <1>1 DEF Ask, IInv, NoEnquiryBesideReport, Holding, Reusable
  <2>3. r \notin enquired /\ enquired' = enquired \cup {r}
    BY <1>1 DEF Ask, IInv, CountedOnce
  <2>4. QED
    BY <2>1, <2>2, <2>3 DEF Promise!Begin
<1>2. ASSUME NEW r \in Requests, Store(r)
      PROVE  Promise!End(r)
  <2>1. U = {r} /\ U' = {}
    BY <1>2 DEF Store, Goto, Return, IInv, OneHolder, Holding, TypeOK
  <2>2. Reusable(time) = {}
    BY <1>2 DEF Store, IInv, NoEnquiryBesideReport, Holding
  <2>3. Reusable(time)' \subseteq {[id |-> r, pulledAt |-> pulledAt[r],
                                   expiresAt |-> pulledAt[r] + TTL, storedAt |-> time]}
    BY <1>2, <2>2 DEF Store, Reusable
  <2>4. V = {} /\ (V' = {} \/ V' = {r})
    BY <2>2, <2>3
  <2>5. QED
    BY <1>2, <2>1, <2>4 DEF Promise!End, Store
<1>3. ASSUME UNCHANGED <<time, reports, enquired>>, U' = U
      PROVE  UNCHANGED Promise!vars
  BY <1>3 DEF Promise!vars, Reusable
<1>4. ASSUME UNCHANGED <<time, reports, enquired>>, NEW r \in Requests,
             pc[r] \in Enquiring, pc' = [pc EXCEPT ![r] = "done"]
      PROVE  Promise!End(r)
  <2>1. U = {r} /\ U' = {}
    BY <1>4 DEF IInv, OneHolder, Holding, TypeOK
  <2>2. QED
    BY <1>4, <2>1 DEF Promise!End, Reusable
<1>5. ASSUME Tick
      PROVE  Promise!Expire
  <2>1. Reusable(time)' \subseteq Reusable(time)
    BY <1>5, FewerReusable DEF Tick, IInv, TypeOK
  <2>2. V' \subseteq V
    BY <2>1
  <2>3. U' = U /\ enquired' = enquired
    BY <1>5 DEF Tick
  <2>4. QED
    BY <2>2, <2>3 DEF Promise!Expire
<1>6. ASSUME NEW r \in Requests, Release(r)
      PROVE  Promise!End(r)
  BY <1>4, <1>6 DEF Release, Return, Goto
<1>7. ASSUME NEW r \in Requests, Crash(r)
      PROVE  Promise!End(r) \/ UNCHANGED Promise!vars
  <2>1. CASE pc[r] \in Enquiring
    BY <1>4, <1>7, <2>1 DEF Crash, Return, Goto
  <2>2. CASE pc[r] \notin Enquiring
    BY <1>3, <1>7, <2>2 DEF Crash, Return, Goto, IInv, TypeOK
  <2>3. QED
    BY <2>1, <2>2
<1>8. ASSUME NEW r \in Requests,
             \/ Arrive(r) \/ Reuse(r) \/ WinClaim(r) \/ LoseClaim(r) \/ RecordPull(r)
             \/ RecordPullThrows(r) \/ BureauAnswers(r) \/ BureauFails(r) \/ StoreFails(r)
             \/ ReadDone(r) \/ ReadFailed(r) \/ StopPolling(r) \/ Reread(r) \/ ReadTable(r)
      PROVE  UNCHANGED Promise!vars
  <2>1. UNCHANGED <<time, reports, enquired>>
    BY <1>8 DEF Arrive, Reuse, WinClaim, LoseClaim, RecordPull, RecordPullThrows,
                BureauAnswers, BureauFails, StoreFails, ReadDone, ReadFailed, StopPolling,
                Reread, ReadTable
  <2>2. \E from, to \in Stages : /\ pc[r] = from /\ pc' = [pc EXCEPT ![r] = to]
                                 /\ from \in Enquiring <=> to \in Enquiring
    BY <1>8 DEF Arrive, Reuse, WinClaim, LoseClaim, RecordPull, RecordPullThrows,
                BureauAnswers, BureauFails, StoreFails, ReadDone, ReadFailed, StopPolling,
                Reread, ReadTable, Goto, Return, Stages, Active
  <2>3. U' = U
    BY <2>2 DEF IInv, TypeOK
  <2>4. QED
    BY <1>3, <2>1, <2>3
<1>9. CASE PurgeClaim
  BY <1>3, <1>9 DEF PurgeClaim
<1>10. CASE UNCHANGED vars
  BY <1>3, <1>10 DEF vars
<1>11. QED
  BY <1>1, <1>2, <1>5, <1>6, <1>7, <1>8, <1>9, <1>10 DEF Next, GetReport, Promise!Next

\* The gateway marks a subject's file once for as long as the answer is valid.
THEOREM GatewayKeepsPromise == Timely => (Spec => KeepsPromise)
<1> SUFFICES ASSUME Timely PROVE Spec => KeepsPromise
  OBVIOUS
<1>1. Init => Promise!Init
  BY DEF Init, Promise!Init, Enquiring, Reusable
<1>2. IInv /\ IInv' /\ [Next]_vars => [Promise!Next]_Promise!vars
  BY PromiseStep
<1>3. QED
  BY <1>1, <1>2, InvHolds, PTL DEF Spec, KeepsPromise, Promise!Spec

-----------------------------------------------------------------------------
(***************************************************************************)
(* Fresh evidence.  A waiter takes the report a DONE row names without     *)
(* looking at its expiry.  It is fresh all the same, because the waiter    *)
(* lost to a lease that had not ended at its own clock, and the report of  *)
(* a DONE row outlives the row's lease when reports outlive leases.        *)
(***************************************************************************)
ReportsOutliveLeases == TTL > ClaimLease

PulledAfterClock == \A r \in Requests : pc[r] = "store" => now[r] <= pulledAt[r]

DoneOutlivesLease ==
    claim.state = "DONE" =>
        \E p \in reports : p.id = claim.report /\ p.expiresAt > claim.lease

WaitersLostToLiveLease ==
    \A r \in Requests : pc[r] \in {"wait", "reread"} /\ claim.state \in {"IN_FLIGHT", "DONE"} =>
        now[r] <= claim.lease

UndecidedUntilDone == \A r \in Requests : pc[r] # "done" => result[r] = Nothing

FInv == UndecidedUntilDone /\ PulledAfterClock /\ DoneOutlivesLease /\ WaitersLostToLiveLease /\ FreshEvidence

\* Every step keeps the reports a request decided on, and their freshness.
LEMMA FreshStep ==
    ASSUME Timely, ReportsOutliveLeases, IInv, IInv', FInv, [Next]_vars PROVE FInv'
<1> USE GatewayConstants DEF Timely, ReportsOutliveLeases
<1>0. TypeOK /\ TypeOK' /\ Clocks
  BY DEF IInv
<1> USE DEF FInv, UndecidedUntilDone, TypeOK, Stages, Active, Clocks, PulledAfterClock, DoneOutlivesLease,
            WaitersLostToLiveLease, FreshEvidence, Threw, Nothing, GotReport, Unavailable
<1>1. ASSUME NEW r \in Requests, Arrive(r)
      PROVE  FInv'
  BY <1>0, <1>1 DEF Arrive, Goto, Return
<1>2. ASSUME NEW r \in Requests, RecordPull(r)
      PROVE  FInv'
  BY <1>0, <1>2 DEF RecordPull, Goto, Return
<1>3. ASSUME NEW r \in Requests, RecordPullThrows(r)
      PROVE  FInv'
  BY <1>0, <1>3 DEF RecordPullThrows, Goto, Return
<1>4. ASSUME NEW r \in Requests, Ask(r)
      PROVE  FInv'
  BY <1>0, <1>4 DEF Ask, Goto, Return
<1>5. ASSUME NEW r \in Requests, BureauAnswers(r)
      PROVE  FInv'
  BY <1>0, <1>5 DEF BureauAnswers, Goto, Return
<1>6. ASSUME NEW r \in Requests, BureauFails(r)
      PROVE  FInv'
  BY <1>0, <1>6 DEF BureauFails, Goto, Return
<1>7. ASSUME NEW r \in Requests, StoreFails(r)
      PROVE  FInv'
  BY <1>0, <1>7 DEF StoreFails, Goto, Return
<1>8. ASSUME NEW r \in Requests, StopPolling(r)
      PROVE  FInv'
  BY <1>0, <1>8 DEF StopPolling, Goto, Return
<1>9. ASSUME NEW r \in Requests, Reread(r)
      PROVE  FInv'
  BY <1>0, <1>9 DEF Reread, Goto, Return
<1>10. ASSUME NEW r \in Requests, Crash(r)
      PROVE  FInv'
  BY <1>0, <1>10 DEF Crash, Goto, Return
<1>11. ASSUME NEW r \in Requests, Reuse(r)
      PROVE  FInv'
  BY <1>0, <1>11 DEF Reuse, Goto, Return, Latest, Reusable
<1>12. ASSUME NEW r \in Requests, WinClaim(r)
      PROVE  FInv'
  BY <1>0, <1>12 DEF WinClaim, Goto, InFlight, LeaseOf
<1>13. ASSUME NEW r \in Requests, LoseClaim(r)
      PROVE  FInv'
  BY <1>0, <1>13 DEF LoseClaim, Goto, Claimable, NoClaim, ClaimRows
<1>14. ASSUME NEW r \in Requests, Store(r)
      PROVE  FInv'
  <2> DEFINE row == [id |-> r, pulledAt |-> pulledAt[r],
                     expiresAt |-> pulledAt[r] + TTL, storedAt |-> time]
  <2>1. reports' = reports \cup {row} /\ row.id = r /\ row.expiresAt > LeaseOf(r)
    BY <1>0, <1>14 DEF Store, LeaseOf
  <2>2. LeaseOf(r) >= now[r] /\ LeaseOf(r) \in Nat
    BY <1>0 DEF LeaseOf
  <2>3. /\ pc' = [pc EXCEPT ![r] = "done"] /\ result' = [result EXCEPT ![r] = GotReport(r)]
        /\ UNCHANGED <<now, pulledAt>>
    BY <1>14 DEF Store, Goto, Return
  <2>4. UndecidedUntilDone' /\ PulledAfterClock'
    BY <1>0, <2>3
  <2>5. FreshEvidence'
    <3> SUFFICES ASSUME NEW s \in Requests, result'[s].kind = "report"
                 PROVE  \E p \in reports' : p.id = result'[s].report /\ p.expiresAt > now'[s]
      OBVIOUS
    <3>1. CASE s = r
      <4>1. result'[s].report = r /\ now'[s] = now[r]
        BY <1>0, <2>3, <3>1
      <4>2. row.expiresAt > now[r]
        BY <1>0, <2>1, <2>2
      <4>3. QED
        BY <2>1, <4>1, <4>2
    <3>2. CASE s # r
      BY <1>0, <2>1, <2>3, <3>2
    <3>3. QED
      BY <3>1, <3>2
  <2>6. CASE claim = InFlight(LeaseOf(r))
    <3>1. claim' = Done(LeaseOf(r), r) /\ claim.lease = LeaseOf(r) /\ claim.state = "IN_FLIGHT"
      BY <1>14, <2>6 DEF Store, StillMine, InFlight
    <3>2. DoneOutlivesLease' /\ WaitersLostToLiveLease'
      BY <1>0, <2>1, <2>3, <3>1 DEF Done
    <3>3. QED
      BY <2>4, <2>5, <3>2
  <2>7. CASE claim # InFlight(LeaseOf(r))
    <3>1. claim' = claim
      BY <1>14, <2>7 DEF Store, StillMine
    <3>2. DoneOutlivesLease' /\ WaitersLostToLiveLease'
      BY <1>0, <2>1, <2>3, <3>1
    <3>3. QED
      BY <2>4, <2>5, <3>2
  <2>8. QED
    BY <2>6, <2>7
<1>15. ASSUME NEW r \in Requests, Release(r)
      PROVE  FInv'
  BY <1>0, <1>15 DEF Release, Goto, Return, Failed
<1>16. ASSUME NEW r \in Requests, ReadDone(r)
      PROVE  FInv'
  <2>1. /\ pc' = [pc EXCEPT ![r] = "done"] /\ result' = [result EXCEPT ![r] = GotReport(claim.report)]
        /\ UNCHANGED <<now, pulledAt, claim, reports>>
    BY <1>16 DEF ReadDone, Goto, Return
  <2>2. PICK p \in reports : p.id = claim.report /\ p.expiresAt > claim.lease
    BY <1>16 DEF ReadDone
  <2>3. claim.lease >= now[r] /\ claim.lease \in Nat
    BY <1>0, <1>16 DEF ReadDone, ClaimRows, NoClaim
  <2>4. p.expiresAt > now[r]
    BY <1>0, <2>2, <2>3 DEF ReportRows
  <2>5. FreshEvidence'
    BY <1>0, <2>1, <2>2, <2>4
  <2>6. QED
    BY <1>0, <2>1, <2>5
<1>17. ASSUME NEW r \in Requests, ReadFailed(r)
      PROVE  FInv'
  BY <1>0, <1>17 DEF ReadFailed, Goto, Return
<1>18. ASSUME NEW r \in Requests, ReadTable(r)
      PROVE  FInv'
  <2>1. \/ result' = [result EXCEPT ![r] = Unavailable("WAIT_EXPIRED")]
        \/ \E p \in reports : p.expiresAt > time /\ result' = [result EXCEPT ![r] = GotReport(p.id)]
    BY <1>18 DEF ReadTable, Return, Latest, Reusable
  <2>2. pc' = [pc EXCEPT ![r] = "done"] /\ UNCHANGED <<now, pulledAt, claim, reports>>
    BY <1>18 DEF ReadTable, Return, Goto
  <2>3. \A p \in reports : p.expiresAt > time => p.expiresAt > now[r]
    BY <1>0 DEF ReportRows
  <2>4. FreshEvidence'
    BY <1>0, <2>1, <2>2, <2>3
  <2>5. QED
    BY <1>0, <2>1, <2>2, <2>4
<1>19. CASE PurgeClaim
  BY <1>0, <1>19 DEF PurgeClaim, NoClaim
<1>20. CASE Tick
  BY <1>0, <1>20 DEF Tick
<1>21. CASE UNCHANGED vars
  BY <1>0, <1>21 DEF vars
<1>22. QED
  BY <1>1, <1>2, <1>3, <1>4, <1>5, <1>6, <1>7, <1>8, <1>9, <1>10, <1>11, <1>12, <1>13, <1>14, <1>15, <1>16, <1>17, <1>18, <1>19, <1>20, <1>21
     DEF Next, GetReport

\* No verdict rests on a report that is not stored, or that had already expired
\* when its submission read the clock, wherever the report came from.
THEOREM FreshEvidenceAlways == Timely /\ ReportsOutliveLeases => (Spec => []FreshEvidence)
<1> SUFFICES ASSUME Timely, ReportsOutliveLeases PROVE Spec => []FreshEvidence
  OBVIOUS
<1>1. Init => FInv
  BY DEF Init, FInv, UndecidedUntilDone, PulledAfterClock, DoneOutlivesLease, WaitersLostToLiveLease,
         FreshEvidence, NoClaim, Nothing
<1>2. IInv /\ IInv' /\ FInv /\ [Next]_vars => FInv'
  BY FreshStep
<1>3. FInv => FreshEvidence
  BY DEF FInv
<1>4. QED
  BY <1>1, <1>2, <1>3, InvHolds, PTL DEF Spec

-----------------------------------------------------------------------------
(***************************************************************************)
(* What survives even when holders stall past their lease.                 *)
(***************************************************************************)

\* An answer belongs to a request that asked, and is never asked for again.
AnswersWereAskedFor ==
    \A r \in Requests :
        /\ pc[r] \in Enquiring => r \in enquired
        /\ pc[r] = "store" => answer[r] = "report"
        /\ pc[r] = "release" => answer[r] \in ProviderFailures \cup {"defect", "lost"}
        /\ answer[r] # "none" => pc[r] \in {"store", "release", "done"}

\* The cause on a FAILED row is how some request's call ended.
FailedRowIsReal ==
    claim.state = "FAILED" => \E h \in enquired : FailedWith(h, claim.cause)

CInv == UndecidedUntilDone /\ AnswersWereAskedFor /\ FailedRowIsReal /\ CauseIsReal

\* Every step keeps the causes real.
LEMMA CauseStep == ASSUME TypeOK, CInv, [Next]_vars PROVE CInv'
<1> USE GatewayConstants
<1>0. TypeOK /\ TypeOK'
  BY TypeStep
<1> USE DEF CInv, UndecidedUntilDone, TypeOK, Stages, Active, Enquiring, AnswersWereAskedFor,
            FailedRowIsReal, CauseIsReal, FailedWith, ProviderFailures, Threw, Nothing,
            GotReport, Unavailable
<1>1. ASSUME NEW r \in Requests, Arrive(r)
      PROVE  CInv'
  BY <1>0, <1>1 DEF Arrive, Goto, Return
<1>2. ASSUME NEW r \in Requests, Reuse(r)
      PROVE  CInv'
  BY <1>0, <1>2 DEF Reuse, Goto, Return
<1>3. ASSUME NEW r \in Requests, WinClaim(r)
      PROVE  CInv'
  BY <1>0, <1>3 DEF WinClaim, Goto, Return, InFlight
<1>4. ASSUME NEW r \in Requests, LoseClaim(r)
      PROVE  CInv'
  BY <1>0, <1>4 DEF LoseClaim, Goto, Return
<1>5. ASSUME NEW r \in Requests, RecordPull(r)
      PROVE  CInv'
  BY <1>0, <1>5 DEF RecordPull, Goto, Return
<1>6. ASSUME NEW r \in Requests, RecordPullThrows(r)
      PROVE  CInv'
  BY <1>0, <1>6 DEF RecordPullThrows, Goto, Return
<1>7. ASSUME NEW r \in Requests, Ask(r)
      PROVE  CInv'
  BY <1>0, <1>7 DEF Ask, Goto, Return
<1>8. ASSUME NEW r \in Requests, BureauAnswers(r)
      PROVE  CInv'
  <2>1. \A h \in Requests, c \in ProviderFailures : FailedWith(h, c) => FailedWith(h, c)'
    BY <1>0, <1>8 DEF BureauAnswers
  <2>2. /\ UNCHANGED <<claim, enquired, result>>
        /\ \E to \in {"store", "release"} : pc' = [pc EXCEPT ![r] = to]
    BY <1>8 DEF BureauAnswers, Goto
  <2>3. FailedRowIsReal'
    BY <1>0, <2>1, <2>2 DEF ClaimRows, NoClaim
  <2>4. CauseIsReal'
    <3> SUFFICES ASSUME NEW s \in Requests, result[s].kind = "unavailable",
                        result[s].cause # "WAIT_EXPIRED"
                 PROVE  \E h \in Requests : h \in enquired /\ FailedWith(h, result[s].cause)'
      BY <2>2
    <3>1. result[s].cause \in ProviderFailures
      BY DEF Results
    <3>2. QED
      BY <2>1, <2>2, <3>1
  <2>5. UndecidedUntilDone' /\ AnswersWereAskedFor'
    BY <1>0, <1>8 DEF BureauAnswers, Goto
  <2>6. QED
    BY <2>3, <2>4, <2>5
<1>9. ASSUME NEW r \in Requests, BureauFails(r)
      PROVE  CInv'
  <2>1. \A h \in Requests, c \in ProviderFailures : FailedWith(h, c) => FailedWith(h, c)'
    BY <1>0, <1>9 DEF BureauFails, PullCauses
  <2>2. /\ UNCHANGED <<claim, enquired, result>>
        /\ \E to \in {"store", "release"} : pc' = [pc EXCEPT ![r] = to]
    BY <1>9 DEF BureauFails, Goto
  <2>3. FailedRowIsReal'
    BY <1>0, <2>1, <2>2 DEF ClaimRows, NoClaim
  <2>4. CauseIsReal'
    <3> SUFFICES ASSUME NEW s \in Requests, result[s].kind = "unavailable",
                        result[s].cause # "WAIT_EXPIRED"
                 PROVE  \E h \in Requests : h \in enquired /\ FailedWith(h, result[s].cause)'
      BY <2>2
    <3>1. result[s].cause \in ProviderFailures
      BY DEF Results
    <3>2. QED
      BY <2>1, <2>2, <3>1
  <2>5. UndecidedUntilDone' /\ AnswersWereAskedFor'
    BY <1>0, <1>9 DEF BureauFails, PullCauses, Goto
  <2>6. QED
    BY <2>3, <2>4, <2>5
<1>10. ASSUME NEW r \in Requests, Store(r)
      PROVE  CInv'
  BY <1>0, <1>10 DEF Store, Goto, Return, Done
<1>11. ASSUME NEW r \in Requests, StoreFails(r)
      PROVE  CInv'
  <2>1. \A h \in Requests, c \in ProviderFailures : FailedWith(h, c) => FailedWith(h, c)'
    BY <1>0, <1>11 DEF StoreFails
  <2>2. /\ UNCHANGED <<claim, enquired, result>>
        /\ \E to \in {"store", "release"} : pc' = [pc EXCEPT ![r] = to]
    BY <1>11 DEF StoreFails, Goto
  <2>3. FailedRowIsReal'
    BY <1>0, <2>1, <2>2 DEF ClaimRows, NoClaim
  <2>4. CauseIsReal'
    <3> SUFFICES ASSUME NEW s \in Requests, result[s].kind = "unavailable",
                        result[s].cause # "WAIT_EXPIRED"
                 PROVE  \E h \in Requests : h \in enquired /\ FailedWith(h, result[s].cause)'
      BY <2>2
    <3>1. result[s].cause \in ProviderFailures
      BY DEF Results
    <3>2. QED
      BY <2>1, <2>2, <3>1
  <2>5. UndecidedUntilDone' /\ AnswersWereAskedFor'
    BY <1>0, <1>11 DEF StoreFails, Goto
  <2>6. QED
    BY <2>3, <2>4, <2>5
<1>12. ASSUME NEW r \in Requests, Release(r)
      PROVE  CInv'
  BY <1>0, <1>12 DEF Release, Goto, Return, Failed, ReleaseCause
<1>13. ASSUME NEW r \in Requests, ReadDone(r)
      PROVE  CInv'
  BY <1>0, <1>13 DEF ReadDone, Goto, Return
<1>14. ASSUME NEW r \in Requests, ReadFailed(r)
      PROVE  CInv'
  BY <1>0, <1>14 DEF ReadFailed, Goto, Return, NoClaim, ClaimRows
<1>15. ASSUME NEW r \in Requests, StopPolling(r)
      PROVE  CInv'
  BY <1>0, <1>15 DEF StopPolling, Goto, Return
<1>16. ASSUME NEW r \in Requests, Reread(r)
      PROVE  CInv'
  BY <1>0, <1>16 DEF Reread, Goto, Return
<1>17. ASSUME NEW r \in Requests, ReadTable(r)
      PROVE  CInv'
  BY <1>0, <1>17 DEF ReadTable, Goto, Return
<1>18. ASSUME NEW r \in Requests, Crash(r)
      PROVE  CInv'
  BY <1>0, <1>18 DEF Crash, Goto, Return
<1>19. CASE PurgeClaim
  BY <1>0, <1>19 DEF PurgeClaim, NoClaim
<1>20. CASE Tick
  BY <1>0, <1>20 DEF Tick
<1>21. CASE UNCHANGED vars
  BY <1>0, <1>21 DEF vars
<1>22. QED
  BY <1>1, <1>2, <1>3, <1>4, <1>5, <1>6, <1>7, <1>8, <1>9, <1>10, <1>11, <1>12, <1>13, <1>14, <1>15, <1>16, <1>17, <1>18, <1>19, <1>20, <1>21
     DEF Next, GetReport

\* No waiter, and no winner, reports a failure nobody had: also when stalled
\* holders lose their row to somebody else.
THEOREM CauseIsRealAlways == Spec => []CauseIsReal
<1>1. Init => CInv
  BY DEF Init, CInv, UndecidedUntilDone, AnswersWereAskedFor, FailedRowIsReal, CauseIsReal,
         NoClaim, Nothing, Enquiring
<1>2. TypeOK /\ CInv /\ [Next]_vars => CInv'
  BY CauseStep
<1>3. CInv => CauseIsReal
  BY DEF CInv
<1>4. QED
  BY <1>1, <1>2, <1>3, TypeCorrect, PTL DEF Spec

\* Nobody looks at the report table for the last time before its deadline.
GivesUpAfterDeadline ==
    \A r \in Requests :
        pc[r] \in {"reread", "table"} \/ result[r] = Unavailable("WAIT_EXPIRED") =>
            deadline[r] <= time

WInv == UndecidedUntilDone /\ AnswersWereAskedFor /\ GivesUpAfterDeadline
            /\ WaitExpiredOnlyWithoutReport

\* Every step keeps the last look honest.
LEMMA LastLookStep == ASSUME TypeOK, WInv, [Next]_vars PROVE WInv'
<1> USE GatewayConstants
<1>0. TypeOK /\ TypeOK'
  BY TypeStep
<1> USE DEF WInv, UndecidedUntilDone, TypeOK, Stages, Active, Enquiring, AnswersWereAskedFor,
            GivesUpAfterDeadline, WaitExpiredOnlyWithoutReport, ProviderFailures, Threw,
            Nothing, GotReport, Unavailable, ReportRows
<1>1. ASSUME NEW r \in Requests, Arrive(r)
      PROVE  WInv'
  BY <1>0, <1>1 DEF Arrive, Goto, Return
<1>2. ASSUME NEW r \in Requests, Reuse(r)
      PROVE  WInv'
  BY <1>0, <1>2 DEF Reuse, Goto, Return
<1>3. ASSUME NEW r \in Requests, WinClaim(r)
      PROVE  WInv'
  BY <1>0, <1>3 DEF WinClaim, Goto, Return
<1>4. ASSUME NEW r \in Requests, LoseClaim(r)
      PROVE  WInv'
  BY <1>0, <1>4 DEF LoseClaim, Goto, Return
<1>5. ASSUME NEW r \in Requests, RecordPull(r)
      PROVE  WInv'
  BY <1>0, <1>5 DEF RecordPull, Goto, Return
<1>6. ASSUME NEW r \in Requests, RecordPullThrows(r)
      PROVE  WInv'
  BY <1>0, <1>6 DEF RecordPullThrows, Goto, Return
<1>7. ASSUME NEW r \in Requests, Ask(r)
      PROVE  WInv'
  BY <1>0, <1>7 DEF Ask, Goto, Return
<1>8. ASSUME NEW r \in Requests, BureauAnswers(r)
      PROVE  WInv'
  BY <1>0, <1>8 DEF BureauAnswers, Goto, Return
<1>9. ASSUME NEW r \in Requests, BureauFails(r)
      PROVE  WInv'
  BY <1>0, <1>9 DEF BureauFails, Goto, Return, PullCauses
<1>10. ASSUME NEW r \in Requests, Store(r)
      PROVE  WInv'
  BY <1>0, <1>10 DEF Store, Goto, Return
<1>11. ASSUME NEW r \in Requests, StoreFails(r)
      PROVE  WInv'
  BY <1>0, <1>11 DEF StoreFails, Goto, Return
<1>12. ASSUME NEW r \in Requests, Release(r)
      PROVE  WInv'
  BY <1>0, <1>12 DEF Release, Goto, Return
<1>13. ASSUME NEW r \in Requests, ReadDone(r)
      PROVE  WInv'
  BY <1>0, <1>13 DEF ReadDone, Goto, Return
<1>14. ASSUME NEW r \in Requests, ReadFailed(r)
      PROVE  WInv'
  BY <1>0, <1>14 DEF ReadFailed, Goto, Return, NoClaim, ClaimRows
<1>15. ASSUME NEW r \in Requests, StopPolling(r)
      PROVE  WInv'
  BY <1>0, <1>15 DEF StopPolling, Goto, Return
<1>16. ASSUME NEW r \in Requests, Reread(r)
      PROVE  WInv'
  BY <1>0, <1>16 DEF Reread, Goto, Return
<1>17. ASSUME NEW r \in Requests, ReadTable(r)
      PROVE  WInv'
  BY <1>0, <1>17 DEF ReadTable, Goto, Return, Reusable, Latest
<1>18. ASSUME NEW r \in Requests, Crash(r)
      PROVE  WInv'
  BY <1>0, <1>18 DEF Crash, Goto, Return
<1>19. CASE PurgeClaim
  BY <1>0, <1>19 DEF PurgeClaim
<1>20. CASE Tick
  BY <1>0, <1>20 DEF Tick
<1>21. CASE UNCHANGED vars
  BY <1>0, <1>21 DEF vars
<1>22. QED
  BY <1>1, <1>2, <1>3, <1>4, <1>5, <1>6, <1>7, <1>8, <1>9, <1>10, <1>11, <1>12, <1>13, <1>14, <1>15, <1>16, <1>17, <1>18, <1>19, <1>20, <1>21
     DEF Next, GetReport

\* The wait ends in WAIT_EXPIRED only when no report was there to be used,
\* however often the claim row changed hands while the request waited.
THEOREM WaitExpiredOnlyWithoutReportAlways == Spec => []WaitExpiredOnlyWithoutReport
<1>1. Init => WInv
  BY DEF Init, WInv, UndecidedUntilDone, AnswersWereAskedFor, GivesUpAfterDeadline,
         WaitExpiredOnlyWithoutReport, Nothing, Unavailable, Enquiring
<1>2. TypeOK /\ WInv /\ [Next]_vars => WInv'
  BY LastLookStep
<1>3. WInv => WaitExpiredOnlyWithoutReport
  BY DEF WInv
<1>4. QED
  BY <1>1, <1>2, <1>3, TypeCorrect, PTL DEF Spec
=============================================================================
