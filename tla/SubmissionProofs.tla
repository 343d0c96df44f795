-------------------------- MODULE SubmissionProofs --------------------------
(***************************************************************************)
(* Proofs about submissions, for any number of requests, any bodies and    *)
(* any timing.                                                             *)
(***************************************************************************)
EXTENDS Submission, TLAPS, FiniteSetTheorems

\* The stages in which a request works on an application it knows.
Working == {"resume", "lookup", "pulled", "close", "recover", "look"}

\* An application a request works on has a row, and a request that has inserted
\* none yet has none: the insert of Persist is always the first.
RowsOfRequests ==
    \A r \in Requests :
        /\ pc[r] \in Working => app[r] \in Requests /\ status[app[r]] # "ABSENT"
        /\ pc[r] \in {"idle", "claim", "peek", "persist"} => status[r] = "ABSENT"

\* What a request holds in memory is there by the time it needs it.
HeldInMemory ==
    \A r \in Requests :
        /\ pc[r] = "close" => found[r] # "none" /\ verdict[r] # "none"
        /\ pc[r] = "look" => seen[r] # "ABSENT"

\* The key's application has a row, and a completed key holds a true answer.
KeyIsTrue ==
    key # NoKey =>
        /\ key.app # NoApp => status[key.app] # "ABSENT"
        /\ key.state = "COMPLETED" =>
               key.body \in Envelopes /\ decision[key.body.app] = key.body.verdict

\* The status of an application follows from its verdict and its outcome.
StatusTellsTheDecision ==
    \A a \in Requests :
        /\ decision[a] = "none" =>
               outcome[a] = "none" /\ status[a] \in {"ABSENT", "RECEIVED", "ABANDONED"}
        /\ decision[a] \in {"APPROVED", "DECLINED"} =>
               outcome[a] = "none" /\ status[a] = "PRE_DECIDED"
        /\ decision[a] = "MANUAL_REVIEW" =>
               status[a] = IF outcome[a] = "none" THEN "IN_REVIEW" ELSE "REVIEW_CLOSED"

Rest ==
    /\ RowsOfRequests
    /\ HeldInMemory
    /\ KeyIsTrue
    /\ StatusTellsTheDecision
    /\ AnswerIsTheDecision

IInv == TypeOK /\ Rest

\* The closing trail is a sequence of events.
LEMMA ClosingTrailType ==
    ASSUME NEW how \in {"knockout", "unavailable", "attached"}, NEW v \in Verdicts
    PROVE  ClosingTrail(how, v) \in Seq(Events)
<1> DEFINE first == CASE how = "knockout"    -> "SCREENING_FAILED"
                      [] how = "unavailable" -> "BUREAU_UNAVAILABLE"
                      [] how = "attached"    -> "BUREAU_REPORT_ATTACHED"
           rest == IF v = "MANUAL_REVIEW" THEN <<"REVIEW_OPENED">> ELSE <<>>
<1>1. first \in Events
  BY DEF Events
<1>2. <<first, "PRE_DECISION_MADE">> \in Seq(Events)
  BY <1>1 DEF Events
<1>3. rest \in Seq(Events)
  <2>1. <<"REVIEW_OPENED">> \in Seq(Events)
    BY DEF Events
  <2>2. << >> \in Seq(Events)
    OBVIOUS
  <2>3. QED
    BY <2>1, <2>2
<1>4. <<first, "PRE_DECISION_MADE">> \o rest \in Seq(Events)
  <2> HIDE DEF first, rest
  <2>1. QED
    BY <1>2, <1>3
<1>5. ClosingTrail(how, v) = <<first, "PRE_DECISION_MADE">> \o rest
  BY DEF ClosingTrail
<1>6. QED
  BY <1>4, <1>5

\* What the updates of the key row make of it.
LEMMA KeyUpdates ==
    ASSUME key \in Keys
    PROVE  /\ key # NoKey
           /\ \A r \in Requests : [key EXCEPT !.app = r] \in Keys
           /\ [key EXCEPT !.state = "ABANDONED"] \in Keys
           /\ \A b \in Envelopes : [key EXCEPT !.state = "COMPLETED", !.body = b] \in Keys
<1>1. /\ key.state \in {"IN_PROGRESS", "COMPLETED", "ABANDONED"}
      /\ key.fingerprint \in {BodyOf[r] : r \in Requests}
      /\ key.lease \in Nat /\ key.expires \in Nat
      /\ key.app \in Requests \cup {NoApp}
      /\ key.body \in Envelopes \cup {NoBody}
  BY DEF Keys
<1>2. key # NoKey
  BY <1>1 DEF NoKey
<1>3. ASSUME NEW r \in Requests
      PROVE  [key EXCEPT !.app = r] \in Keys
  BY DEF Keys
<1>4. [key EXCEPT !.state = "ABANDONED"] \in Keys
  BY DEF Keys
<1>5. ASSUME NEW b \in Envelopes
      PROVE  [key EXCEPT !.state = "COMPLETED", !.body = b] \in Keys
  BY DEF Keys
<1>6. QED
  BY <1>2, <1>3, <1>4, <1>5

\* An answer about an application carries an envelope.
LEMMA AnswersHaveBodies ==
    ASSUME NEW value \in Replies, value.kind \in {"replayed", "decided"}
    PROVE  value.body \in Envelopes
<1>1. value # NoReply /\ value # Failed
  BY DEF NoReply, Failed
<1>2. ASSUME NEW w \in Refusals, value = Refused(w)
      PROVE  FALSE
  BY <1>2 DEF Refused
<1>3. value \in [kind : {"replayed", "decided"}, body : Envelopes]
  BY <1>1, <1>2 DEF Replies
<1>4. QED
  BY <1>3

\* A call that returns leaves well-typed variables behind.
LEMMA AnswerTypes ==
    ASSUME TypeOK, NEW r \in Requests, NEW value \in Replies, Answer(r, value)
    PROVE  /\ pc' \in [Requests -> Active \cup {"idle", "done"}]
           /\ now' \in [Requests -> Nat]
           /\ app' \in [Requests -> Requests \cup {NoApp}]
           /\ seen' \in [Requests -> Statuses \cup {"ABSENT"}]
           /\ found' \in [Requests -> {"none", "attached", "unavailable", "knockout"}]
           /\ verdict' \in [Requests -> Verdicts \cup {"none"}]
           /\ reply' \in [Requests -> Replies]
  BY DEF TypeOK, Answer, Goto

\* Every step keeps the types; a replay has one because its key was true.
LEMMA TypeStep == IInv /\ [Next]_vars => TypeOK'
<1> USE SubmissionConstants
<1> SUFFICES ASSUME IInv, [Next]_vars
             PROVE  TypeOK'
  OBVIOUS
<1> USE DEF IInv, Rest, TypeOK, RowsOfRequests, HeldInMemory, KeyIsTrue, Working, Active
<1>1. ASSUME NEW r \in Requests, Arrive(r)
      PROVE  TypeOK'
  BY <1>1 DEF Arrive, Goto, Active, rows, local
<1>2. ASSUME NEW r \in Requests, ClaimStarted(r)
      PROVE  TypeOK'
  BY <1>2 DEF ClaimStarted, Goto, ClaimedRow, Keys, NoBody, rows, local
<1>3. ASSUME NEW r \in Requests, ClaimResumed(r)
      PROVE  TypeOK'
<2>1. key \in Keys /\ key.app \in Requests
  BY <1>3 DEF ClaimResumed, Keys
<2>2. ClaimedRow(r, key.app) \in Keys
  BY <2>1 DEF ClaimedRow, Keys, NoBody
<2>3. QED
  BY <1>3, <2>1, <2>2 DEF ClaimResumed, Goto, rows
<1>4. ASSUME NEW r \in Requests, ClaimRefused(r)
      PROVE  TypeOK'
  BY <1>4 DEF ClaimRefused, Goto, rows, local
<1>5. ASSUME NEW r \in Requests, Peek(r)
      PROVE  TypeOK'
  BY <1>5 DEF Peek, Answer, Goto, Replies, Refused, Refusals, Replayed, Envelopes, Keys, rows, local
<1>6. ASSUME NEW r \in Requests, Persist(r)
      PROVE  TypeOK'
<2>1. key' \in Keys \cup {NoKey}
  BY <1>6, KeyUpdates DEF Persist
<2>2. trail' \in [Requests -> Seq(Events)]
  BY <1>6 DEF Persist, Events
<2>3. QED
  BY <1>6, <2>1, <2>2 DEF Persist, Goto, Statuses
<1>7. ASSUME NEW r \in Requests, ReadApplication(r)
      PROVE  TypeOK'
  BY <1>7 DEF ReadApplication, Goto, rows, local
<1>8. ASSUME NEW r \in Requests, Look(r)
      PROVE  TypeOK'
<2>1. CASE decision[app[r]] = "none"
  <3>1. pc' = [pc EXCEPT ![r] = "lookup"] /\ UNCHANGED <<time, key, rows, local, reply>>
    BY <1>8, <2>1 DEF Look, Goto
  <3>2. QED
    BY <3>1 DEF rows, local
<2>2. CASE decision[app[r]] # "none"
  <3> DEFINE body == [app |-> app[r], status |-> seen[r], verdict |-> decision[app[r]],
                      review |-> ReviewState(app[r])]
  <3>1. body \in Envelopes
    <4>1. app[r] \in Requests /\ seen[r] \in Statuses /\ decision[app[r]] \in Verdicts
      BY <1>8, <2>2 DEF Look
    <4>2. ReviewState(app[r]) \in ReviewStates
      BY DEF ReviewState, ReviewStates
    <4>3. QED
      BY <4>1, <4>2 DEF Envelopes
  <3>2. Decided(body) \in Replies
    BY <3>1 DEF Decided, Replies
  <3>3. Answer(r, Decided(body)) /\ UNCHANGED <<time, key, rows>>
    BY <1>8, <2>2 DEF Look
  <3>4. QED
    BY <3>2, <3>3, AnswerTypes DEF rows
<2>3. QED
  BY <2>1, <2>2
<1>9. ASSUME NEW r \in Requests, Knockout(r)
      PROVE  TypeOK'
  BY <1>9 DEF Knockout, Goto, Verdicts, rows, local
<1>10. ASSUME NEW r \in Requests, PullRequested(r)
      PROVE  TypeOK'
  BY <1>10 DEF PullRequested, Goto, Events, rows, local
<1>11. ASSUME NEW r \in Requests, LookupReturns(r)
      PROVE  TypeOK'
<2>1. PICK v \in Verdicts : verdict' = [verdict EXCEPT ![r] = v]
  BY <1>11 DEF LookupReturns
<2>2. PICK how \in {"attached", "unavailable"} : found' = [found EXCEPT ![r] = how]
  BY <1>11, Zenon DEF LookupReturns
<2>3. found' \in [Requests -> {"none", "attached", "unavailable", "knockout"}]
  BY <2>2
<2>4. pc' = [pc EXCEPT ![r] = "close"] /\ UNCHANGED <<time, key, rows, now, app, seen, reply>>
  BY <1>11 DEF LookupReturns, Goto
<2>5. QED
  BY <2>1, <2>3, <2>4 DEF rows
<1>12. ASSUME NEW r \in Requests, CloseSubmission(r)
      PROVE  TypeOK'
<2> DEFINE a == app[r]
           v == verdict[r]
           body == [app |-> a, status |-> StatusFor(v), verdict |-> v,
                    review |-> IF v = "MANUAL_REVIEW" THEN "PENDING" ELSE "none"]
<2>1. a \in Requests /\ v \in Verdicts /\ found[r] \in {"knockout", "unavailable", "attached"}
  BY <1>12 DEF CloseSubmission
<2>2. body \in Envelopes /\ StatusFor(v) \in Statuses
  BY <2>1 DEF StatusFor, Envelopes, Statuses, ReviewStates
<2>3. key' \in Keys \cup {NoKey}
  BY <1>12, <2>2, KeyUpdates DEF CloseSubmission
<2>4. trail' \in [Requests -> Seq(Events)]
  <3>1. ClosingTrail(found[r], v) \in Seq(Events)
    BY <2>1, ClosingTrailType
  <3>2. trail[a] \o ClosingTrail(found[r], v) \in Seq(Events)
    BY <2>1, <3>1
  <3>3. QED
    BY <1>12, <2>1, <3>2 DEF CloseSubmission
<2>5. reply' \in [Requests -> Replies]
  BY <1>12, <2>2 DEF CloseSubmission, Answer, Decided, Replies
<2>6. QED
  BY <1>12, <2>1, <2>2, <2>3, <2>4, <2>5 DEF CloseSubmission, Answer, Goto
<1>13. ASSUME NEW r \in Requests, DuplicateVerdict(r)
      PROVE  TypeOK'
  BY <1>13 DEF DuplicateVerdict, Goto, rows, local
<1>14. ASSUME NEW r \in Requests, Crash(r)
      PROVE  TypeOK'
  BY <1>14 DEF Crash, Answer, Goto, Replies, rows, local
<1>15. ASSUME NEW a \in Requests, NEW o \in Outcomes, CloseReview(a, o)
      PROVE  TypeOK'
  BY <1>15 DEF CloseReview, Statuses, Events, rows, local
<1>16. ASSUME NEW a \in Requests, Sweep(a)
      PROVE  TypeOK'
<2>1. key' \in Keys \cup {NoKey}
  BY <1>16, KeyUpdates DEF Sweep
<2>2. trail' \in [Requests -> Seq(Events)]
  BY <1>16 DEF Sweep, Events
<2>3. QED
  BY <1>16, <2>1, <2>2 DEF Sweep, Statuses, local
<1>17. CASE PurgeKey
  BY <1>17 DEF PurgeKey, rows, local
<1>18. CASE Tick
  BY <1>18 DEF Tick, rows, local
<1>19. CASE UNCHANGED vars
  BY <1>19 DEF vars, rows, local
<1>20. QED
  BY <1>1, <1>2, <1>3, <1>4, <1>5, <1>6, <1>7, <1>8, <1>9, <1>10, <1>11, <1>12, <1>13, <1>14, <1>15, <1>16, <1>17, <1>18, <1>19
     DEF Next, Submit, Sweeper, Reviewer

\* Every step keeps the rest of the invariant.
LEMMA RestStep == IInv /\ [Next]_vars => Rest'
<1> SUFFICES ASSUME IInv, [Next]_vars
             PROVE  Rest'
  OBVIOUS
<1>0. TypeOK /\ Rest
  BY DEF IInv, Rest
<1> USE DEF Rest, RowsOfRequests, HeldInMemory, KeyIsTrue, StatusTellsTheDecision,
            AnswerIsTheDecision, Working
<1>1. ASSUME NEW r \in Requests, Arrive(r)
      PROVE  Rest'
  BY <1>0, <1>1 DEF TypeOK, Arrive, Goto, rows, local
<1>2. ASSUME NEW r \in Requests, ClaimStarted(r)
      PROVE  Rest'
  BY <1>0, <1>2 DEF TypeOK, ClaimStarted, Goto, ClaimedRow, rows, local
<1>3. ASSUME NEW r \in Requests, ClaimResumed(r)
      PROVE  Rest'
<2>1. key \in Keys /\ key.app \in Requests
  BY <1>0, <1>3 DEF TypeOK, ClaimResumed, Keys
<2>2. app' = [app EXCEPT ![r] = key.app] /\ pc' = [pc EXCEPT ![r] = "resume"]
  BY <1>3 DEF ClaimResumed, Goto
<2>3. RowsOfRequests'
  BY <1>0, <1>3, <2>1, <2>2 DEF TypeOK, ClaimResumed, rows
<2>4. QED
  BY <1>0, <1>3, <2>3 DEF TypeOK, ClaimResumed, ClaimedRow, Goto, rows
<1>4. ASSUME NEW r \in Requests, ClaimRefused(r)
      PROVE  Rest'
  BY <1>0, <1>4 DEF TypeOK, ClaimRefused, Goto, rows, local
<1>5. ASSUME NEW r \in Requests, Peek(r)
      PROVE  Rest'
<2>1. PICK value :
          /\ Answer(r, value)
          /\ value.kind # "decided"
          /\ value.kind = "replayed" =>
                 key # NoKey /\ key.state = "COMPLETED" /\ value.body = key.body
  BY <1>5 DEF Peek, Refused, Replayed
<2>2. UNCHANGED <<time, key, rows>>
  BY <1>5 DEF Peek
<2>3. QED
  BY <1>0, <2>1, <2>2 DEF TypeOK, Answer, Goto, rows
<1>6. ASSUME NEW r \in Requests, Persist(r)
      PROVE  Rest'
  BY <1>0, <1>6 DEF TypeOK, Persist, Goto, rows, local
<1>7. ASSUME NEW r \in Requests, ReadApplication(r)
      PROVE  Rest'
  BY <1>0, <1>7 DEF TypeOK, ReadApplication, Goto, rows, local
<1>8. ASSUME NEW r \in Requests, Look(r)
      PROVE  Rest'
<2>1. CASE decision[app[r]] = "none"
  <3>1. pc' = [pc EXCEPT ![r] = "lookup"] /\ UNCHANGED <<time, key, rows, local, reply>>
    BY <1>8, <2>1 DEF Look, Goto
  <3>2. QED
    BY <1>0, <1>8, <3>1 DEF TypeOK, Look, rows, local
<2>2. CASE decision[app[r]] # "none"
  <3>1. PICK value : Answer(r, value) /\ value.body.verdict = decision[value.body.app]
    BY <1>8, <2>2 DEF Look, Decided
  <3>2. UNCHANGED <<time, key, rows>>
    BY <1>8 DEF Look
  <3>3. QED
    BY <1>0, <3>1, <3>2 DEF TypeOK, Answer, Goto, rows
<2>3. QED
  BY <2>1, <2>2
<1>9. ASSUME NEW r \in Requests, Knockout(r)
      PROVE  Rest'
  BY <1>0, <1>9 DEF TypeOK, Knockout, Goto, rows, local
<1>10. ASSUME NEW r \in Requests, PullRequested(r)
      PROVE  Rest'
  BY <1>0, <1>10 DEF TypeOK, PullRequested, Goto, rows, local
<1>11. ASSUME NEW r \in Requests, LookupReturns(r)
      PROVE  Rest'
<2>1. PICK v \in Verdicts : verdict' = [verdict EXCEPT ![r] = v]
  BY <1>11 DEF LookupReturns
<2>2. PICK how \in {"attached", "unavailable"} : found' = [found EXCEPT ![r] = how]
  BY <1>11, Zenon DEF LookupReturns
<2>3. pc' = [pc EXCEPT ![r] = "close"] /\ UNCHANGED <<time, key, rows, now, app, seen, reply>>
  BY <1>11 DEF LookupReturns, Goto
<2>4. pc[r] \in {"lookup", "pulled"}
  BY <1>11 DEF LookupReturns
<2>5. QED
  BY <1>0, <2>1, <2>2, <2>3, <2>4 DEF TypeOK, Verdicts, rows
<1>12. ASSUME NEW r \in Requests, CloseSubmission(r)
      PROVE  Rest'
<2> DEFINE a == app[r]
           v == verdict[r]
           body == [app |-> a, status |-> StatusFor(v), verdict |-> v,
                    review |-> IF v = "MANUAL_REVIEW" THEN "PENDING" ELSE "none"]
<2>1. a \in Requests /\ v \in Verdicts /\ decision[a] = "none" /\ status[a] # "ABSENT"
  BY <1>0, <1>12 DEF TypeOK, CloseSubmission
<2>2. body \in Envelopes /\ body.app = a /\ body.verdict = v
  BY <2>1 DEF StatusFor, Envelopes, Statuses, ReviewStates
<2>3. /\ decision' = [decision EXCEPT ![a] = v]
      /\ status' = [status EXCEPT ![a] = StatusFor(v)]
      /\ key' = IF key = NoKey THEN NoKey ELSE [key EXCEPT !.state = "COMPLETED", !.body = body]
      /\ Answer(r, Decided(body))
      /\ UNCHANGED outcome
  BY <1>12 DEF CloseSubmission
<2> HIDE DEF a, v, body
<2>4. RowsOfRequests' /\ HeldInMemory'
  BY <1>0, <2>1, <2>3 DEF TypeOK, Answer, Goto, StatusFor
<2>5. KeyIsTrue'
  BY <1>0, <2>1, <2>2, <2>3 DEF TypeOK, Keys, StatusFor
<2>6. StatusTellsTheDecision'
  BY <1>0, <2>1, <2>3 DEF TypeOK, StatusFor, Verdicts
<2>7. AnswerIsTheDecision'
  <3>1. ASSUME NEW s \in Requests, s # r, reply[s].kind \in {"replayed", "decided"}
        PROVE  reply[s].body.app # a
    <4>1. reply[s].body \in Envelopes
      BY <1>0, <3>1, AnswersHaveBodies DEF TypeOK
    <4>2. reply[s].body.verdict \in Verdicts
      BY <4>1 DEF Envelopes
    <4>3. QED
      BY <1>0, <2>1, <3>1, <4>2 DEF Verdicts
  <3>2. reply' = [reply EXCEPT ![r] = Decided(body)]
    BY <2>3 DEF Answer
  <3>3. QED
    BY <1>0, <2>1, <2>2, <2>3, <3>1, <3>2 DEF TypeOK, Decided
<2>8. QED
  BY <2>4, <2>5, <2>6, <2>7
<1>13. ASSUME NEW r \in Requests, DuplicateVerdict(r)
      PROVE  Rest'
  BY <1>0, <1>13 DEF TypeOK, DuplicateVerdict, Goto, rows, local
<1>14. ASSUME NEW r \in Requests, Crash(r)
      PROVE  Rest'
  BY <1>0, <1>14 DEF TypeOK, Crash, Answer, Goto, Failed, rows, local
<1>15. ASSUME NEW a \in Requests, NEW o \in Outcomes, CloseReview(a, o)
      PROVE  Rest'
<2>1. decision[a] = "MANUAL_REVIEW" /\ outcome[a] = "none"
  BY <1>15 DEF CloseReview, ReviewState
<2>2. QED
  BY <1>0, <1>15, <2>1 DEF TypeOK, CloseReview, Outcomes, local
<1>16. ASSUME NEW a \in Requests, Sweep(a)
      PROVE  Rest'
  BY <1>0, <1>16 DEF TypeOK, Sweep, Keys, rows, local
<1>17. CASE PurgeKey
  BY <1>0, <1>17 DEF TypeOK, PurgeKey, rows, local
<1>18. CASE Tick
  BY <1>0, <1>18 DEF TypeOK, Tick, rows, local
<1>19. CASE UNCHANGED vars
  BY <1>0, <1>19 DEF TypeOK, vars, rows, local
<1>20. QED
  BY <1>1, <1>2, <1>3, <1>4, <1>5, <1>6, <1>7, <1>8, <1>9, <1>10, <1>11, <1>12, <1>13, <1>14, <1>15, <1>16, <1>17, <1>18, <1>19
     DEF Next, Submit, Sweeper, Reviewer

\* The invariant holds for every timing and every race.
LEMMA InvHolds == Spec => []IInv
<1>1. Init => IInv
  BY SubmissionConstants
     DEF Init, IInv, TypeOK, Active, Replies, Rest, RowsOfRequests, HeldInMemory, KeyIsTrue,
         StatusTellsTheDecision, AnswerIsTheDecision, Working, NoReply, NoKey
<1>2. IInv /\ [Next]_vars => IInv'
  BY TypeStep, RestStep DEF IInv
<1>3. QED
  BY <1>1, <1>2, PTL DEF Spec

\* Every variable keeps its type: no answer, stored or given, is a body without
\* an application or a verdict.
THEOREM TypeCorrect == Spec => []TypeOK
<1>1. IInv => TypeOK
  BY DEF IInv
<1>2. QED
  BY <1>1, InvHolds, PTL

\* Nobody is told a verdict the database does not hold, with no assumption about
\* leases, about the sweeper, or about the bodies sent under one key.
THEOREM AnswerIsTheDecisionAlways == Spec => []AnswerIsTheDecision
<1>1. IInv => AnswerIsTheDecision
  BY DEF IInv, Rest
<1>2. QED
  BY <1>1, InvHolds, PTL

-----------------------------------------------------------------------------
(***************************************************************************)
(* The state machine of the architecture document.                         *)
(*                                                                         *)
(* The closing transaction never looks at the status, so that it starts    *)
(* from RECEIVED has to follow from who can be holding the application: a  *)
(* key in progress never names an abandoned one, and a request never holds *)
(* one unless the sweeper took it from under the request.                  *)
(***************************************************************************)
NobodyHoldsTheDead ==
    /\ \A r \in Requests : pc[r] \in Working => status[app[r]] # "ABANDONED"
    /\ key # NoKey /\ key.state = "IN_PROGRESS" /\ key.app # NoApp =>
           status[key.app] # "ABANDONED"

\* A sweeper that leaves applications in use alone keeps it so.
LEMMA LivingStep ==
    ASSUME ~SweepRaces, IInv, NobodyHoldsTheDead, [Next]_vars
    PROVE  NobodyHoldsTheDead'
<1>0. TypeOK /\ Rest /\ NobodyHoldsTheDead
  BY DEF IInv
<1> USE DEF NobodyHoldsTheDead, Rest, RowsOfRequests, KeyIsTrue, Working
<1>1. ASSUME NEW r \in Requests, Arrive(r)
      PROVE  NobodyHoldsTheDead'
  BY <1>0, <1>1 DEF TypeOK, Arrive, Goto, rows, local
<1>2. ASSUME NEW r \in Requests, ClaimStarted(r)
      PROVE  NobodyHoldsTheDead'
  BY <1>0, <1>2 DEF TypeOK, ClaimStarted, Goto, ClaimedRow, rows, local
<1>3. ASSUME NEW r \in Requests, ClaimResumed(r)
      PROVE  NobodyHoldsTheDead'
<2>1. key # NoKey /\ key.state = "IN_PROGRESS" /\ key.app \in Requests /\ key.app # NoApp
  BY <1>0, <1>3, SubmissionConstants DEF TypeOK, ClaimResumed, Keys
<2>2. app' = [app EXCEPT ![r] = key.app] /\ pc' = [pc EXCEPT ![r] = "resume"] /\ status' = status
  BY <1>3 DEF ClaimResumed, Goto, rows
<2>3. key' # NoKey /\ key'.app = key.app
  BY <1>3 DEF ClaimResumed, ClaimedRow, NoKey
<2>4. QED
  BY <1>0, <2>1, <2>2, <2>3 DEF TypeOK
<1>4. ASSUME NEW r \in Requests, ClaimRefused(r)
      PROVE  NobodyHoldsTheDead'
  BY <1>0, <1>4 DEF TypeOK, ClaimRefused, Goto, rows, local
<1>5. ASSUME NEW r \in Requests, Peek(r)
      PROVE  NobodyHoldsTheDead'
  BY <1>0, <1>5 DEF TypeOK, Peek, Answer, Goto, rows, local
<1>6. ASSUME NEW r \in Requests, Persist(r)
      PROVE  NobodyHoldsTheDead'
  BY <1>0, <1>6 DEF TypeOK, Persist, Goto, Keys, rows, local
<1>7. ASSUME NEW r \in Requests, ReadApplication(r)
      PROVE  NobodyHoldsTheDead'
  BY <1>0, <1>7 DEF TypeOK, ReadApplication, Goto, rows, local
<1>8. ASSUME NEW r \in Requests, Look(r)
      PROVE  NobodyHoldsTheDead'
<2>1. CASE decision[app[r]] = "none"
  <3>1. pc' = [pc EXCEPT ![r] = "lookup"] /\ UNCHANGED <<time, key, rows, local, reply>>
    BY <1>8, <2>1 DEF Look, Goto
  <3>2. QED
    BY <1>0, <1>8, <3>1 DEF TypeOK, Look, rows, local
<2>2. CASE decision[app[r]] # "none"
  <3>1. pc' = [pc EXCEPT ![r] = "done"] /\ app' = [app EXCEPT ![r] = NoApp]
    BY <1>8, <2>2 DEF Look, Answer, Goto
  <3>2. UNCHANGED <<time, key, rows>>
    BY <1>8 DEF Look
  <3>3. QED
    BY <1>0, <3>1, <3>2 DEF TypeOK, rows
<2>3. QED
  BY <2>1, <2>2
<1>9. ASSUME NEW r \in Requests, Knockout(r)
      PROVE  NobodyHoldsTheDead'
  BY <1>0, <1>9 DEF TypeOK, Knockout, Goto, rows, local
<1>10. ASSUME NEW r \in Requests, PullRequested(r)
      PROVE  NobodyHoldsTheDead'
  BY <1>0, <1>10 DEF TypeOK, PullRequested, Goto, rows, local
<1>11. ASSUME NEW r \in Requests, LookupReturns(r)
      PROVE  NobodyHoldsTheDead'
<2>1. pc' = [pc EXCEPT ![r] = "close"] /\ UNCHANGED <<time, key, rows, now, app, seen, reply>>
  BY <1>11 DEF LookupReturns, Goto
<2>2. pc[r] \in {"lookup", "pulled"}
  BY <1>11 DEF LookupReturns
<2>3. QED
  BY <1>0, <2>1, <2>2 DEF TypeOK, rows
<1>12. ASSUME NEW r \in Requests, CloseSubmission(r)
      PROVE  NobodyHoldsTheDead'
<2>1. /\ app[r] \in Requests
      /\ pc' = [pc EXCEPT ![r] = "done"]
      /\ app' = [app EXCEPT ![r] = NoApp]
      /\ status' = [status EXCEPT ![app[r]] = StatusFor(verdict[r])]
      /\ key' = NoKey \/ key'.state = "COMPLETED"
  BY <1>0, <1>12 DEF TypeOK, CloseSubmission, Answer, Goto, Keys
<2>2. StatusFor(verdict[r]) # "ABANDONED"
  BY DEF StatusFor
<2>3. QED
  BY <1>0, <2>1, <2>2 DEF TypeOK
<1>13. ASSUME NEW r \in Requests, DuplicateVerdict(r)
      PROVE  NobodyHoldsTheDead'
  BY <1>0, <1>13 DEF TypeOK, DuplicateVerdict, Goto, rows, local
<1>14. ASSUME NEW r \in Requests, Crash(r)
      PROVE  NobodyHoldsTheDead'
  BY <1>0, <1>14 DEF TypeOK, Crash, Answer, Goto, rows, local
<1>15. ASSUME NEW a \in Requests, NEW o \in Outcomes, CloseReview(a, o)
      PROVE  NobodyHoldsTheDead'
  BY <1>0, <1>15 DEF TypeOK, CloseReview, rows, local
<1>16. ASSUME NEW a \in Requests, Sweep(a)
      PROVE  NobodyHoldsTheDead'
<2>1. \A r \in Requests : pc[r] \in Working => app[r] # a
  BY <1>16 DEF Sweep, InUse, Active
<2>2. key' = NoKey \/ key'.state # "IN_PROGRESS" \/ (key' = key /\ key.app # a)
  BY <1>0, <1>16 DEF TypeOK, Sweep, Keys
<2>3. QED
  BY <1>0, <1>16, <2>1, <2>2 DEF TypeOK, Sweep, Keys, local
<1>17. CASE PurgeKey
  BY <1>0, <1>17 DEF TypeOK, PurgeKey, rows, local
<1>18. CASE Tick
  BY <1>0, <1>18 DEF TypeOK, Tick, rows, local
<1>19. CASE UNCHANGED vars
  BY <1>0, <1>19 DEF TypeOK, vars, rows, local
<1>20. QED
  BY <1>1, <1>2, <1>3, <1>4, <1>5, <1>6, <1>7, <1>8, <1>9, <1>10, <1>11, <1>12, <1>13, <1>14, <1>15, <1>16, <1>17, <1>18, <1>19
     DEF Next, Submit, Sweeper, Reviewer

\* Every step of the code is a step of the state machine, or none of its own.
LEMMA MachineStep ==
    ASSUME IInv, NobodyHoldsTheDead, [Next]_vars
    PROVE  [StateMachine!Next]_(StateMachine!vars)
<1>0. TypeOK /\ Rest /\ NobodyHoldsTheDead
  BY DEF IInv
<1> DEFINE Same == UNCHANGED <<status, decision, outcome>>
           Step == StateMachine!Next \/ Same
<1>1. ASSUME NEW r \in Requests, Persist(r)
      PROVE  Step
  <2>1. StateMachine!Receive(r)
    BY <1>0, <1>1 DEF Persist, Rest, RowsOfRequests, StateMachine!Receive
  <2>2. QED
    BY <2>1 DEF StateMachine!Next
<1>2. ASSUME NEW r \in Requests, CloseSubmission(r)
      PROVE  Step
  <2>1. app[r] \in Requests /\ verdict[r] \in Verdicts /\ decision[app[r]] = "none"
    BY <1>0, <1>2 DEF TypeOK, Rest, RowsOfRequests, HeldInMemory, Working, CloseSubmission
  <2>2. status[app[r]] = "RECEIVED"
    BY <1>0, <1>2, <2>1
       DEF Rest, RowsOfRequests, StatusTellsTheDecision, NobodyHoldsTheDead, Working, CloseSubmission
  <2>3. StateMachine!Decide(app[r], verdict[r])
    BY <1>2, <2>2 DEF CloseSubmission, StatusFor, StateMachine!Decide
  <2>4. QED
    BY <2>1, <2>3 DEF StateMachine!Next
<1>3. ASSUME NEW a \in Requests, NEW o \in Outcomes, CloseReview(a, o)
      PROVE  Step
  <2>1. status[a] = "IN_REVIEW"
    BY <1>0, <1>3 DEF CloseReview, ReviewState, Rest, StatusTellsTheDecision
  <2>2. StateMachine!Close(a, o)
    BY <1>3, <2>1 DEF CloseReview, StateMachine!Close
  <2>3. QED
    BY <2>2 DEF StateMachine!Next
<1>4. ASSUME NEW a \in Requests, Sweep(a)
      PROVE  Step
  <2>1. StateMachine!Abandon(a)
    BY <1>4 DEF Sweep, StateMachine!Abandon
  <2>2. QED
    BY <2>1 DEF StateMachine!Next
<1>5. ASSUME NEW r \in Requests,
             \/ Arrive(r) \/ Crash(r) \/ ClaimStarted(r) \/ ClaimResumed(r) \/ ClaimRefused(r)
             \/ Peek(r) \/ ReadApplication(r) \/ Look(r)
      PROVE  Same
  BY <1>5 DEF Arrive, Crash, ClaimStarted, ClaimResumed, ClaimRefused, Peek, ReadApplication,
              Look, rows
<1>6. ASSUME NEW r \in Requests,
             Knockout(r) \/ PullRequested(r) \/ LookupReturns(r) \/ DuplicateVerdict(r)
      PROVE  Same
  BY <1>6 DEF Knockout, PullRequested, LookupReturns, DuplicateVerdict, rows
<1>7. ASSUME PurgeKey \/ Tick \/ UNCHANGED vars
      PROVE  Same
  BY <1>7 DEF PurgeKey, Tick, vars, rows
<1>8. Step
  <2> HIDE DEF Same
  <2>1. QED
    BY <1>1, <1>2, <1>3, <1>4, <1>5, <1>6, <1>7 DEF Next, Submit, Sweeper, Reviewer
<1>9. QED
  BY <1>8 DEF StateMachine!vars

\* The code implements the state machine for any timing of its requests, as long
\* as the sweeper never reaches an application in use.
THEOREM SubmissionImplementsLifecycle == ~SweepRaces => (Spec => ImplementsLifecycle)
<1> SUFFICES ASSUME ~SweepRaces
             PROVE  Spec => ImplementsLifecycle
  OBVIOUS
<1>1. Init => StateMachine!Init /\ NobodyHoldsTheDead
  BY DEF Init, StateMachine!Init, NobodyHoldsTheDead, Working, NoKey
<1>2. IInv /\ NobodyHoldsTheDead /\ [Next]_vars => NobodyHoldsTheDead'
  BY LivingStep
<1>3. IInv /\ NobodyHoldsTheDead /\ [Next]_vars => [StateMachine!Next]_(StateMachine!vars)
  BY MachineStep
<1>4. QED
  BY <1>1, <1>2, <1>3, InvHolds, PTL DEF Spec, ImplementsLifecycle, StateMachine!Spec

-----------------------------------------------------------------------------
(***************************************************************************)
(* One verdict, one event, one review: DecisionIsWhole counts the events   *)
(* of a trail, so each step's effect on the counts comes first.            *)
(***************************************************************************)
Occurrences(s, x) == Cardinality({i \in DOMAIN s : s[i] = x})

\* Appending an event adds one occurrence of it and none of any other.
LEMMA OccurrencesOfAppend ==
    ASSUME NEW s \in Seq(Events), NEW e \in Events, NEW x \in Events
    PROVE  /\ Occurrences(s, x) \in Nat
           /\ Occurrences(Append(s, e), x) = Occurrences(s, x) + Times(e = x)
<1> DEFINE old == {i \in DOMAIN s : s[i] = x}
           new == {i \in DOMAIN Append(s, e) : Append(s, e)[i] = x}
           n == Len(s) + 1
<1>1. /\ DOMAIN s = 1 .. Len(s) /\ Len(s) \in Nat
      /\ DOMAIN Append(s, e) = 1 .. n
      /\ \A i \in 1 .. Len(s) : Append(s, e)[i] = s[i]
      /\ Append(s, e)[n] = e
  OBVIOUS
<1>2. IsFiniteSet(old)
  <2>1. IsFiniteSet(1 .. Len(s))
    BY <1>1, FS_Interval
  <2>2. QED
    BY <1>1, <2>1, FS_Subset
<1>3. Cardinality(old) \in Nat
  BY <1>2, FS_CardinalityType
<1>4. CASE e = x
  <2>1. new = old \cup {n} /\ n \notin old
    BY <1>1, <1>4
  <2>2. Cardinality(new) = Cardinality(old) + 1
    BY <1>2, <2>1, FS_AddElement
  <2>3. QED
    BY <1>3, <1>4, <2>2 DEF Occurrences, Times
<1>5. CASE e # x
  <2>1. new = old
    BY <1>1, <1>5
  <2>2. Occurrences(s, x) = Cardinality(old) /\ Occurrences(Append(s, e), x) = Cardinality(new)
    BY DEF Occurrences
  <2>3. Times(e = x) = 0
    BY <1>5 DEF Times
  <2> HIDE DEF old, new
  <2>4. QED
    BY <1>3, <2>1, <2>2, <2>3
<1>6. QED
  BY <1>4, <1>5

\* A trail of one event holds that event once.
LEMMA OccurrencesOfOne ==
    ASSUME NEW e \in Events, NEW x \in Events
    PROVE  Occurrences(<<e>>, x) = Times(e = x)
<1> DEFINE one == {i \in DOMAIN <<e>> : <<e>>[i] = x}
<1>1. DOMAIN <<e>> = {1} /\ <<e>>[1] = e
  OBVIOUS
<1>2. CASE e = x
  <2>1. one = {1}
    BY <1>1, <1>2
  <2>2. QED
    BY <1>2, <2>1, FS_Singleton DEF Occurrences, Times
<1>3. CASE e # x
  <2>1. one = {}
    BY <1>1, <1>3
  <2>2. QED
    BY <1>3, <2>1, FS_EmptySet DEF Occurrences, Times
<1>4. QED
  BY <1>2, <1>3

\* The closing trail adds one verdict, and one opened review to a referral.
LEMMA OccurrencesOfClosing ==
    ASSUME NEW s \in Seq(Events), NEW how \in {"knockout", "unavailable", "attached"},
           NEW v \in Verdicts, NEW x \in {"PRE_DECISION_MADE", "REVIEW_OPENED", "REVIEW_CLOSED"}
    PROVE  Occurrences(s \o ClosingTrail(how, v), x) =
               Occurrences(s, x) + Times(x = "PRE_DECISION_MADE")
                   + Times(x = "REVIEW_OPENED" /\ v = "MANUAL_REVIEW")
<1>1. PICK e \in {"SCREENING_FAILED", "BUREAU_UNAVAILABLE", "BUREAU_REPORT_ATTACHED"} :
          ClosingTrail(how, v) =
              <<e, "PRE_DECISION_MADE">> \o (IF v = "MANUAL_REVIEW" THEN <<"REVIEW_OPENED">> ELSE <<>>)
  BY DEF ClosingTrail
<1> DEFINE first == Append(s, e)
           second == Append(first, "PRE_DECISION_MADE")
           third == Append(second, "REVIEW_OPENED")
<1>2. e \in Events /\ x \in Events /\ "PRE_DECISION_MADE" \in Events /\ "REVIEW_OPENED" \in Events
  BY DEF Events
<1>3. first \in Seq(Events) /\ second \in Seq(Events) /\ third \in Seq(Events)
  BY <1>2
<1>4. /\ Occurrences(first, x) = Occurrences(s, x) /\ Occurrences(s, x) \in Nat
      /\ Occurrences(second, x) = Occurrences(first, x) + Times("PRE_DECISION_MADE" = x)
      /\ Occurrences(third, x) = Occurrences(second, x) + Times("REVIEW_OPENED" = x)
  <2>1. Occurrences(first, x) = Occurrences(s, x) + Times(e = x) /\ Occurrences(s, x) \in Nat
    BY <1>2, OccurrencesOfAppend
  <2>2. Times(e = x) = 0
    BY DEF Times
  <2>3. Occurrences(first, x) = Occurrences(s, x)
    BY <2>1, <2>2
  <2> HIDE DEF first
  <2>4. Occurrences(second, x) = Occurrences(first, x) + Times("PRE_DECISION_MADE" = x)
    BY <1>2, <1>3, OccurrencesOfAppend
  <2> HIDE DEF second
  <2>5. Occurrences(third, x) = Occurrences(second, x) + Times("REVIEW_OPENED" = x)
    BY <1>2, <1>3, OccurrencesOfAppend
  <2>6. QED
    BY <2>1, <2>3, <2>4, <2>5
<1>5. CASE v = "MANUAL_REVIEW"
  <2>1. s \o ClosingTrail(how, v) = third
    BY <1>1, <1>2, <1>5 DEF Events
  <2>2. QED
    <3> HIDE DEF first, second, third
    <3>1. QED
      BY <1>4, <1>5, <2>1 DEF Times
<1>6. CASE v # "MANUAL_REVIEW"
  <2>1. s \o ClosingTrail(how, v) = second
    BY <1>1, <1>2, <1>6 DEF Events
  <2>2. QED
    <3> HIDE DEF first, second, third
    <3>1. QED
      BY <1>4, <1>6, <2>1 DEF Times
<1>7. QED
  BY <1>5, <1>6

\* The events that say what was concluded, once each.
TrailTellsTheDecision ==
    \A a \in Requests :
        /\ Occurrences(trail[a], "PRE_DECISION_MADE") = Times(decision[a] # "none")
        /\ Occurrences(trail[a], "REVIEW_OPENED") = Times(decision[a] = "MANUAL_REVIEW")
        /\ Occurrences(trail[a], "REVIEW_CLOSED") = Times(outcome[a] # "none")

Concluding == {"PRE_DECISION_MADE", "REVIEW_OPENED", "REVIEW_CLOSED"}

\* An event that concludes nothing leaves the counts alone.
LEMMA OtherEvents ==
    ASSUME NEW s \in Seq(Events), NEW e \in Events \ Concluding, NEW x \in Concluding
    PROVE  Occurrences(Append(s, e), x) = Occurrences(s, x)
<1>1. x \in Events /\ Times(e = x) = 0
  BY DEF Events, Concluding, Times
<1>2. Occurrences(s, x) \in Nat /\ Occurrences(Append(s, e), x) = Occurrences(s, x) + Times(e = x)
  BY <1>1, OccurrencesOfAppend
<1>3. QED
  BY <1>1, <1>2

\* Every step keeps the counts.
LEMMA TrailStep ==
    ASSUME IInv, TrailTellsTheDecision, [Next]_vars
    PROVE  TrailTellsTheDecision'
<1>0. TypeOK /\ Rest
  BY DEF IInv
<1> DEFINE Same == UNCHANGED <<trail, decision, outcome>>
<1>1. ASSUME NEW r \in Requests, Persist(r)
      PROVE  TrailTellsTheDecision'
  <2>1. trail' = [trail EXCEPT ![r] = <<"APPLICATION_RECEIVED">>] /\ UNCHANGED <<decision, outcome>>
    BY <1>1 DEF Persist
  <2>2. decision[r] = "none" /\ outcome[r] = "none"
    BY <1>0, <1>1 DEF TypeOK, Persist, Rest, RowsOfRequests, StatusTellsTheDecision, Verdicts
  <2>3. \A x \in Concluding : Occurrences(<<"APPLICATION_RECEIVED">>, x) = 0
    BY OccurrencesOfOne DEF Events, Concluding, Times
  <2>4. QED
    BY <1>0, <2>1, <2>2, <2>3 DEF TypeOK, TrailTellsTheDecision, Concluding, Times
<1>2. ASSUME NEW r \in Requests, PullRequested(r)
      PROVE  TrailTellsTheDecision'
  <2>1. app[r] \in Requests
    BY <1>0, <1>2 DEF PullRequested, Rest, RowsOfRequests, Working
  <2>2. /\ trail' = [trail EXCEPT ![app[r]] = Append(trail[app[r]], "BUREAU_PULL_REQUESTED")]
        /\ UNCHANGED <<decision, outcome>>
    BY <1>2 DEF PullRequested
  <2>3. \A x \in Concluding :
            Occurrences(Append(trail[app[r]], "BUREAU_PULL_REQUESTED"), x) = Occurrences(trail[app[r]], x)
    BY <1>0, <2>1, OtherEvents DEF TypeOK, Events, Concluding
  <2>4. QED
    BY <1>0, <2>1, <2>2, <2>3 DEF TypeOK, TrailTellsTheDecision, Concluding
<1>3. ASSUME NEW r \in Requests, CloseSubmission(r)
      PROVE  TrailTellsTheDecision'
  <2> DEFINE a == app[r]
             v == verdict[r]
  <2>1. /\ a \in Requests /\ v \in Verdicts /\ decision[a] = "none" /\ outcome[a] = "none"
        /\ found[r] \in {"knockout", "unavailable", "attached"}
    BY <1>0, <1>3 DEF TypeOK, CloseSubmission, Rest, RowsOfRequests, HeldInMemory,
                      StatusTellsTheDecision, Working
  <2>2. /\ trail' = [trail EXCEPT ![a] = trail[a] \o ClosingTrail(found[r], v)]
        /\ decision' = [decision EXCEPT ![a] = v] /\ UNCHANGED outcome
    BY <1>3 DEF CloseSubmission
  <2>3. trail[a] \in Seq(Events)
    BY <1>0, <2>1 DEF TypeOK
  <2>4. /\ Occurrences(trail[a], "PRE_DECISION_MADE") = 0
        /\ Occurrences(trail[a], "REVIEW_OPENED") = 0
        /\ Occurrences(trail[a], "REVIEW_CLOSED") = 0
    BY <2>1 DEF TrailTellsTheDecision, Times
  <2> DEFINE closed == trail[a] \o ClosingTrail(found[r], v)
  <2>5. /\ Occurrences(closed, "PRE_DECISION_MADE") = 1
        /\ Occurrences(closed, "REVIEW_OPENED") = Times(v = "MANUAL_REVIEW")
        /\ Occurrences(closed, "REVIEW_CLOSED") = 0
    BY <2>1, <2>3, <2>4, OccurrencesOfClosing DEF Times
  <2> HIDE DEF a, v, closed
  <2>6. trail' = [trail EXCEPT ![a] = closed]
    BY <2>2 DEF closed
  <2>7. ASSUME NEW b \in Requests, b # a
        PROVE  trail'[b] = trail[b] /\ decision'[b] = decision[b] /\ outcome'[b] = outcome[b]
    BY <1>0, <2>2, <2>6, <2>7 DEF TypeOK
  <2>8. trail'[a] = closed /\ decision'[a] = v /\ outcome'[a] = "none" /\ v # "none"
    BY <1>0, <2>1, <2>2, <2>6 DEF TypeOK, Verdicts
  <2>9. QED
    BY <2>5, <2>7, <2>8 DEF TrailTellsTheDecision, Times
<1>4. ASSUME NEW a \in Requests, NEW o \in Outcomes, CloseReview(a, o)
      PROVE  TrailTellsTheDecision'
  <2>1. /\ trail' = [trail EXCEPT ![a] = Append(trail[a], "REVIEW_CLOSED")]
        /\ outcome' = [outcome EXCEPT ![a] = o] /\ UNCHANGED decision
        /\ outcome[a] = "none"
    BY <1>4 DEF CloseReview, ReviewState
  <2>2. \A x \in Concluding :
            /\ Occurrences(trail[a], x) \in Nat
            /\ Occurrences(Append(trail[a], "REVIEW_CLOSED"), x) =
                   Occurrences(trail[a], x) + Times("REVIEW_CLOSED" = x)
    BY <1>0, OccurrencesOfAppend DEF TypeOK, Events, Concluding
  <2>3. ASSUME NEW b \in Requests, b # a
        PROVE  trail'[b] = trail[b] /\ decision'[b] = decision[b] /\ outcome'[b] = outcome[b]
    BY <1>0, <2>1, <2>3 DEF TypeOK
  <2>4. /\ trail'[a] = Append(trail[a], "REVIEW_CLOSED") /\ decision'[a] = decision[a]
        /\ outcome'[a] = o /\ o # "none"
    BY <1>0, <2>1 DEF TypeOK, Outcomes
  <2>5. /\ Occurrences(trail'[a], "PRE_DECISION_MADE") = Times(decision[a] # "none")
        /\ Occurrences(trail'[a], "REVIEW_OPENED") = Times(decision[a] = "MANUAL_REVIEW")
        /\ Occurrences(trail'[a], "REVIEW_CLOSED") = 1
    BY <2>1, <2>2, <2>4 DEF TrailTellsTheDecision, Concluding, Times
  <2>6. QED
    BY <2>3, <2>4, <2>5 DEF TrailTellsTheDecision, Times
<1>5. ASSUME NEW a \in Requests, Sweep(a)
      PROVE  TrailTellsTheDecision'
  <2>1. /\ trail' = [trail EXCEPT ![a] = Append(trail[a], "APPLICATION_ABANDONED")]
        /\ UNCHANGED <<decision, outcome>>
    BY <1>5 DEF Sweep
  <2>2. \A x \in Concluding :
            Occurrences(Append(trail[a], "APPLICATION_ABANDONED"), x) = Occurrences(trail[a], x)
    BY <1>0, OtherEvents DEF TypeOK, Events, Concluding
  <2>3. QED
    BY <1>0, <2>1, <2>2 DEF TypeOK, TrailTellsTheDecision, Concluding
<1>6. ASSUME NEW r \in Requests,
             \/ Arrive(r) \/ Crash(r) \/ ClaimStarted(r) \/ ClaimResumed(r) \/ ClaimRefused(r)
             \/ Peek(r) \/ ReadApplication(r) \/ Look(r)
      PROVE  Same
  BY <1>6 DEF Arrive, Crash, ClaimStarted, ClaimResumed, ClaimRefused, Peek, ReadApplication,
              Look, rows
<1>7. ASSUME NEW r \in Requests, Knockout(r) \/ LookupReturns(r) \/ DuplicateVerdict(r)
      PROVE  Same
  BY <1>7 DEF Knockout, LookupReturns, DuplicateVerdict, rows
<1>8. ASSUME PurgeKey \/ Tick \/ UNCHANGED vars
      PROVE  Same
  BY <1>8 DEF PurgeKey, Tick, vars, rows
<1>9. Same => TrailTellsTheDecision'
  BY DEF TrailTellsTheDecision
<1>10. QED
  <2> HIDE DEF Same
  <2>1. QED
    BY <1>1, <1>2, <1>3, <1>4, <1>5, <1>6, <1>7, <1>8, <1>9 DEF Next, Submit, Sweeper, Reviewer

\* One verdict per application, told by one event and by the status, and closed
\* by one outcome: for every timing, and whatever the sweeper races with.
THEOREM DecisionIsWholeAlways == Spec => []DecisionIsWhole
<1>1. Init => TrailTellsTheDecision
  <2>1. ASSUME Init, NEW a \in Requests, NEW x \in Concluding
        PROVE  Occurrences(trail[a], x) = 0
    <3>1. {i \in DOMAIN trail[a] : trail[a][i] = x} = {}
      BY <2>1 DEF Init
    <3>2. QED
      BY <3>1, FS_EmptySet DEF Occurrences
  <2>2. QED
    BY <2>1 DEF Init, TrailTellsTheDecision, Concluding, Times
<1>2. IInv /\ TrailTellsTheDecision /\ [Next]_vars => TrailTellsTheDecision'
  BY TrailStep
<1>3. IInv /\ TrailTellsTheDecision => DecisionIsWhole
  <2> SUFFICES ASSUME IInv, TrailTellsTheDecision, NEW a \in Requests
               PROVE  /\ decision[a] # "none" <=> status[a] \in {"PRE_DECIDED", "IN_REVIEW", "REVIEW_CLOSED"}
                      /\ outcome[a] # "none" <=> status[a] = "REVIEW_CLOSED"
                      /\ Count(a, "PRE_DECISION_MADE") = Times(decision[a] # "none")
                      /\ Count(a, "REVIEW_OPENED") = Times(decision[a] = "MANUAL_REVIEW")
                      /\ Count(a, "REVIEW_CLOSED") = Times(outcome[a] # "none")
    BY DEF DecisionIsWhole
  <2>1. /\ decision[a] # "none" <=> status[a] \in {"PRE_DECIDED", "IN_REVIEW", "REVIEW_CLOSED"}
        /\ outcome[a] # "none" <=> status[a] = "REVIEW_CLOSED"
    BY DEF IInv, TypeOK, Rest, StatusTellsTheDecision, Verdicts
  <2>2. \A x : Count(a, x) = Occurrences(trail[a], x)
    BY DEF Count, Occurrences
  <2>3. QED
    BY <2>1, <2>2 DEF TrailTellsTheDecision
<1>4. QED
  BY <1>1, <1>2, <1>3, InvHolds, PTL DEF Spec
=============================================================================
