------------------------ MODULE SubmissionKeyProofs ------------------------
(***************************************************************************)
(* Proofs about the idempotency key of a submission: who may be told what  *)
(* under it, with the assumptions about time that each result needs.       *)
(***************************************************************************)
EXTENDS SubmissionProofs

\* The stages in which a request has claimed the key and not returned.
Holding == Working \cup {"persist"}

-----------------------------------------------------------------------------
(***************************************************************************)
(* The kinds of steps, as far as the key and the clocks tell them apart.   *)
(***************************************************************************)

\* A request goes on without touching the key: the upsert met a row, or a stage
\* of the work on its application is followed by another.
Moves(r) ==
    /\ \/ pc[r] = "claim" /\ key # NoKey /\ Goto(r, "peek")
       \/ pc[r] \in Working /\ \E stage \in Working : Goto(r, stage)
    /\ UNCHANGED <<time, key, status, submitted, decision, outcome, now, app, reply>>

\* What an answer given without a transaction rests on.
Justified(r, value) ==
    /\ value.kind = "replayed" =>
           /\ pc[r] = "peek" /\ key # NoKey /\ key.fingerprint = BodyOf[r]
           /\ key.state = "COMPLETED" /\ value.body = key.body
    /\ value.kind = "decided" => pc[r] = "look" /\ value.body.app = app[r]
    /\ value = Refused("FINGERPRINT_MISMATCH") =>
           pc[r] = "peek" /\ (key = NoKey \/ key.fingerprint # BodyOf[r])

\* A request returns, or dies, and leaves everything but its answer alone.
Leaves(r) ==
    /\ pc[r] \in Active
    /\ \E value : Answer(r, value) /\ Justified(r, value)
    /\ UNCHANGED <<time, key, rows>>

\* The steps that matter to no key and to no request's clock.
Aside ==
    \/ \E a \in Requests, o \in Outcomes : CloseReview(a, o)
    \/ UNCHANGED vars

\* Every step is of one of these kinds.
LEMMA Kinds ==
    ASSUME IInv, [Next]_vars
    PROVE  \/ \E r \in Requests : \/ Arrive(r) \/ ClaimStarted(r) \/ ClaimResumed(r) \/ Persist(r)
                                  \/ CloseSubmission(r) \/ Moves(r) \/ Leaves(r)
           \/ \E a \in Requests : Sweep(a)
           \/ PurgeKey
           \/ Tick
           \/ Aside
<1>1. ASSUME NEW r \in Requests, ClaimRefused(r)
      PROVE  Moves(r)
  BY <1>1 DEF ClaimRefused, Moves, rows, local
<1>2. ASSUME NEW r \in Requests, Peek(r)
      PROVE  Leaves(r)
  <2> DEFINE value == IF key = NoKey THEN Refused("FINGERPRINT_MISMATCH")
                      ELSE IF key.fingerprint # BodyOf[r] THEN Refused("FINGERPRINT_MISMATCH")
                      ELSE IF key.state = "COMPLETED" THEN Replayed(key.body)
                      ELSE Refused("IN_PROGRESS")
  <2>1. Answer(r, value) /\ pc[r] = "peek" /\ UNCHANGED <<time, key, rows>>
    BY <1>2 DEF Peek
  <2>2. Justified(r, value)
    BY <2>1 DEF Justified, Refused, Replayed
  <2> HIDE DEF value
  <2>3. QED
    BY <2>1, <2>2 DEF Leaves, Active
<1>3. ASSUME NEW r \in Requests, ReadApplication(r)
      PROVE  Moves(r)
  BY <1>3 DEF ReadApplication, Moves, rows, Working
<1>4. ASSUME NEW r \in Requests, Look(r)
      PROVE  Moves(r) \/ Leaves(r)
  <2> DEFINE body == [app |-> app[r], status |-> seen[r], verdict |-> decision[app[r]],
                      review |-> ReviewState(app[r])]
  <2>1. CASE decision[app[r]] = "none"
    BY <1>4, <2>1 DEF Look, Moves, rows, local, Working
  <2>2. CASE decision[app[r]] # "none"
    <3>1. Answer(r, Decided(body)) /\ pc[r] = "look" /\ UNCHANGED <<time, key, rows>>
      BY <1>4, <2>2 DEF Look
    <3>2. Justified(r, Decided(body))
      BY <3>1 DEF Justified, Decided, Refused
    <3>3. QED
      BY <3>1, <3>2 DEF Leaves, Active
  <2>3. QED
    BY <2>1, <2>2
<1>5. ASSUME NEW r \in Requests, Knockout(r) \/ PullRequested(r) \/ LookupReturns(r) \/ DuplicateVerdict(r)
      PROVE  Moves(r)
  BY <1>5 DEF Knockout, PullRequested, LookupReturns, DuplicateVerdict, Moves, rows, local, Working
<1>6. ASSUME NEW r \in Requests, Crash(r)
      PROVE  Leaves(r)
  <2>1. Justified(r, Failed)
    BY DEF Justified, Failed, Refused
  <2>2. QED
    BY <1>6, <2>1 DEF Crash, Leaves
<1>7. QED
  BY <1>1, <1>2, <1>3, <1>4, <1>5, <1>6 DEF Next, Submit, Sweeper, Reviewer, Aside

-----------------------------------------------------------------------------
(***************************************************************************)
(* The clocks, and whose fingerprint a key carries.  No assumption.        *)
(***************************************************************************)

\* A request's clock is at most HoldBound behind the time while it runs.
Clocked == \A r \in Requests : pc[r] \in Active => now[r] <= time /\ time <= now[r] + HoldBound

\* Lease and expiry of a key come from one clock, which has been.
KeyClock ==
    key # NoKey =>
        /\ key.lease <= time + KeyLease
        /\ Retention <= key.expires
        /\ key.lease + Retention = key.expires + KeyLease

\* A key carries the fingerprint of somebody who came, and whoever was refused
\* by a key finds it again, unless it was purged.
KeyHasClaimant ==
    /\ key # NoKey => \E q \in Requests : key.fingerprint = BodyOf[q] /\ pc[q] # "idle"
    /\ \A r \in Requests : pc[r] = "peek" => key # NoKey \/ Retention < time

ClockInv == Clocked /\ KeyClock /\ KeyHasClaimant /\ MismatchIsReal

\* The fields of a key that exists.
LEMMA KeyFields ==
    ASSUME TypeOK, key # NoKey
    PROVE  /\ key \in Keys
           /\ key.state \in {"IN_PROGRESS", "COMPLETED", "ABANDONED"}
           /\ key.lease \in Nat /\ key.expires \in Nat
           /\ key.app \in Requests \cup {NoApp}
  BY DEF TypeOK, Keys

\* What a claim writes.
LEMMA ClaimWrites ==
    ASSUME NEW r \in Requests, NEW a
    PROVE  /\ ClaimedRow(r, a) # NoKey
           /\ ClaimedRow(r, a).state = "IN_PROGRESS"
           /\ ClaimedRow(r, a).fingerprint = BodyOf[r]
           /\ ClaimedRow(r, a).lease = now[r] + KeyLease
           /\ ClaimedRow(r, a).expires = now[r] + Retention
           /\ ClaimedRow(r, a).app = a
  BY DEF ClaimedRow, NoKey

\* A claim is made by a request at its first stage, for itself or as a takeover
\* of a key with its own fingerprint.
LEMMA Claims ==
    ASSUME NEW r \in Requests, ClaimStarted(r) \/ ClaimResumed(r)
    PROVE  /\ pc[r] = "claim"
           /\ \E stage \in Holding : Goto(r, stage)
           /\ \E a : key' = ClaimedRow(r, a)
           /\ key # NoKey => TakesOver(r)
           /\ UNCHANGED <<time, rows, now, seen, found, verdict, reply>>
  BY DEF ClaimStarted, ClaimResumed, Holding, Working, local

\* The key is there if it was, with the fingerprint and the times it had.
KeyKept ==
    IF key = NoKey THEN key' = NoKey
    ELSE /\ key' # NoKey
         /\ key'.fingerprint = key.fingerprint
         /\ key'.lease = key.lease /\ key'.expires = key.expires

\* Only claims and the purge do more than that.
LEMMA KeyChanges ==
    ASSUME TypeOK,
           \/ \E r \in Requests : Persist(r) \/ CloseSubmission(r)
           \/ \E a \in Requests : Sweep(a)
           \/ UNCHANGED key
    PROVE  KeyKept
<1>1. key # NoKey => key \in Keys
  BY KeyFields
<1>2. ASSUME NEW r \in Requests, Persist(r)
      PROVE  KeyKept
  BY <1>1, <1>2 DEF KeyKept, Persist, Keys, NoKey
<1>3. ASSUME NEW r \in Requests, CloseSubmission(r)
      PROVE  KeyKept
  BY <1>1, <1>3 DEF KeyKept, CloseSubmission, Keys, NoKey
<1>4. ASSUME NEW a \in Requests, Sweep(a)
      PROVE  KeyKept
  BY <1>1, <1>4 DEF KeyKept, Sweep, Keys, NoKey
<1>5. ASSUME UNCHANGED key
      PROVE  KeyKept
  BY <1>5 DEF KeyKept
<1>6. QED
  BY <1>2, <1>3, <1>4, <1>5

\* The clocks stay as they were in every step that neither starts a request, ends
\* one, nor lets time pass.
LEMMA ClockStep == IInv /\ ClockInv /\ [Next]_vars => ClockInv'
<1> SUFFICES ASSUME IInv, ClockInv, [Next]_vars
             PROVE  ClockInv'
  OBVIOUS
<1>0. /\ TypeOK /\ Clocked /\ KeyClock /\ KeyHasClaimant /\ MismatchIsReal
      /\ time \in Nat
      /\ key # NoKey => key.lease \in Nat /\ key.expires \in Nat
      /\ KeyLease \in Nat /\ Retention \in Nat /\ HoldBound \in Nat
  BY SubmissionConstants, KeyFields DEF IInv, ClockInv, TypeOK
<1>a. ASSUME KeyKept, time' = time \/ time' = time + 1
      PROVE  KeyClock'
  BY <1>0, <1>a DEF KeyKept, KeyClock
<1>b. ASSUME KeyKept, time' = time \/ time' = time + 1,
             \A q \in Requests : /\ pc[q] # "idle" => pc'[q] # "idle"
                                 /\ pc'[q] = "peek" => pc[q] = "peek" \/ key # NoKey
      PROVE  KeyHasClaimant'
  BY <1>0, <1>b DEF KeyKept, KeyHasClaimant
<1>c. ASSUME time' = time \/ time' = time + 1,
             \A q \in Requests : /\ pc[q] # "idle" => pc'[q] # "idle"
                                 /\ reply'[q] = reply[q] \/ reply'[q] # Refused("FINGERPRINT_MISMATCH")
      PROVE  MismatchIsReal'
  BY <1>0, <1>c DEF MismatchIsReal
<1>1. ASSUME NEW r \in Requests, Arrive(r)
      PROVE  ClockInv'
  <2>1. pc' = [pc EXCEPT ![r] = "claim"] /\ now' = [now EXCEPT ![r] = time]
        /\ UNCHANGED <<time, key, reply>>
    BY <1>1 DEF Arrive, Goto
  <2>2. Clocked'
    BY <1>0, <2>1 DEF TypeOK, Clocked
  <2>3. \A q \in Requests : /\ pc[q] # "idle" => pc'[q] # "idle"
                            /\ pc'[q] = "peek" => pc[q] = "peek"
    BY <1>0, <2>1 DEF TypeOK
  <2>4. KeyKept
    BY <1>0, <2>1, KeyChanges
  <2>5. QED
    BY <1>a, <1>b, <1>c, <2>1, <2>2, <2>3, <2>4 DEF ClockInv
<1>2. ASSUME NEW r \in Requests, ClaimStarted(r) \/ ClaimResumed(r)
      PROVE  ClockInv'
  <2>1. PICK stage \in Holding : pc' = [pc EXCEPT ![r] = stage]
    BY <1>2, Claims DEF Goto
  <2>2. PICK a : key' = ClaimedRow(r, a)
    BY <1>2, Claims
  <2>3. pc[r] = "claim" /\ UNCHANGED <<time, now, reply>>
    BY <1>2, Claims
  <2>4. /\ key' # NoKey /\ key'.fingerprint = BodyOf[r]
        /\ key'.lease = now[r] + KeyLease /\ key'.expires = now[r] + Retention
    BY <2>2, ClaimWrites
  <2>5. Clocked' /\ now[r] <= time /\ now[r] \in Nat
    BY <1>0, <2>1, <2>3 DEF TypeOK, Clocked, Active, Holding, Working
  <2>6. KeyClock'
    BY <1>0, <2>3, <2>4, <2>5 DEF KeyClock
  <2>7. KeyHasClaimant' /\ MismatchIsReal'
    BY <1>0, <2>1, <2>3, <2>4 DEF TypeOK, Holding, Working, KeyHasClaimant, MismatchIsReal
  <2>8. QED
    BY <2>5, <2>6, <2>7 DEF ClockInv
<1>3. ASSUME NEW r \in Requests, Persist(r) \/ Moves(r)
      PROVE  ClockInv'
  <2>1. /\ pc[r] \in Active \ {"peek"} /\ UNCHANGED <<time, now, reply>>
        /\ \E stage \in Active : /\ pc' = [pc EXCEPT ![r] = stage]
                                 /\ stage = "peek" => key # NoKey
    BY <1>3 DEF Persist, Moves, Goto, Active, Working
  <2>2. Clocked'
    BY <1>0, <2>1 DEF TypeOK, Clocked, Active
  <2>3. \A q \in Requests : /\ pc[q] # "idle" => pc'[q] # "idle"
                            /\ pc'[q] = "peek" => pc[q] = "peek" \/ key # NoKey
    BY <1>0, <2>1 DEF TypeOK, Active
  <2>4. KeyKept
    BY <1>0, <1>3, KeyChanges DEF Moves
  <2>5. QED
    BY <1>a, <1>b, <1>c, <2>1, <2>2, <2>3, <2>4 DEF ClockInv
<1>4. ASSUME NEW r \in Requests, CloseSubmission(r) \/ Leaves(r)
      PROVE  ClockInv'
  <2>1. PICK value : /\ Answer(r, value)
                     /\ value = Refused("FINGERPRINT_MISMATCH") => Justified(r, value)
    <3>1. \A body : Decided(body) # Refused("FINGERPRINT_MISMATCH")
      BY DEF Decided, Refused
    <3>2. CloseSubmission(r) => \E body : Answer(r, Decided(body))
      BY DEF CloseSubmission
    <3>3. QED
      BY <1>4, <3>1, <3>2 DEF Leaves
  <2>2. pc[r] \in Active /\ UNCHANGED time
    BY <1>4 DEF CloseSubmission, Leaves, Active
  <2>3. /\ pc' = [pc EXCEPT ![r] = "done"] /\ now' = [now EXCEPT ![r] = 0]
        /\ reply' = [reply EXCEPT ![r] = value]
    BY <2>1 DEF Answer, Goto
  <2>4. Clocked'
    BY <1>0, <2>2, <2>3 DEF TypeOK, Clocked, Active
  <2>5. \A q \in Requests : /\ pc[q] # "idle" => pc'[q] # "idle"
                            /\ pc'[q] = "peek" => pc[q] = "peek"
    BY <1>0, <2>3 DEF TypeOK
  <2>6. KeyKept
    BY <1>0, <1>4, KeyChanges DEF Leaves
  <2>7. value = Refused("FINGERPRINT_MISMATCH") =>
            (\E q \in Requests : BodyOf[q] # BodyOf[r] /\ pc[q] # "idle") \/ Retention < time
    BY <1>0, <2>1 DEF Justified, KeyHasClaimant
  <2>8. MismatchIsReal'
    BY <1>0, <2>2, <2>3, <2>5, <2>7 DEF TypeOK, MismatchIsReal
  <2>9. QED
    BY <1>a, <1>b, <2>2, <2>4, <2>5, <2>6, <2>8 DEF ClockInv
<1>5. ASSUME (\E a \in Requests : Sweep(a)) \/ Tick \/ Aside
      PROVE  ClockInv'
  <2>1. UNCHANGED <<pc, now, reply>> /\ time' \in {time, time + 1}
    BY <1>5 DEF Sweep, Tick, Aside, CloseReview, vars, local
  <2>2. time' # time => \A r \in Requests : pc[r] \in Active => time < now[r] + HoldBound
    BY <1>5 DEF Sweep, Tick, Aside, CloseReview, vars
  <2>3. Clocked'
    BY <1>0, <2>1, <2>2 DEF TypeOK, Clocked
  <2>4. KeyKept
    BY <1>0, <1>5, KeyChanges DEF Tick, Aside, CloseReview, vars
  <2>5. QED
    BY <1>a, <1>b, <1>c, <2>1, <2>3, <2>4 DEF ClockInv
<1>6. CASE PurgeKey
  <2>1. key' = NoKey /\ UNCHANGED <<time, pc, now, reply>>
    BY <1>6 DEF PurgeKey, local
  <2>2. Retention < time
    BY <1>0, <1>6 DEF PurgeKey, KeyClock
  <2>3. QED
    BY <1>0, <2>1, <2>2 DEF ClockInv, Clocked, KeyClock, KeyHasClaimant, MismatchIsReal
<1>7. QED
  BY <1>1, <1>2, <1>3, <1>4, <1>5, <1>6, Kinds

\* The clocks are right for every timing.
LEMMA ClockHolds == Spec => []ClockInv
<1>1. Init => ClockInv
  BY SubmissionConstants DEF Init, ClockInv, Clocked, KeyClock, KeyHasClaimant, MismatchIsReal,
                             Active, NoReply, Refused
<1>2. IInv /\ ClockInv /\ [Next]_vars => ClockInv'
  BY ClockStep
<1>3. QED
  BY <1>1, <1>2, InvHolds, PTL DEF Spec

\* Nobody is told of another body under its key unless one came, or the key it
\* met had passed its retention: for every timing, stall and race.
THEOREM MismatchIsRealAlways == Spec => []MismatchIsReal
<1>1. ClockInv => MismatchIsReal
  BY DEF ClockInv
<1>2. QED
  BY <1>1, ClockHolds, PTL

-----------------------------------------------------------------------------
(***************************************************************************)
(* One body per key.  What a key holds and whoever works under it belong   *)
(* to one fingerprint, as long as nobody outlives the key: a takeover      *)
(* compares fingerprints, and only the purge lets another body in.         *)
(***************************************************************************)

\* The retention of a key is twice what a request may take: once for whoever
\* claimed it last, once for whoever still works under it.
OutlivesRequests == 2 * HoldBound <= Retention

\* Whoever works under the key came with its body, and the key will be there.
HoldersMatch ==
    \A r \in Requests :
        /\ pc[r] \in Holding =>
               /\ key # NoKey /\ key.fingerprint = BodyOf[r]
               /\ now[r] + Retention <= key.expires + HoldBound
        /\ pc[r] \in Working => BodyOf[app[r]] = BodyOf[r]

\* What the key names and holds was made from its body.
KeyMatches ==
    key # NoKey =>
        /\ key.app # NoApp => BodyOf[key.app] = key.fingerprint
        /\ key.state = "COMPLETED" => BodyOf[key.body.app] = key.fingerprint

BodyInv == HoldersMatch /\ KeyMatches /\ FingerprintRespected

LEMMA BodyStep ==
    ASSUME OutlivesRequests
    PROVE  IInv /\ ClockInv /\ BodyInv /\ [Next]_vars => BodyInv'
<1> SUFFICES ASSUME IInv, ClockInv, BodyInv, [Next]_vars
             PROVE  BodyInv'
  OBVIOUS
<1>0. /\ TypeOK /\ Clocked /\ HoldersMatch /\ KeyMatches /\ FingerprintRespected
      /\ time \in Nat
      /\ key # NoKey => key.lease \in Nat /\ key.expires \in Nat
      /\ KeyLease \in Nat /\ Retention \in Nat /\ HoldBound \in Nat
      /\ NoApp \notin Requests
  BY SubmissionConstants, KeyFields DEF IInv, ClockInv, BodyInv, TypeOK
<1>1. ASSUME NEW r \in Requests, Arrive(r)
      PROVE  BodyInv'
  <2>1. pc' = [pc EXCEPT ![r] = "claim"] /\ now' = [now EXCEPT ![r] = time]
        /\ UNCHANGED <<key, app, reply>>
    BY <1>1 DEF Arrive, Goto
  <2>2. HoldersMatch'
    BY <1>0, <2>1 DEF TypeOK, HoldersMatch, Holding, Working
  <2>3. KeyMatches' /\ FingerprintRespected'
    BY <1>0, <2>1 DEF KeyMatches, FingerprintRespected
  <2>4. QED
    BY <2>2, <2>3 DEF BodyInv
<1>2. ASSUME NEW r \in Requests, ClaimStarted(r) \/ ClaimResumed(r)
      PROVE  BodyInv'
  <2>1. PICK stage \in Holding, a \in Requests \cup {NoApp} :
            /\ pc' = [pc EXCEPT ![r] = stage]
            /\ key' = ClaimedRow(r, a)
            /\ a # NoApp => key # NoKey /\ key.app = a
            /\ stage \in Working => a # NoApp /\ app' = [app EXCEPT ![r] = a]
            /\ stage \notin Working => app' = app
    <3>1. CASE ClaimStarted(r)
      BY <3>1 DEF ClaimStarted, Goto, Holding, Working, local
    <3>2. CASE ClaimResumed(r)
      BY <1>0, <3>2, KeyFields DEF ClaimResumed, Goto, Holding, Working
    <3>3. QED
      BY <1>2, <3>1, <3>2
  <2>2. pc[r] = "claim" /\ UNCHANGED <<time, now, reply>>
    BY <1>2, Claims
  <2>3. /\ key' # NoKey /\ key'.fingerprint = BodyOf[r] /\ key'.state = "IN_PROGRESS"
        /\ key'.expires = now[r] + Retention /\ key'.app = a
    BY <2>1, ClaimWrites
  <2>4. key # NoKey => key.fingerprint = BodyOf[r]
    BY <1>2, Claims DEF TakesOver
  <2>5. a # NoApp => BodyOf[a] = BodyOf[r]
    BY <1>0, <2>1, <2>4 DEF KeyMatches
  <2>6. now[r] <= time /\ time <= now[r] + HoldBound /\ now[r] \in Nat
    BY <1>0, <2>2 DEF TypeOK, Clocked, Active
  <2>7. ASSUME NEW q \in Requests, pc'[q] \in Holding
        PROVE  /\ BodyOf[q] = BodyOf[r]
               /\ now[q] + Retention <= key'.expires + HoldBound
    <3>1. CASE q = r
      BY <1>0, <2>3, <2>6, <3>1
    <3>2. CASE q # r
      <4>1. pc[q] \in Holding
        BY <1>0, <2>1, <2>7, <3>2 DEF TypeOK
      <4>2. BodyOf[q] = BodyOf[r]
        BY <1>0, <2>4, <4>1 DEF HoldersMatch
      <4>3. now[q] <= time /\ now[q] \in Nat
        BY <1>0, <4>1 DEF TypeOK, Clocked, Active, Holding, Working
      <4>4. QED
        BY <1>0, <2>3, <2>6, <4>2, <4>3
    <3>3. QED
      BY <3>1, <3>2
  <2>8. ASSUME NEW q \in Requests, pc'[q] \in Working
        PROVE  BodyOf[app'[q]] = BodyOf[q]
    BY <1>0, <2>1, <2>5, <2>8 DEF TypeOK, HoldersMatch
  <2>9. HoldersMatch'
    BY <2>2, <2>3, <2>7, <2>8 DEF HoldersMatch
  <2>10. KeyMatches' /\ FingerprintRespected'
    BY <1>0, <2>2, <2>3, <2>5 DEF KeyMatches, FingerprintRespected
  <2>11. QED
    BY <2>9, <2>10 DEF BodyInv
<1>3. ASSUME NEW r \in Requests, Persist(r)
      PROVE  BodyInv'
  <2>1. pc[r] = "persist" /\ pc' = [pc EXCEPT ![r] = "lookup"] /\ app' = [app EXCEPT ![r] = r]
        /\ UNCHANGED <<now, reply>>
    BY <1>3 DEF Persist, Goto
  <2>2. key # NoKey /\ key.fingerprint = BodyOf[r]
    BY <1>0, <2>1 DEF HoldersMatch, Holding
  <2>3. /\ key' # NoKey /\ key'.app = r /\ key'.fingerprint = key.fingerprint
        /\ key'.expires = key.expires /\ key'.state = key.state /\ key'.body = key.body
    <3>1. key \in Keys /\ key' = [key EXCEPT !.app = r]
      BY <1>0, <1>3, <2>2, KeyFields DEF Persist
    <3>2. QED
      BY <3>1 DEF Keys, NoKey
  <2>4. HoldersMatch'
    BY <1>0, <2>1, <2>3 DEF TypeOK, HoldersMatch, Holding, Working
  <2>5. KeyMatches' /\ FingerprintRespected'
    BY <1>0, <2>1, <2>2, <2>3 DEF KeyMatches, FingerprintRespected
  <2>6. QED
    BY <2>4, <2>5 DEF BodyInv
<1>4. ASSUME NEW r \in Requests, CloseSubmission(r)
      PROVE  BodyInv'
  <2>1. PICK body : /\ body.app = app[r]
                    /\ Answer(r, Decided(body))
                    /\ key' = IF key = NoKey THEN NoKey
                              ELSE [key EXCEPT !.state = "COMPLETED", !.body = body]
    <3> DEFINE b == [app |-> app[r], status |-> StatusFor(verdict[r]), verdict |-> verdict[r],
                     review |-> IF verdict[r] = "MANUAL_REVIEW" THEN "PENDING" ELSE "none"]
    <3>1. /\ b.app = app[r] /\ Answer(r, Decided(b))
          /\ key' = IF key = NoKey THEN NoKey ELSE [key EXCEPT !.state = "COMPLETED", !.body = b]
      BY <1>4 DEF CloseSubmission
    <3>2. QED
      BY <3>1
  <2>2. pc[r] = "close"
    BY <1>4 DEF CloseSubmission
  <2>3. /\ key # NoKey /\ key.fingerprint = BodyOf[r] /\ BodyOf[app[r]] = BodyOf[r]
    BY <1>0, <2>2 DEF HoldersMatch, Holding, Working
  <2>4. /\ key' # NoKey /\ key'.app = key.app /\ key'.fingerprint = key.fingerprint
        /\ key'.expires = key.expires /\ key'.body = body
    BY <1>0, <2>1, <2>3, KeyFields DEF Keys, NoKey
  <2>5. /\ pc' = [pc EXCEPT ![r] = "done"] /\ now' = [now EXCEPT ![r] = 0]
        /\ app' = [app EXCEPT ![r] = NoApp] /\ reply' = [reply EXCEPT ![r] = Decided(body)]
    BY <2>1 DEF Answer, Goto
  <2>6. HoldersMatch'
    BY <1>0, <2>4, <2>5 DEF TypeOK, HoldersMatch, Holding, Working
  <2>7. KeyMatches'
    BY <1>0, <2>1, <2>3, <2>4 DEF KeyMatches
  <2>8. FingerprintRespected'
    BY <1>0, <2>1, <2>3, <2>5 DEF TypeOK, FingerprintRespected, Decided
  <2>9. QED
    BY <2>6, <2>7, <2>8 DEF BodyInv
<1>5. ASSUME NEW r \in Requests, Moves(r)
      PROVE  BodyInv'
  <2>1. /\ \/ pc[r] = "claim" /\ pc' = [pc EXCEPT ![r] = "peek"]
           \/ pc[r] \in Working /\ \E stage \in Working : pc' = [pc EXCEPT ![r] = stage]
        /\ UNCHANGED <<time, key, now, app, reply>>
    BY <1>5 DEF Moves, Goto
  <2>2. \A q \in Requests : /\ pc'[q] \in Holding => pc[q] \in Holding
                            /\ pc'[q] \in Working => pc[q] \in Working
    BY <1>0, <2>1 DEF TypeOK, Holding, Working
  <2>3. QED
    BY <1>0, <2>1, <2>2 DEF BodyInv, HoldersMatch, KeyMatches, FingerprintRespected
<1>6. ASSUME NEW r \in Requests, Leaves(r)
      PROVE  BodyInv'
  <2>1. PICK value : Answer(r, value) /\ Justified(r, value)
    BY <1>6 DEF Leaves
  <2>2. UNCHANGED <<time, key>>
    BY <1>6 DEF Leaves
  <2>3. /\ pc' = [pc EXCEPT ![r] = "done"] /\ now' = [now EXCEPT ![r] = 0]
        /\ app' = [app EXCEPT ![r] = NoApp] /\ reply' = [reply EXCEPT ![r] = value]
    BY <2>1 DEF Answer, Goto
  <2>4. value.kind \in {"replayed", "decided"} => BodyOf[value.body.app] = BodyOf[r]
    BY <1>0, <2>1 DEF Justified, HoldersMatch, KeyMatches, Working
  <2>5. HoldersMatch'
    BY <1>0, <2>2, <2>3 DEF TypeOK, HoldersMatch, Holding, Working
  <2>6. KeyMatches' /\ FingerprintRespected'
    BY <1>0, <2>2, <2>3, <2>4 DEF TypeOK, KeyMatches, FingerprintRespected
  <2>7. QED
    BY <2>5, <2>6 DEF BodyInv
<1>7. ASSUME NEW a \in Requests, Sweep(a)
      PROVE  BodyInv'
  <2>1. UNCHANGED <<pc, now, app, reply>>
    BY <1>7 DEF Sweep, local
  <2>2. key = NoKey => key' = NoKey
    BY <1>7 DEF Sweep
  <2>3. key # NoKey => /\ key' # NoKey /\ key'.app = key.app /\ key'.fingerprint = key.fingerprint
                       /\ key'.expires = key.expires /\ key'.body = key.body
                       /\ key'.state = "COMPLETED" => key.state = "COMPLETED"
    BY <1>0, <1>7, KeyFields DEF Sweep, Keys, NoKey
  <2>4. QED
    BY <1>0, <2>1, <2>2, <2>3 DEF BodyInv, HoldersMatch, KeyMatches, FingerprintRespected
<1>8. CASE PurgeKey
  <2>1. key' = NoKey /\ key # NoKey /\ key.expires < time /\ UNCHANGED <<time, pc, now, app, reply>>
    BY <1>8 DEF PurgeKey, local
  <2>2. ASSUME NEW q \in Requests, pc[q] \in Holding
        PROVE  FALSE
    <3>1. now[q] + Retention <= key.expires + HoldBound
      BY <1>0, <2>2 DEF HoldersMatch
    <3>2. time <= now[q] + HoldBound /\ now[q] \in Nat
      BY <1>0, <2>2 DEF TypeOK, Clocked, Active, Holding, Working
    <3>3. QED
      BY <1>0, <2>1, <3>1, <3>2 DEF OutlivesRequests
  <2>3. QED
    BY <1>0, <2>1, <2>2 DEF BodyInv, HoldersMatch, KeyMatches, FingerprintRespected, Holding
<1>9. CASE Tick \/ Aside
  <2>1. UNCHANGED <<key, pc, now, app, reply>>
    BY <1>9 DEF Tick, Aside, CloseReview, vars, local
  <2>2. QED
    BY <1>0, <2>1 DEF BodyInv, HoldersMatch, KeyMatches, FingerprintRespected
<1>10. QED
  BY <1>1, <1>2, <1>3, <1>4, <1>5, <1>6, <1>7, <1>8, <1>9, Kinds

\* Nobody is answered about an application made from another body, however the
\* leases stand, whoever stalls and whatever the sweeper races with, as long as
\* no request takes more than half the retention of its key.
THEOREM FingerprintRespectedAlways == OutlivesRequests => (Spec => []FingerprintRespected)
<1> SUFFICES ASSUME OutlivesRequests
             PROVE  Spec => []FingerprintRespected
  OBVIOUS
<1>1. Init => BodyInv
  BY DEF Init, BodyInv, HoldersMatch, KeyMatches, FingerprintRespected, Holding, Working, NoReply
<1>2. IInv /\ ClockInv /\ BodyInv /\ [Next]_vars => BodyInv'
  BY BodyStep
<1>3. BodyInv => FingerprintRespected
  BY DEF BodyInv
<1>4. QED
  BY <1>1, <1>2, <1>3, InvHolds, ClockHolds, PTL DEF Spec

-----------------------------------------------------------------------------
(***************************************************************************)
(* One holder.  A request that ends within the lease of its key is the     *)
(* only one that works under it, if the sweeper keeps off what is in use:  *)
(* a takeover needs the lease to have lapsed, and the sweep an application *)
(* nobody holds.                                                           *)
(***************************************************************************)

\* What this section assumes, and SubmissionTimely gives its constants.
Orderly == Timely /\ ~SweepRaces

\* The key is the request's: in progress, under the lease granted to it, and
\* naming the application it works on.
Owns(r) ==
    /\ key # NoKey /\ key.state = "IN_PROGRESS"
    /\ key.lease = now[r] + KeyLease
    /\ key.app = IF pc[r] = "persist" THEN NoApp ELSE app[r]

OneOwner ==
    \A r \in Requests : pc[r] \in Holding =>
        Owns(r) /\ \A q \in Requests : pc[q] \in Holding => q = r

\* The state of a key is that of its application, which it outlives.
KeyFollows ==
    key # NoKey /\ key.app # NoApp =>
        /\ key.state = "IN_PROGRESS" => status[key.app] = "RECEIVED"
        /\ key.state = "ABANDONED" => status[key.app] = "ABANDONED"
        /\ submitted[key.app] + Retention <= key.expires

OwnerInv == OneOwner /\ KeyFollows /\ KeyTellsItsAnswer

\* A claim is granted only when nobody holds the key.
LEMMA ClaimsFindNobody ==
    ASSUME Orderly, IInv, ClockInv, OwnerInv, NEW r \in Requests,
           ClaimStarted(r) \/ ClaimResumed(r), NEW q \in Requests
    PROVE  pc[q] \notin Holding
<1> SUFFICES ASSUME pc[q] \in Holding
             PROVE  FALSE
  OBVIOUS
<1>1. key # NoKey /\ key.state = "IN_PROGRESS" /\ key.lease = now[q] + KeyLease
  BY DEF OwnerInv, OneOwner, Owns
<1>2. key.lease < now[r]
  BY <1>1, Claims DEF TakesOver
<1>3. now[r] <= time /\ time <= now[q] + HoldBound
  BY Claims DEF ClockInv, Clocked, Active, Holding, Working
<1>4. now[r] \in Nat /\ now[q] \in Nat /\ time \in Nat
  BY DEF IInv, TypeOK
<1>5. QED
  BY <1>1, <1>2, <1>3, <1>4, SubmissionConstants DEF Orderly, Timely

LEMMA OwnerStep ==
    ASSUME Orderly
    PROVE  IInv /\ ClockInv /\ OwnerInv /\ [Next]_vars => OwnerInv'
<1> SUFFICES ASSUME IInv, ClockInv, OwnerInv, [Next]_vars
             PROVE  OwnerInv'
  OBVIOUS
<1>0. /\ TypeOK /\ Rest /\ KeyClock /\ OneOwner /\ KeyFollows /\ KeyTellsItsAnswer
      /\ time \in Nat
      /\ key # NoKey => key \in Keys /\ key.lease \in Nat /\ key.expires \in Nat
                        /\ key.app \in Requests \cup {NoApp}
                        /\ key.state \in {"IN_PROGRESS", "COMPLETED", "ABANDONED"}
      /\ KeyLease \in Nat /\ Retention \in Nat
      /\ NoApp \notin Requests
  BY SubmissionConstants, KeyFields DEF IInv, ClockInv, OwnerInv, TypeOK
<1>1. ASSUME NEW r \in Requests, Arrive(r)
      PROVE  OwnerInv'
  <2>1. pc' = [pc EXCEPT ![r] = "claim"] /\ now' = [now EXCEPT ![r] = time] /\ pc[r] = "idle"
        /\ UNCHANGED <<key, app, status, submitted, decision>>
    BY <1>1 DEF Arrive, Goto, rows
  <2>2. OneOwner'
    BY <1>0, <2>1 DEF TypeOK, OneOwner, Owns, Holding, Working
  <2>3. QED
    BY <1>0, <2>1, <2>2 DEF OwnerInv, KeyFollows, KeyTellsItsAnswer
<1>2. ASSUME NEW r \in Requests, ClaimStarted(r) \/ ClaimResumed(r)
      PROVE  OwnerInv'
  <2>1. PICK stage \in Holding, a \in Requests \cup {NoApp} :
            /\ pc' = [pc EXCEPT ![r] = stage]
            /\ key' = ClaimedRow(r, a)
            /\ a # NoApp => key # NoKey /\ key.app = a /\ key.state = "IN_PROGRESS"
            /\ a # NoApp => stage \in Working /\ app' = [app EXCEPT ![r] = a]
            /\ a = NoApp => stage = "persist"
    <3>1. CASE ClaimStarted(r)
      BY <3>1 DEF ClaimStarted, Goto, Holding, Working, local
    <3>2. CASE ClaimResumed(r)
      BY <1>0, <3>2 DEF ClaimResumed, Goto, Holding, Working
    <3>3. QED
      BY <1>2, <3>1, <3>2
  <2>2. UNCHANGED <<time, rows, now>>
    BY <1>2, Claims
  <2>3. /\ key' # NoKey /\ key'.state = "IN_PROGRESS" /\ key'.lease = now[r] + KeyLease
        /\ key'.expires = now[r] + Retention /\ key'.app = a
    BY <2>1, ClaimWrites
  <2>4. \A q \in Requests : pc'[q] \in Holding => q = r
    BY <1>0, <1>2, <2>1, ClaimsFindNobody DEF TypeOK
  <2>5. pc'[r] = stage /\ now'[r] = now[r] /\ (a # NoApp => app'[r] = a)
    BY <1>0, <2>1, <2>2 DEF TypeOK
  <2>6. OneOwner'
    BY <2>1, <2>3, <2>4, <2>5 DEF OneOwner, Owns, Working
  <2>7. KeyFollows'
    <3>1. CASE a = NoApp
      BY <2>3, <3>1 DEF KeyFollows
    <3>2. CASE a # NoApp
      <4>1. key.lease < now[r]
        BY <1>2, <2>1, <3>2, Claims DEF TakesOver
      <4>2. submitted[a] + Retention <= key.expires /\ status[a] = "RECEIVED"
        BY <1>0, <2>1, <3>2 DEF KeyFollows
      <4>3. submitted[a] \in Nat /\ now[r] \in Nat
        BY <1>0, <2>1, <3>2 DEF TypeOK
      <4>4. submitted[a] + Retention <= now[r] + Retention
        BY <1>0, <2>1, <3>2, <4>1, <4>2, <4>3 DEF KeyClock
      <4>5. QED
        BY <2>2, <2>3, <4>2, <4>4 DEF KeyFollows, rows
    <3>3. QED
      BY <3>1, <3>2
  <2>8. KeyTellsItsAnswer'
    BY <2>3 DEF KeyTellsItsAnswer
  <2>9. QED
    BY <2>6, <2>7, <2>8 DEF OwnerInv
<1>3. ASSUME NEW r \in Requests, Persist(r)
      PROVE  OwnerInv'
  <2>1. /\ pc[r] = "persist" /\ pc' = [pc EXCEPT ![r] = "lookup"] /\ app' = [app EXCEPT ![r] = r]
        /\ status' = [status EXCEPT ![r] = "RECEIVED"]
        /\ submitted' = [submitted EXCEPT ![r] = now[r]]
        /\ UNCHANGED <<now, decision>>
    BY <1>3 DEF Persist, Goto
  <2>2. Owns(r) /\ \A q \in Requests : pc[q] \in Holding => q = r
    BY <1>0, <2>1 DEF OneOwner, Holding
  <2>3. key' = [key EXCEPT !.app = r] /\ key # NoKey /\ key.state = "IN_PROGRESS"
    BY <1>3, <2>2 DEF Persist, Owns
  <2>4. /\ key' # NoKey /\ key'.app = r /\ key'.lease = key.lease
        /\ key'.expires = key.expires /\ key'.state = "IN_PROGRESS"
    BY <1>0, <2>3 DEF Keys, NoKey
  <2>5. OneOwner'
    BY <1>0, <2>1, <2>2, <2>4 DEF TypeOK, OneOwner, Owns, Holding, Working
  <2>6. KeyFollows'
    <3>1. submitted'[r] = now[r] /\ status'[r] = "RECEIVED" /\ now[r] \in Nat
      BY <1>0, <2>1 DEF TypeOK
    <3>2. now[r] + Retention <= key.expires
      BY <1>0, <2>2, <3>1 DEF Owns, KeyClock
    <3>3. QED
      BY <2>4, <3>1, <3>2 DEF KeyFollows
  <2>7. QED
    BY <2>4, <2>5, <2>6 DEF OwnerInv, KeyTellsItsAnswer
<1>4. ASSUME NEW r \in Requests, CloseSubmission(r)
      PROVE  OwnerInv'
  <2> DEFINE a == app[r]
             v == verdict[r]
             body == [app |-> a, status |-> StatusFor(v), verdict |-> v,
                      review |-> IF v = "MANUAL_REVIEW" THEN "PENDING" ELSE "none"]
  <2>1. /\ pc[r] = "close" /\ a \in Requests /\ decision' = [decision EXCEPT ![a] = v]
        /\ Answer(r, Decided(body)) /\ UNCHANGED submitted
        /\ key' = IF key = NoKey THEN NoKey ELSE [key EXCEPT !.state = "COMPLETED", !.body = body]
    BY <1>0, <1>4 DEF CloseSubmission, Rest, RowsOfRequests, Working
  <2>2. Owns(r) /\ \A q \in Requests : pc[q] \in Holding => q = r
    BY <1>0, <2>1 DEF OneOwner, Holding, Working
  <2>3. key # NoKey /\ key.app = a
    BY <2>1, <2>2 DEF Owns
  <2> HIDE DEF body
  <2>4. /\ key' # NoKey /\ key'.app = a /\ key'.state = "COMPLETED" /\ key'.body = body
        /\ key'.expires = key.expires
    BY <1>0, <2>1, <2>3 DEF Keys, NoKey
  <2>5. pc' = [pc EXCEPT ![r] = "done"]
    BY <2>1 DEF Answer, Goto
  <2>6. \A q \in Requests : pc'[q] \notin Holding
    BY <1>0, <2>2, <2>5 DEF TypeOK, Holding, Working
  <2>7. decision'[a] = v
    BY <1>0, <2>1 DEF TypeOK
  <2>8. KeyTellsItsAnswer'
    BY <1>0, <2>1, <2>4, <2>7 DEF KeyTellsItsAnswer, body
  <2>9. KeyFollows'
    BY <1>0, <2>1, <2>3, <2>4 DEF KeyFollows
  <2>10. QED
    BY <2>6, <2>8, <2>9 DEF OwnerInv, OneOwner
<1>5. ASSUME NEW r \in Requests, Moves(r)
      PROVE  OwnerInv'
  <2>1. /\ \/ pc[r] = "claim" /\ pc' = [pc EXCEPT ![r] = "peek"]
           \/ pc[r] \in Working /\ \E stage \in Working : pc' = [pc EXCEPT ![r] = stage]
        /\ UNCHANGED <<key, now, app, status, submitted, decision>>
    BY <1>5 DEF Moves, Goto
  <2>2. \A q \in Requests : /\ pc'[q] \in Holding => pc[q] \in Holding
                            /\ pc'[q] = "persist" <=> pc[q] = "persist"
    BY <1>0, <2>1 DEF TypeOK, Holding, Working
  <2>3. QED
    BY <1>0, <2>1, <2>2 DEF OwnerInv, OneOwner, Owns, KeyFollows, KeyTellsItsAnswer
<1>6. ASSUME NEW r \in Requests, Leaves(r)
      PROVE  OwnerInv'
  <2>1. /\ pc' = [pc EXCEPT ![r] = "done"] /\ now' = [now EXCEPT ![r] = 0]
        /\ app' = [app EXCEPT ![r] = NoApp]
        /\ UNCHANGED <<key, status, submitted, decision>>
    BY <1>6 DEF Leaves, Answer, Goto, rows
  <2>2. OneOwner'
    BY <1>0, <2>1 DEF TypeOK, OneOwner, Owns, Holding, Working
  <2>3. QED
    BY <1>0, <2>1, <2>2 DEF OwnerInv, KeyFollows, KeyTellsItsAnswer
<1>7. ASSUME NEW a \in Requests, Sweep(a)
      PROVE  OwnerInv'
  <2>1. /\ status[a] = "RECEIVED" /\ status' = [status EXCEPT ![a] = "ABANDONED"]
        /\ ~InUse(a) /\ UNCHANGED <<pc, now, app, submitted, decision>>
    BY <1>7 DEF Sweep, local, Orderly
  <2>2. \A q \in Requests : pc[q] \in Holding => key.app # a
    BY <1>0, <2>1 DEF OneOwner, Owns, InUse, Active, Holding, Working
  <2>3. CASE key # NoKey /\ key.app = a /\ key.state = "IN_PROGRESS"
    <3>1. key' = [key EXCEPT !.state = "ABANDONED"]
      BY <1>7, <2>3 DEF Sweep
    <3>2. key' # NoKey /\ key'.state = "ABANDONED" /\ key'.app = a /\ key'.expires = key.expires
      BY <1>0, <2>3, <3>1 DEF Keys, NoKey
    <3>3. OneOwner' /\ KeyTellsItsAnswer'
      BY <2>1, <2>2, <2>3, <3>2 DEF OneOwner, KeyTellsItsAnswer
    <3>4. KeyFollows'
      BY <1>0, <2>1, <2>3, <3>2 DEF TypeOK, KeyFollows
    <3>5. QED
      BY <3>3, <3>4 DEF OwnerInv
  <2>4. CASE ~(key # NoKey /\ key.app = a /\ key.state = "IN_PROGRESS")
    <3>1. key' = key
      BY <1>7, <2>4 DEF Sweep
    <3>2. KeyFollows'
      BY <1>0, <2>1, <2>4, <3>1 DEF TypeOK, KeyFollows
    <3>3. QED
      BY <1>0, <2>1, <3>1, <3>2 DEF OwnerInv, OneOwner, Owns, KeyTellsItsAnswer
  <2>5. QED
    BY <2>3, <2>4
<1>8. CASE PurgeKey
  <2>1. key # NoKey /\ key' = NoKey /\ key.state # "IN_PROGRESS" /\ UNCHANGED pc
    BY <1>8 DEF PurgeKey
  <2>2. QED
    BY <1>0, <2>1 DEF OwnerInv, OneOwner, Owns, KeyFollows, KeyTellsItsAnswer
<1>9. CASE Tick \/ UNCHANGED vars
  <2>1. UNCHANGED <<key, pc, now, app, status, submitted, decision>>
    BY <1>9 DEF Tick, vars, rows, local
  <2>2. QED
    BY <1>0, <2>1 DEF OwnerInv, OneOwner, Owns, KeyFollows, KeyTellsItsAnswer
<1>10. ASSUME NEW a \in Requests, NEW o \in Outcomes, CloseReview(a, o)
      PROVE  OwnerInv'
  <2>1. status[a] = "IN_REVIEW"
    BY <1>0, <1>10 DEF CloseReview, ReviewState, Rest, StatusTellsTheDecision
  <2>2. /\ status' = [status EXCEPT ![a] = "REVIEW_CLOSED"]
        /\ UNCHANGED <<key, pc, now, app, submitted, decision>>
    BY <1>10 DEF CloseReview, local
  <2>3. KeyFollows'
    BY <1>0, <2>1, <2>2 DEF TypeOK, KeyFollows
  <2>4. QED
    BY <1>0, <2>2, <2>3 DEF OwnerInv, OneOwner, Owns, KeyTellsItsAnswer
<1>11. QED
  BY <1>1, <1>2, <1>3, <1>4, <1>5, <1>6, <1>7, <1>8, <1>9, <1>10, Kinds DEF Aside

LEMMA OwnerHolds == Orderly => (Spec => []OwnerInv)
<1> SUFFICES ASSUME Orderly
             PROVE  Spec => []OwnerInv
  OBVIOUS
<1>1. Init => OwnerInv
  BY DEF Init, OwnerInv, OneOwner, KeyFollows, KeyTellsItsAnswer, Holding, Working
<1>2. IInv /\ ClockInv /\ OwnerInv /\ [Next]_vars => OwnerInv'
  BY OwnerStep
<1>3. QED
  BY <1>1, <1>2, InvHolds, ClockHolds, PTL DEF Spec

\* What a COMPLETED key replays is the answer of the application it names, when
\* requests end within their lease and the sweeper keeps off what is in use.
THEOREM KeyTellsItsAnswerAlways == Orderly => (Spec => []KeyTellsItsAnswer)
<1> SUFFICES ASSUME Orderly
             PROVE  Spec => []KeyTellsItsAnswer
  OBVIOUS
<1>1. OwnerInv => KeyTellsItsAnswer
  BY DEF OwnerInv
<1>2. QED
  BY <1>1, OwnerHolds, PTL

-----------------------------------------------------------------------------
(***************************************************************************)
(* One application.  An application that is not abandoned is named by its  *)
(* key, or the key went past its retention; whoever inserts the next one   *)
(* owns a key that names none.                                             *)
(***************************************************************************)

\* The sweeper waits longer than a request may take.
Patient == HoldBound <= SweepAfter

NamedOrGone ==
    \A a \in Requests : status[a] \notin {"ABSENT", "ABANDONED"} =>
        \/ key # NoKey /\ key.app = a
        \/ submitted[a] + Retention < time

OldWhenAbandoned == \A a \in Requests : status[a] = "ABANDONED" => submitted[a] + SweepAfter < time

SingleInv == NamedOrGone /\ OldWhenAbandoned /\ OneApplicationPerKey

\* Nothing is inserted, settled or swept, and the key keeps its name or grows old.
LEMMA SingleBystander ==
    ASSUME IInv, SingleInv,
           time' \in {time, time + 1},
           UNCHANGED submitted,
           \A a \in Requests :
               /\ status[a] = "ABANDONED" <=> status'[a] = "ABANDONED"
               /\ status[a] = "ABSENT" <=> status'[a] = "ABSENT",
           \A a \in Requests : status[a] \notin {"ABSENT", "ABANDONED"} /\ key # NoKey /\ key.app = a =>
               \/ key' # NoKey /\ key'.app = a
               \/ submitted[a] + Retention < time
    PROVE  SingleInv'
<1>1. /\ time \in Nat /\ Retention \in Nat /\ SweepAfter \in Nat /\ HoldBound \in Nat
      /\ \A a \in Requests : submitted[a] \in Nat
  BY SubmissionConstants DEF IInv, TypeOK
<1>2. NamedOrGone'
  BY <1>1 DEF SingleInv, NamedOrGone
<1>3. OldWhenAbandoned'
  BY <1>1 DEF SingleInv, OldWhenAbandoned
<1>4. OneApplicationPerKey'
  BY DEF SingleInv, OneApplicationPerKey
<1>5. QED
  BY <1>2, <1>3, <1>4 DEF SingleInv

LEMMA SingleStep ==
    ASSUME Orderly, Patient
    PROVE  IInv /\ ClockInv /\ OwnerInv /\ NobodyHoldsTheDead /\ SingleInv /\ [Next]_vars => SingleInv'
<1> SUFFICES ASSUME IInv, ClockInv, OwnerInv, NobodyHoldsTheDead, SingleInv, [Next]_vars
             PROVE  SingleInv'
  OBVIOUS
<1>0. /\ TypeOK /\ Rest /\ Clocked /\ KeyClock /\ OneOwner /\ KeyFollows
      /\ NamedOrGone /\ OldWhenAbandoned /\ OneApplicationPerKey
      /\ time \in Nat
      /\ key # NoKey => key \in Keys /\ key.expires \in Nat /\ key.app \in Requests \cup {NoApp}
      /\ Retention \in Nat /\ HoldBound \in Nat /\ SweepAfter \in Nat
      /\ NoApp \notin Requests
  BY SubmissionConstants, KeyFields DEF IInv, ClockInv, OwnerInv, SingleInv, TypeOK
<1>1. ASSUME NEW r \in Requests, Arrive(r) \/ Moves(r) \/ Leaves(r)
      PROVE  SingleInv'
  <2>1. UNCHANGED <<time, submitted, status, key>>
    BY <1>1 DEF Arrive, Moves, Leaves, rows
  <2>2. QED
    BY <2>1, SingleBystander
<1>2. ASSUME NEW r \in Requests, ClaimStarted(r)
      PROVE  SingleInv'
  <2>1. UNCHANGED <<time, submitted, status>>
    BY <1>2 DEF ClaimStarted, rows
  <2>2. ASSUME NEW a \in Requests, key # NoKey, key.app = a
        PROVE  status[a] = "ABANDONED"
    BY <1>0, <1>2, <2>2 DEF ClaimStarted, KeyFollows
  <2>3. QED
    BY <2>1, <2>2, SingleBystander
<1>3. ASSUME NEW r \in Requests, ClaimResumed(r)
      PROVE  SingleInv'
  <2>1. UNCHANGED <<time, submitted, status>> /\ key' = ClaimedRow(r, key.app)
    BY <1>3 DEF ClaimResumed, rows
  <2>2. key' # NoKey /\ key'.app = key.app
    BY <2>1, ClaimWrites
  <2>3. QED
    BY <2>1, <2>2, SingleBystander
<1>4. ASSUME NEW r \in Requests, Persist(r)
      PROVE  SingleInv'
  <2>1. /\ pc[r] = "persist" /\ UNCHANGED time
        /\ status' = [status EXCEPT ![r] = "RECEIVED"]
        /\ submitted' = [submitted EXCEPT ![r] = now[r]]
    BY <1>4 DEF Persist
  <2>2. key # NoKey /\ key.app = NoApp
    BY <1>0, <2>1 DEF OneOwner, Owns, Holding
  <2>3. key' # NoKey /\ key'.app = r
    BY <1>0, <1>4, <2>2 DEF Persist, Keys, NoKey
  <2>4. /\ status'[r] = "RECEIVED" /\ submitted'[r] = now[r] /\ now[r] \in Nat
        /\ time <= now[r] + HoldBound
    BY <1>0, <2>1 DEF TypeOK, Clocked, Active
  <2>5. ASSUME NEW a \in Requests, a # r
        PROVE  /\ status'[a] = status[a] /\ submitted'[a] = submitted[a] /\ submitted[a] \in Nat
               /\ status[a] \notin {"ABSENT", "ABANDONED"} => submitted[a] + Retention < time
               /\ status[a] = "ABANDONED" => submitted[a] + SweepAfter < time
    BY <1>0, <2>1, <2>2, <2>5 DEF TypeOK, NamedOrGone, OldWhenAbandoned
  <2>6. NamedOrGone'
    BY <2>1, <2>3, <2>5 DEF NamedOrGone
  <2>7. OldWhenAbandoned'
    BY <2>1, <2>4, <2>5 DEF OldWhenAbandoned
  <2>8. ASSUME NEW a \in Requests, a # r, status[a] # "ABSENT"
        PROVE  /\ submitted[a] <= now[r] =>
                      status[a] = "ABANDONED" \/ submitted[a] + Retention < now[r] + HoldBound
               /\ now[r] <= submitted[a] => now[r] + Retention < submitted[a] + HoldBound
    <3>1. CASE status[a] = "ABANDONED"
      <4>1. submitted[a] + SweepAfter < time /\ submitted[a] \in Nat
        BY <2>5, <2>8, <3>1
      <4>2. submitted[a] < now[r]
        BY <1>0, <2>4, <4>1 DEF Patient
      <4>3. QED
        BY <2>4, <3>1, <4>1, <4>2
    <3>2. CASE status[a] # "ABANDONED"
      <4>1. submitted[a] + Retention < time /\ submitted[a] \in Nat
        BY <2>5, <2>8, <3>2
      <4>2. QED
        BY <1>0, <2>4, <4>1
    <3>3. QED
      BY <3>1, <3>2
  <2>9. OneApplicationPerKey'
    <3> SUFFICES ASSUME NEW a \in Requests, NEW b \in Requests, a # b,
                        status'[a] # "ABSENT", status'[b] # "ABSENT", submitted'[a] <= submitted'[b]
                 PROVE  \/ status'[a] = "ABANDONED"
                        \/ submitted'[a] + Retention < submitted'[b] + HoldBound
      BY DEF OneApplicationPerKey
    <3>1. CASE b = r
      BY <2>4, <2>5, <2>8, <3>1
    <3>2. CASE a = r
      BY <2>4, <2>5, <2>8, <3>2
    <3>3. CASE a # r /\ b # r
      BY <1>0, <2>5, <3>3 DEF OneApplicationPerKey
    <3>4. QED
      BY <3>1, <3>2, <3>3
  <2>10. QED
    BY <2>6, <2>7, <2>9 DEF SingleInv
<1>5. ASSUME NEW r \in Requests, CloseSubmission(r)
      PROVE  SingleInv'
  <2>1. /\ app[r] \in Requests /\ status[app[r]] \notin {"ABSENT", "ABANDONED"}
        /\ status' = [status EXCEPT ![app[r]] = StatusFor(verdict[r])]
        /\ UNCHANGED <<time, submitted>>
    BY <1>0, <1>5 DEF CloseSubmission, Rest, RowsOfRequests, NobodyHoldsTheDead, Working
  <2>2. StatusFor(verdict[r]) \notin {"ABSENT", "ABANDONED"}
    BY DEF StatusFor
  <2>3. \A a \in Requests : /\ status[a] = "ABANDONED" <=> status'[a] = "ABANDONED"
                            /\ status[a] = "ABSENT" <=> status'[a] = "ABSENT"
    BY <1>0, <2>1, <2>2 DEF TypeOK
  <2>4. key # NoKey => key' # NoKey /\ key'.app = key.app
    <3> SUFFICES ASSUME key # NoKey
                 PROVE  key' # NoKey /\ key'.app = key.app
      OBVIOUS
    <3>1. PICK body : key' = [key EXCEPT !.state = "COMPLETED", !.body = body]
      BY <1>5 DEF CloseSubmission
    <3>2. QED
      BY <1>0, <3>1 DEF Keys, NoKey
  <2>5. QED
    BY <2>1, <2>3, <2>4, SingleBystander
<1>6. ASSUME NEW a \in Requests, Sweep(a)
      PROVE  SingleInv'
  <2>1. /\ status[a] = "RECEIVED" /\ submitted[a] + SweepAfter < time
        /\ status' = [status EXCEPT ![a] = "ABANDONED"]
        /\ UNCHANGED <<time, submitted>>
    BY <1>6 DEF Sweep
  <2>2. key = NoKey => key' = NoKey
    BY <1>6 DEF Sweep
  <2>3. key # NoKey => key' # NoKey /\ key'.app = key.app
    BY <1>0, <1>6 DEF Sweep, Keys, NoKey
  <2>4. \A b \in Requests : status'[b] = IF b = a THEN "ABANDONED" ELSE status[b]
    BY <1>0, <2>1 DEF TypeOK
  <2>5. QED
    BY <1>0, <2>1, <2>2, <2>3, <2>4 DEF SingleInv, NamedOrGone, OldWhenAbandoned, OneApplicationPerKey
<1>7. CASE PurgeKey
  <2>1. key # NoKey /\ key.expires < time /\ UNCHANGED <<time, submitted, status>>
    BY <1>7 DEF PurgeKey, rows
  <2>2. ASSUME NEW a \in Requests, key.app = a
        PROVE  submitted[a] + Retention < time
    <3>1. submitted[a] + Retention <= key.expires /\ submitted[a] \in Nat
      BY <1>0, <2>1, <2>2 DEF TypeOK, KeyFollows
    <3>2. QED
      BY <1>0, <2>1, <3>1
  <2>3. QED
    BY <2>1, <2>2, SingleBystander
<1>8. CASE Tick \/ UNCHANGED vars
  <2>1. time' \in {time, time + 1} /\ UNCHANGED <<key, submitted, status>>
    BY <1>8 DEF Tick, vars, rows
  <2>2. QED
    BY <2>1, SingleBystander
<1>9. ASSUME NEW a \in Requests, NEW o \in Outcomes, CloseReview(a, o)
      PROVE  SingleInv'
  <2>1. status[a] = "IN_REVIEW"
    BY <1>0, <1>9 DEF CloseReview, ReviewState, Rest, StatusTellsTheDecision
  <2>2. status' = [status EXCEPT ![a] = "REVIEW_CLOSED"] /\ UNCHANGED <<time, key, submitted>>
    BY <1>9 DEF CloseReview
  <2>3. \A b \in Requests : /\ status[b] = "ABANDONED" <=> status'[b] = "ABANDONED"
                            /\ status[b] = "ABSENT" <=> status'[b] = "ABSENT"
    BY <1>0, <2>1, <2>2 DEF TypeOK
  <2>4. QED
    BY <2>2, <2>3, SingleBystander
<1>10. QED
  BY <1>1, <1>2, <1>3, <1>4, <1>5, <1>6, <1>7, <1>8, <1>9, Kinds DEF Aside

\* A sweeper that keeps off what is in use leaves nobody with an abandoned one.
LEMMA LivingHolds == Orderly => (Spec => []NobodyHoldsTheDead)
<1> SUFFICES ASSUME Orderly
             PROVE  Spec => []NobodyHoldsTheDead
  OBVIOUS
<1>1. Init => NobodyHoldsTheDead
  BY DEF Init, NobodyHoldsTheDead, Working, NoKey
<1>2. IInv /\ NobodyHoldsTheDead /\ [Next]_vars => NobodyHoldsTheDead'
  BY LivingStep DEF Orderly
<1>3. QED
  BY <1>1, <1>2, InvHolds, PTL DEF Spec

\* One key makes one application until it is abandoned or the key is purged,
\* whatever crashes, takes over and retries, when requests end within their lease
\* and sooner than the sweeper, which keeps off what is in use.
THEOREM OneApplicationPerKeyAlways == Orderly /\ Patient => (Spec => []OneApplicationPerKey)
<1> SUFFICES ASSUME Orderly, Patient
             PROVE  Spec => []OneApplicationPerKey
  OBVIOUS
<1>1. Init => SingleInv
  BY DEF Init, SingleInv, NamedOrGone, OldWhenAbandoned, OneApplicationPerKey
<1>2. IInv /\ ClockInv /\ OwnerInv /\ NobodyHoldsTheDead /\ SingleInv /\ [Next]_vars => SingleInv'
  BY SingleStep
<1>3. SingleInv => OneApplicationPerKey
  BY DEF SingleInv
<1>4. QED
  BY <1>1, <1>2, <1>3, InvHolds, ClockHolds, OwnerHolds, LivingHolds, PTL DEF Spec

-----------------------------------------------------------------------------
(***************************************************************************)
(* The order of a trail.  An application that is still RECEIVED has        *)
(* nothing in its trail that settles it, and under one holder that is what *)
(* everybody who appends to a trail has found.                             *)
(***************************************************************************)
Settling == {"PRE_DECISION_MADE", "APPLICATION_ABANDONED"}
Reviewing == {"REVIEW_OPENED", "REVIEW_CLOSED"}

\* TrailInOrder, for one trail.
InOrder(s) ==
    \A i, j \in DOMAIN s : i < j /\ s[i] \in Settling =>
        s[i] = "PRE_DECISION_MADE" /\ s[j] \in Reviewing

\* What settles an application is in its trail only when it is in its row.
Unsettled ==
    \A a \in Requests : \A i \in DOMAIN trail[a] :
        /\ trail[a][i] = "PRE_DECISION_MADE" => decision[a] # "none"
        /\ trail[a][i] = "APPLICATION_ABANDONED" => status[a] = "ABANDONED"

TrailInv == Unsettled /\ TrailInOrder

\* An event may follow a trail in which nothing is settled, and the events of a
\* review may follow a verdict.
LEMMA AppendInOrder ==
    ASSUME NEW s \in Seq(Events), InOrder(s), NEW e \in Events,
           \A i \in DOMAIN s : s[i] \notin Settling \/ (s[i] = "PRE_DECISION_MADE" /\ e \in Reviewing)
    PROVE  InOrder(Append(s, e))
<1>1. /\ DOMAIN s = 1 .. Len(s) /\ Len(s) \in Nat
      /\ DOMAIN Append(s, e) = 1 .. Len(s) + 1
      /\ \A i \in 1 .. Len(s) : Append(s, e)[i] = s[i]
      /\ Append(s, e)[Len(s) + 1] = e
  OBVIOUS
<1>2. QED
  BY <1>1 DEF InOrder

\* The closing trail is two or three events, the verdict before its review.
LEMMA ClosingInOrder ==
    ASSUME NEW s \in Seq(Events), InOrder(s), \A i \in DOMAIN s : s[i] \notin Settling,
           NEW how \in {"knockout", "unavailable", "attached"}, NEW v \in Verdicts
    PROVE  /\ InOrder(s \o ClosingTrail(how, v))
           /\ \A i \in DOMAIN (s \o ClosingTrail(how, v)) :
                  (s \o ClosingTrail(how, v))[i] # "APPLICATION_ABANDONED"
<1>1. PICK e \in {"SCREENING_FAILED", "BUREAU_UNAVAILABLE", "BUREAU_REPORT_ATTACHED"} :
          ClosingTrail(how, v) =
              <<e, "PRE_DECISION_MADE">> \o (IF v = "MANUAL_REVIEW" THEN <<"REVIEW_OPENED">> ELSE <<>>)
  BY DEF ClosingTrail
<1> DEFINE t == ClosingTrail(how, v)
           both == s \o t
<1>2. /\ t \in Seq(Events) /\ Len(t) \in {2, 3}
      /\ t[1] = e /\ t[2] = "PRE_DECISION_MADE" /\ (Len(t) = 3 => t[3] = "REVIEW_OPENED")
  <2>1. t \in Seq(Events)
    BY ClosingTrailType
  <2>2. <<e, "PRE_DECISION_MADE">> \in Seq(Events) /\ <<"REVIEW_OPENED">> \in Seq(Events)
    BY DEF Events
  <2>3. CASE v = "MANUAL_REVIEW"
    <3>1. t = <<e, "PRE_DECISION_MADE">> \o <<"REVIEW_OPENED">>
      BY <1>1, <2>3
    <3> HIDE DEF t
    <3>2. QED
      BY <2>1, <2>2, <3>1
  <2>4. CASE v # "MANUAL_REVIEW"
    <3>1. t = <<e, "PRE_DECISION_MADE">> \o << >>
      BY <1>1, <2>4
    <3> HIDE DEF t
    <3>2. t = <<e, "PRE_DECISION_MADE">>
      BY <2>2, <3>1
    <3>3. QED
      BY <2>1, <3>2
  <2>5. QED
    BY <2>3, <2>4
<1>3. e \notin Settling
  BY DEF Settling
<1> HIDE DEF t
<1>4. /\ DOMAIN s = 1 .. Len(s) /\ Len(s) \in Nat
      /\ DOMAIN both = 1 .. Len(s) + Len(t)
      /\ \A i \in DOMAIN both : both[i] = IF i <= Len(s) THEN s[i] ELSE t[i - Len(s)]
  BY <1>2
<1>5. ASSUME NEW i \in DOMAIN both
      PROVE  /\ both[i] # "APPLICATION_ABANDONED"
             /\ both[i] \in Settling =>
                    i = Len(s) + 2 /\ both[i] = "PRE_DECISION_MADE"
  <2>1. CASE i <= Len(s)
    BY <1>4, <2>1 DEF Settling
  <2>2. CASE ~(i <= Len(s))
    <3>1. both[i] = t[i - Len(s)] /\ i - Len(s) \in {1, 2, 3} /\ (i - Len(s) = 3 => Len(t) = 3)
      BY <1>2, <1>4, <2>2
    <3>2. CASE i - Len(s) = 1
      BY <1>2, <1>3, <3>1, <3>2 DEF Settling
    <3>3. CASE i - Len(s) = 2
      BY <1>2, <1>4, <3>1, <3>3
    <3>4. CASE i - Len(s) = 3
      BY <1>2, <3>1, <3>4 DEF Settling
    <3>5. QED
      BY <3>1, <3>2, <3>3, <3>4
  <2>3. QED
    BY <2>1, <2>2
<1>6. ASSUME NEW i \in DOMAIN both, NEW j \in DOMAIN both, i < j, both[i] \in Settling
      PROVE  both[i] = "PRE_DECISION_MADE" /\ both[j] \in Reviewing
  <2>1. i = Len(s) + 2 /\ both[i] = "PRE_DECISION_MADE"
    BY <1>5, <1>6
  <2>2. j = Len(s) + 3 /\ Len(t) = 3
    BY <1>2, <1>4, <1>6, <2>1
  <2>3. both[j] = t[3]
    BY <1>4, <1>6, <2>2
  <2>4. QED
    BY <1>2, <2>1, <2>2, <2>3 DEF Reviewing
<1>7. QED
  BY <1>5, <1>6 DEF InOrder, t

\* One trail changes, by what its row allows.
LEMMA TrailOfOne ==
    ASSUME TypeOK, TrailInv, NEW a \in Requests, NEW s,
           trail' = [trail EXCEPT ![a] = s], InOrder(s),
           \A i \in DOMAIN s : /\ s[i] = "PRE_DECISION_MADE" => decision'[a] # "none"
                               /\ s[i] = "APPLICATION_ABANDONED" => status'[a] = "ABANDONED",
           \A b \in Requests : b # a => decision'[b] = decision[b] /\ status'[b] = status[b]
    PROVE  TrailInv'
<1>1. \A b \in Requests : trail'[b] = IF b = a THEN s ELSE trail[b]
  BY DEF TypeOK
<1>2. Unsettled'
  BY <1>1 DEF TrailInv, Unsettled
<1>3. TrailInOrder'
  BY <1>1 DEF TrailInv, TrailInOrder, InOrder, Settling, Reviewing
<1>4. QED
  BY <1>2, <1>3 DEF TrailInv

\* A trail that grows by one event keeps what it held.
LEMMA GrownTrail ==
    ASSUME NEW s \in Seq(Events), NEW e \in Events
    PROVE  \A i \in DOMAIN Append(s, e) : Append(s, e)[i] = e \/ \E k \in DOMAIN s : Append(s, e)[i] = s[k]
<1>1. /\ DOMAIN s = 1 .. Len(s) /\ Len(s) \in Nat
      /\ DOMAIN Append(s, e) = 1 .. Len(s) + 1
      /\ \A i \in 1 .. Len(s) : Append(s, e)[i] = s[i]
      /\ Append(s, e)[Len(s) + 1] = e
  OBVIOUS
<1>2. QED
  BY <1>1

LEMMA TrailOrderStep ==
    ASSUME Orderly
    PROVE  IInv /\ OwnerInv /\ NobodyHoldsTheDead /\ TrailInv /\ [Next]_vars => TrailInv'
<1> SUFFICES ASSUME IInv, OwnerInv, NobodyHoldsTheDead, TrailInv, [Next]_vars
             PROVE  TrailInv'
  OBVIOUS
<1>0. /\ TypeOK /\ Rest /\ OneOwner /\ KeyFollows /\ Unsettled
      /\ \A a \in Requests : trail[a] \in Seq(Events) /\ InOrder(trail[a])
      /\ NoApp \notin Requests
  BY SubmissionConstants DEF IInv, OwnerInv, TrailInv, TypeOK, TrailInOrder, InOrder, Settling, Reviewing
<1>a. ASSUME NEW a \in Requests, status[a] = "RECEIVED"
      PROVE  decision[a] = "none" /\ \A i \in DOMAIN trail[a] : trail[a][i] \notin Settling
  <2>1. decision[a] = "none"
    BY <1>0, <1>a DEF TypeOK, Rest, StatusTellsTheDecision, Verdicts
  <2>2. QED
    BY <1>0, <1>a, <2>1 DEF Unsettled, Settling
<1>b. ASSUME NEW r \in Requests, pc[r] \in Working
      PROVE  app[r] \in Requests /\ status[app[r]] = "RECEIVED"
  <2>1. app[r] \in Requests
    BY <1>0, <1>b DEF Rest, RowsOfRequests
  <2>2. key # NoKey /\ key.state = "IN_PROGRESS" /\ key.app = app[r]
    BY <1>0, <1>b DEF OneOwner, Owns, Holding, Working
  <2>3. QED
    BY <1>0, <2>1, <2>2 DEF KeyFollows
<1>1. ASSUME NEW r \in Requests, Persist(r)
      PROVE  TrailInv'
  <2> DEFINE s == <<"APPLICATION_RECEIVED">>
  <2>1. trail' = [trail EXCEPT ![r] = s] /\ decision' = decision
        /\ status' = [status EXCEPT ![r] = "RECEIVED"]
    BY <1>1 DEF Persist
  <2>2. DOMAIN s = {1} /\ s[1] = "APPLICATION_RECEIVED"
    OBVIOUS
  <2> HIDE DEF s
  <2>3. InOrder(s)
    BY <2>2 DEF InOrder
  <2>4. \A b \in Requests : b # r => status'[b] = status[b]
    BY <1>0, <2>1 DEF TypeOK
  <2>5. QED
    BY <1>0, <2>1, <2>2, <2>3, <2>4, TrailOfOne
<1>2. ASSUME NEW r \in Requests, PullRequested(r)
      PROVE  TrailInv'
  <2> DEFINE a == app[r]
             e == "BUREAU_PULL_REQUESTED"
  <2>1. /\ pc[r] \in Working /\ UNCHANGED <<status, decision>>
        /\ trail' = [trail EXCEPT ![a] = Append(trail[a], e)]
    BY <1>2 DEF PullRequested, Working
  <2>2. a \in Requests /\ status[a] = "RECEIVED"
    BY <1>b, <2>1
  <2>3. e \in Events /\ e \notin Settling /\ \A i \in DOMAIN trail[a] : trail[a][i] \notin Settling
    BY <1>a, <2>2 DEF Events, Settling
  <2> HIDE DEF a, e
  <2>4. InOrder(Append(trail[a], e))
    <3>1. \A i \in DOMAIN trail[a] :
              trail[a][i] \notin Settling \/ (trail[a][i] = "PRE_DECISION_MADE" /\ e \in Reviewing)
      BY <2>3
    <3>2. QED
      BY <1>0, <2>2, <2>3, <3>1, AppendInOrder
  <2>5. \A i \in DOMAIN Append(trail[a], e) : Append(trail[a], e)[i] \notin Settling
    BY <1>0, <2>2, <2>3, GrownTrail
  <2>6. QED
    BY <1>0, <2>1, <2>2, <2>4, <2>5, TrailOfOne DEF Settling
<1>3. ASSUME NEW r \in Requests, CloseSubmission(r)
      PROVE  TrailInv'
  <2> DEFINE a == app[r]
             v == verdict[r]
             s == trail[a] \o ClosingTrail(found[r], v)
  <2>1. /\ pc[r] = "close"
        /\ decision' = [decision EXCEPT ![a] = v]
        /\ status' = [status EXCEPT ![a] = StatusFor(v)]
        /\ trail' = [trail EXCEPT ![a] = s]
    BY <1>3 DEF CloseSubmission
  <2>2. a \in Requests /\ status[a] = "RECEIVED"
    BY <1>b, <2>1 DEF Working
  <2>3. v \in Verdicts /\ v # "none" /\ found[r] \in {"knockout", "unavailable", "attached"}
    BY <1>0, <2>1 DEF TypeOK, Rest, HeldInMemory
  <2>4. \A i \in DOMAIN trail[a] : trail[a][i] \notin Settling
    BY <1>a, <2>2
  <2> HIDE DEF a, v
  <2>5. InOrder(s) /\ \A i \in DOMAIN s : s[i] # "APPLICATION_ABANDONED"
    BY <1>0, <2>2, <2>3, <2>4, ClosingInOrder
  <2>6. decision'[a] # "none" /\ \A b \in Requests : b # a => decision'[b] = decision[b] /\ status'[b] = status[b]
    BY <1>0, <2>1, <2>2, <2>3 DEF TypeOK
  <2> HIDE DEF s
  <2>7. QED
    BY <1>0, <2>1, <2>2, <2>5, <2>6, TrailOfOne
<1>4. ASSUME NEW a \in Requests, NEW o \in Outcomes, CloseReview(a, o)
      PROVE  TrailInv'
  <2> DEFINE e == "REVIEW_CLOSED"
             s == Append(trail[a], e)
  <2>1. /\ decision[a] = "MANUAL_REVIEW" /\ outcome[a] = "none" /\ decision' = decision
        /\ status' = [status EXCEPT ![a] = "REVIEW_CLOSED"]
        /\ trail' = [trail EXCEPT ![a] = s]
    BY <1>4 DEF CloseReview, ReviewState
  <2>2. status[a] = "IN_REVIEW"
    BY <1>0, <2>1 DEF Rest, StatusTellsTheDecision
  <2>3. \A i \in DOMAIN trail[a] : trail[a][i] # "APPLICATION_ABANDONED"
    BY <1>0, <2>2 DEF Unsettled
  <2>4. e \in Events /\ e \in Reviewing /\ e # "APPLICATION_ABANDONED"
    BY DEF Events, Reviewing
  <2> HIDE DEF e
  <2>5. InOrder(s)
    BY <1>0, <2>3, <2>4, AppendInOrder DEF Settling
  <2>6. \A i \in DOMAIN s : s[i] # "APPLICATION_ABANDONED"
    BY <1>0, <2>3, <2>4, GrownTrail
  <2>7. \A b \in Requests : b # a => status'[b] = status[b]
    BY <1>0, <2>1 DEF TypeOK
  <2> HIDE DEF s
  <2>8. QED
    BY <1>0, <2>1, <2>5, <2>6, <2>7, TrailOfOne
<1>5. ASSUME NEW a \in Requests, Sweep(a)
      PROVE  TrailInv'
  <2> DEFINE e == "APPLICATION_ABANDONED"
             s == Append(trail[a], e)
  <2>1. /\ status[a] = "RECEIVED" /\ decision' = decision
        /\ status' = [status EXCEPT ![a] = "ABANDONED"]
        /\ trail' = [trail EXCEPT ![a] = s]
    BY <1>5 DEF Sweep
  <2>2. \A i \in DOMAIN trail[a] : trail[a][i] \notin Settling
    BY <1>a, <2>1
  <2>3. e \in Events /\ e # "PRE_DECISION_MADE"
    BY DEF Events
  <2> HIDE DEF e
  <2>4. InOrder(s)
    <3>1. \A i \in DOMAIN trail[a] :
              trail[a][i] \notin Settling \/ (trail[a][i] = "PRE_DECISION_MADE" /\ e \in Reviewing)
      BY <2>2
    <3>2. QED
      BY <1>0, <2>3, <3>1, AppendInOrder
  <2>5. \A i \in DOMAIN s : s[i] # "PRE_DECISION_MADE"
    BY <1>0, <2>2, <2>3, GrownTrail DEF Settling
  <2>6. status'[a] = "ABANDONED" /\ \A b \in Requests : b # a => status'[b] = status[b]
    BY <1>0, <2>1 DEF TypeOK
  <2> HIDE DEF s
  <2>7. QED
    BY <1>0, <2>1, <2>4, <2>5, <2>6, TrailOfOne
<1>6. ASSUME UNCHANGED <<status, decision, trail>>
      PROVE  TrailInv'
  BY <1>6 DEF TrailInv, Unsettled, TrailInOrder
<1>7. ASSUME NEW r \in Requests,
             \/ Arrive(r) \/ Crash(r)
             \/ Submit(r) /\ ~Persist(r) /\ ~PullRequested(r) /\ ~CloseSubmission(r)
      PROVE  UNCHANGED <<status, decision, trail>>
  BY <1>7 DEF Arrive, Crash, Submit, ClaimStarted, ClaimResumed, ClaimRefused, Peek, ReadApplication, Look,
              Knockout, LookupReturns, DuplicateVerdict, rows
<1>8. ASSUME PurgeKey \/ Tick \/ UNCHANGED vars
      PROVE  UNCHANGED <<status, decision, trail>>
  BY <1>8 DEF PurgeKey, Tick, vars, rows
<1>9. QED
  BY <1>1, <1>2, <1>3, <1>4, <1>5, <1>6, <1>7, <1>8 DEF Next, Sweeper, Reviewer, Submit

\* A trail ends with what settled its application, whatever crashes and retries,
\* when requests end within their lease and the sweeper keeps off what is in use.
THEOREM TrailInOrderAlways == Orderly => (Spec => []TrailInOrder)
<1> SUFFICES ASSUME Orderly
             PROVE  Spec => []TrailInOrder
  OBVIOUS
<1>1. Init => TrailInv
  BY DEF Init, TrailInv, Unsettled, TrailInOrder
<1>2. IInv /\ OwnerInv /\ NobodyHoldsTheDead /\ TrailInv /\ [Next]_vars => TrailInv'
  BY TrailOrderStep
<1>3. TrailInv => TrailInOrder
  BY DEF TrailInv
<1>4. QED
  BY <1>1, <1>2, <1>3, InvHolds, OwnerHolds, LivingHolds, PTL DEF Spec
=============================================================================
