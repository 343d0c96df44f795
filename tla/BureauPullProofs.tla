-------------------------- MODULE BureauPullProofs --------------------------
(***************************************************************************)
(* Proofs about BureauPull, for every budget, timeout, pause and lag.      *)
(***************************************************************************)
EXTENDS BureauPull, FiniteSetTheorems, TLAPS

-----------------------------------------------------------------------------
(***************************************************************************)
(* The inductive invariant.                                                *)
(***************************************************************************)

\* The loop calls while its budget lasts, and tells its ending when it is done.
Looping ==
    /\ pc # "attempt" => attempt >= 1
    /\ pc \in {"attempt", "backoff"} => attempt < MaxAttempts
    /\ pc = "done" <=> told # "none"

\* Every call that went out carried the one id; a mark is of that id, and
\* whatever came from the bureau left it.
OneId ==
    /\ \A i \in Attempts : i > attempt => remote[i] = "unsent"
    /\ \A i \in Attempts : i <= attempt => id[i] = 1
    /\ marks \subseteq {1}
    /\ \A i \in Attempts : remote[i] \in Answers \cup {"received"} => marks # {}
    /\ told \in Answers => marks # {}

\* Between two calls every call so far has failed; so have all of them when the
\* pull gives up.
Failed ==
    /\ \A i \in Attempts : i < attempt => heard[i] \in Failures
    /\ pc \in {"attempt", "backoff"} => \A i \in Attempts : i <= attempt => heard[i] \in Failures
    /\ told \in Failures \cup {"RETRIES_EXHAUSTED"} =>
          /\ attempt = MaxAttempts
          /\ heard[attempt] \in Failures
          /\ told = IF MaxAttempts = 1 THEN heard[1] ELSE "RETRIES_EXHAUSTED"

\* What one attempt and the pause after it take, with both timers late.
Round == Timeout + Lag + Backoff + Lag

\* The clock, round by round.
Paced ==
    /\ pc = "attempt" => time <= attempt * Round
    /\ pc = "waiting" => timer <= (attempt - 1) * Round + Timeout /\ time <= timer + Lag
    /\ pc = "backoff" => timer <= (attempt - 1) * Round + Timeout + Lag + Backoff /\ time <= timer + Lag

Inductive == TypeOK /\ Looping /\ OneId /\ Failed /\ Paced

-----------------------------------------------------------------------------
\* The products of the clock's bounds.
LEMMA Rounds ==
    ASSUME NEW a \in Nat, NEW b \in Nat, NEW R \in Nat, a <= b
    PROVE  /\ a * R \in Nat /\ b * R \in Nat /\ a * R <= b * R
           /\ (a + 1) * R = a * R + R
  <1>1. PICK d \in Nat : b = a + d
    <2>1. b - a \in Nat /\ b = a + (b - a)
      OBVIOUS
    <2> QED BY <2>1
  <1>2. b * R = a * R + d * R /\ d * R \in Nat /\ a * R \in Nat
    BY <1>1
  <1>3. (a + 1) * R = a * R + R
    OBVIOUS
  <1> QED BY <1>2, <1>3

\* The worst case of config.ts, and what late timers add to it.
LEMMA WorstCaseOfRounds ==
    (MaxAttempts - 1) * Round + Timeout + Lag = WorstCase + (2 * MaxAttempts - 1) * Lag
  <1> USE PullConstants DEF Round, WorstCase
  <1>1. PICK n \in Nat : MaxAttempts = n + 1
    <2>1. MaxAttempts - 1 \in Nat /\ MaxAttempts = (MaxAttempts - 1) + 1
      OBVIOUS
    <2> QED BY <2>1
  <1>2. MaxAttempts - 1 = n /\ 2 * MaxAttempts - 1 = 2 * n + 1
    BY <1>1
  <1>3. n * Round = n * Timeout + n * Backoff + (2 * n) * Lag
    OBVIOUS
  <1>4. MaxAttempts * Timeout = n * Timeout + Timeout /\ (2 * n + 1) * Lag = (2 * n) * Lag + Lag
    BY <1>1
  <1>5. /\ n * Timeout \in Nat /\ n * Backoff \in Nat /\ (2 * n) * Lag \in Nat
    OBVIOUS
  <1> QED BY <1>2, <1>3, <1>4, <1>5

LEMMA InitInductive == Init => Inductive
  <1> SUFFICES ASSUME Init PROVE Inductive
    OBVIOUS
  <1> USE PullConstants
  <1>1. TypeOK
    BY DEF Init, TypeOK, Attempts, Endings
  <1>2. Looping /\ OneId /\ Failed
    BY DEF Init, Looping, OneId, Failed, Attempts, Answers, Failures
  <1>3. Paced
    BY DEF Init, Paced, Round
  <1> QED BY <1>1, <1>2, <1>3 DEF Inductive

\* The head of the loop.
LEMMA CallStep == Inductive /\ Call => Inductive'
  <1> SUFFICES ASSUME Inductive, Call PROVE Inductive'
    OBVIOUS
  <1> USE PullConstants DEF Inductive
  <1>1. attempt + 1 \in Attempts /\ attempt \in Nat
    BY DEF Call, TypeOK, Looping, Attempts
  <1>2. TypeOK'
    BY <1>1 DEF Call, TypeOK, Attempts, RequestId, Settlements
  <1>3. Looping'
    BY <1>1 DEF Call, Looping, TypeOK
  <1>4. OneId'
    <2>1. \A i \in Attempts : i > attempt' => remote'[i] = "unsent"
      BY <1>1 DEF Call, OneId, TypeOK, Attempts
    <2>2. \A i \in Attempts : i <= attempt' => id'[i] = 1
      BY <1>1 DEF Call, OneId, TypeOK, Attempts, RequestId
    <2>3. \A i \in Attempts : remote'[i] \in Answers \cup {"received"} => marks' # {}
      BY <1>1 DEF Call, OneId, TypeOK, Attempts, Answers
    <2> QED BY <2>1, <2>2, <2>3 DEF Call, OneId
  <1>5. Failed'
    BY <1>1 DEF Call, Failed, Looping, TypeOK, Attempts, Failures
  <1>6. Paced'
    BY <1>1, Rounds DEF Call, Paced, Round, TypeOK
  <1> QED BY <1>2, <1>3, <1>4, <1>5, <1>6

\* The bureau.
LEMMA ReceiveStep == ASSUME NEW j \in Attempts PROVE Inductive /\ Receive(j) => Inductive'
  <1> SUFFICES ASSUME Inductive, Receive(j) PROVE Inductive'
    OBVIOUS
  <1> USE PullConstants DEF Inductive
  <1>1. id[j] = 1 /\ marks' = {1}
    <2>1. remote[j] # "unsent"
      BY DEF Receive
    <2>2. ~(j > attempt)
      BY <2>1 DEF OneId
    <2>3. id[j] = 1
      BY <2>2 DEF OneId, TypeOK, Attempts
    <2> QED BY <2>3 DEF Receive, OneId
  <1>2. TypeOK'
    BY <1>1 DEF Receive, TypeOK
  <1>3. OneId'
    BY <1>1 DEF Receive, OneId, TypeOK, Attempts
  <1>4. Looping' /\ Failed' /\ Paced'
    BY DEF Receive, Looping, Failed, Paced
  <1> QED BY <1>2, <1>3, <1>4

LEMMA SettleStep == ASSUME NEW j \in Attempts PROVE Inductive /\ Settle(j) => Inductive'
  <1> SUFFICES ASSUME Inductive, Settle(j) PROVE Inductive'
    OBVIOUS
  <1> USE PullConstants DEF Inductive
  <1>1. PICK s \in Settlements :
          /\ s \in Answers => remote[j] = "received"
          /\ remote' = [remote EXCEPT ![j] = s]
    BY DEF Settle
  <1>2. TypeOK'
    BY <1>1 DEF Settle, TypeOK
  <1>3. OneId'
    <2>1. \A i \in Attempts : i > attempt => remote'[i] = "unsent"
      BY <1>1 DEF Settle, OneId, TypeOK, Attempts
    <2>2. \A i \in Attempts : remote'[i] \in Answers \cup {"received"} => marks # {}
      BY <1>1 DEF Settle, OneId, TypeOK, Settlements, Answers, Failures
    <2> QED BY <2>1, <2>2 DEF Settle, OneId
  <1>4. Looping' /\ Failed' /\ Paced'
    BY DEF Settle, Looping, Failed, Paced
  <1> QED BY <1>2, <1>3, <1>4

\* A transport failure, heard or timed out.
LEMMA FailStep ==
    ASSUME NEW f \in Failures, Inductive, pc = "waiting",
           heard' = [heard EXCEPT ![attempt] = f], FailAttempt(f),
           UNCHANGED <<time, attempt, id, remote, marks>>
    PROVE  Inductive'
  <1> USE PullConstants DEF Inductive
  <1>1. attempt \in Attempts /\ attempt \in Nat /\ f \in Settlements /\ f \notin Answers
    BY DEF Looping, TypeOK, Attempts, Settlements, Failures, Answers
  <1>2. heard' \in [Attempts -> {"nothing"} \cup Settlements]
    BY <1>1 DEF TypeOK
  <1>3. \A i \in Attempts : i <= attempt => heard'[i] \in Failures
    BY <1>1 DEF Failed, TypeOK, Attempts
  <1>4. CASE attempt >= MaxAttempts
    <2>1. attempt = MaxAttempts /\ pc' = "done" /\ timer' = timer /\ told' = Cause(f)
      BY <1>4 DEF FailAttempt, Return, TypeOK
    <2>2. Cause(f) \in Endings \ (Answers \cup {"none"})
      BY DEF Cause, Endings, Failures, Answers
    <2>3. TypeOK' /\ Looping' /\ OneId' /\ Paced'
      BY <1>1, <1>2, <2>1, <2>2 DEF TypeOK, Looping, OneId, Paced
    <2>4. Failed'
      BY <1>1, <1>3, <2>1 DEF Failed, Cause, TypeOK, Attempts
    <2> QED BY <2>3, <2>4
  <1>5. CASE attempt < MaxAttempts
    <2>1. PICK pause \in Pauses : timer' = time + pause
      BY <1>1, <1>5 DEF FailAttempt
    <2>2. pause \in Nat /\ pause <= Backoff
      BY DEF Pauses
    <2>3. pc' = "backoff" /\ told' = told /\ told = "none"
      BY <1>1, <1>5 DEF FailAttempt, Looping
    <2>4. TypeOK' /\ Looping' /\ OneId'
      BY <1>1, <1>2, <1>5, <2>1, <2>2, <2>3 DEF TypeOK, Looping, OneId
    <2>5. Failed'
      BY <1>1, <1>3, <1>5, <2>3 DEF Failed, Failures, Attempts
    <2>6. Paced'
      <3>1. attempt - 1 \in Nat /\ Round \in Nat
        BY <1>1 DEF Attempts, Round
      <3>2. (attempt - 1) * Round \in Nat
        BY <3>1, Rounds
      <3> QED BY <2>1, <2>2, <2>3, <3>2 DEF Paced, TypeOK
    <2> QED BY <2>4, <2>5, <2>6
  <1> QED BY <1>1, <1>4, <1>5

\* The call wins the race.
LEMMA HearStep == Inductive /\ Hear => Inductive'
  <1> SUFFICES ASSUME Inductive, Hear PROVE Inductive'
    OBVIOUS
  <1> DEFINE s == remote[attempt]
  <1>1. CASE s \in Failures
    BY <1>1, FailStep DEF Hear
  <1>2. CASE s \notin Failures
    <2> USE PullConstants DEF Inductive
    <2>1. attempt \in Attempts /\ s \in Answers \cup {"defect"} /\ s \in Settlements
      BY <1>2 DEF Hear, Looping, TypeOK, Attempts, Settlements
    <2>2. pc' = "done" /\ told' = s /\ timer' = timer
      BY <1>2 DEF Hear, Return
    <2>3. TypeOK'
      BY <2>1, <2>2 DEF Hear, TypeOK, Endings
    <2>4. Looping' /\ OneId'
      BY <2>1, <2>2 DEF Hear, Looping, OneId, Answers
    <2>5. Failed' /\ Paced'
      BY <2>1, <2>2 DEF Hear, Failed, Paced, TypeOK, Attempts, Answers, Failures
    <2> QED BY <2>3, <2>4, <2>5
  <1> QED BY <1>1, <1>2

LEMMA TimesOutStep == Inductive /\ TimesOut => Inductive'
  BY FailStep DEF TimesOut, Failures

LEMMA ResumeStep == Inductive /\ Resume => Inductive'
  <1> SUFFICES ASSUME Inductive, Resume PROVE Inductive'
    OBVIOUS
  <1> USE PullConstants DEF Inductive
  <1>1. TypeOK' /\ Looping' /\ OneId' /\ Failed'
    BY DEF Resume, TypeOK, Looping, OneId, Failed
  <1>2. Paced'
    <2>1. attempt - 1 \in Nat /\ Round \in Nat /\ attempt = (attempt - 1) + 1
      BY DEF Resume, Looping, TypeOK, Round
    <2>2. attempt * Round = (attempt - 1) * Round + Round /\ (attempt - 1) * Round \in Nat
      BY <2>1, Rounds
    <2> QED BY <2>2 DEF Resume, Paced, Round, TypeOK
  <1> QED BY <1>1, <1>2

LEMMA TickStep == Inductive /\ Tick => Inductive'
  <1> SUFFICES ASSUME Inductive, Tick PROVE Inductive'
    OBVIOUS
  <1> USE PullConstants DEF Inductive
  <1>1. TypeOK' /\ Looping' /\ OneId' /\ Failed'
    BY DEF Tick, TypeOK, Looping, OneId, Failed
  <1>2. Paced'
    BY DEF Tick, Paced, TypeOK
  <1> QED BY <1>1, <1>2

THEOREM InductiveHolds == Spec => []Inductive
  <1>1. Inductive /\ [Next]_vars => Inductive'
    <2> SUFFICES ASSUME Inductive, [Next]_vars PROVE Inductive'
      OBVIOUS
    <2>1. CASE Loop
      BY <2>1, CallStep, HearStep, TimesOutStep, ResumeStep DEF Loop
    <2>2. CASE Bureau
      BY <2>2, ReceiveStep, SettleStep DEF Bureau
    <2>3. CASE Tick
      BY <2>3, TickStep
    <2>4. CASE UNCHANGED vars
      BY <2>4 DEF vars, Inductive, TypeOK, Looping, OneId, Failed, Paced
    <2> QED BY <2>1, <2>2, <2>3, <2>4 DEF Next
  <1> QED BY InitInductive, <1>1, PTL DEF Spec

-----------------------------------------------------------------------------
(***************************************************************************)
(* The theorems.                                                           *)
(***************************************************************************)

\* The variables of pullWithResilience keep their types.
THEOREM TypeCorrect == Spec => []TypeOK
  BY InductiveHolds, PTL DEF Inductive

\* One request id, minted ahead of the loop, makes one enquiry of any number of
\* attempts, abandoned ones included.
THEOREM PullMarksOnce == Spec => []MarkedOnce
  <1>1. Inductive => MarkedOnce
    <2> SUFFICES ASSUME Inductive PROVE Cardinality(marks) <= 1
      BY DEF MarkedOnce
    <2>1. marks = {} \/ marks = {1}
      BY DEF Inductive, OneId
    <2>2. Cardinality({}) = 0
      BY FS_EmptySet
    <2>3. Cardinality({1}) = 1
      BY FS_Singleton
    <2> QED BY <2>1, <2>2, <2>3
  <1> QED BY InductiveHolds, <1>1, PTL

\* The loop repeats a call after a transport failure only, and UNAVAILABLE is told
\* after the whole budget failed, with the documented cause.
THEOREM PullEarnsItsEnding == Spec => []EndingIsEarned
  <1>1. Inductive => EndingIsEarned
    <2>1. ASSUME Inductive PROVE \A i \in Attempts : i < attempt => heard[i] \in Failures
      BY <2>1 DEF Inductive, Failed
    <2>2. ASSUME Inductive, told \in Failures \cup {"RETRIES_EXHAUSTED"}
          PROVE  /\ \A i \in Attempts : heard[i] \in Failures
                 /\ told = IF MaxAttempts = 1 THEN heard[1] ELSE "RETRIES_EXHAUSTED"
      <3>1. attempt = MaxAttempts /\ heard[attempt] \in Failures
        BY <2>2 DEF Inductive, Failed
      <3>2. \A i \in Attempts : i = attempt \/ i < attempt
        BY <3>1, PullConstants DEF Attempts
      <3> QED BY <2>2, <3>1, <3>2 DEF Inductive, Failed
    <2> QED BY <2>1, <2>2 DEF EndingIsEarned
  <1> QED BY InductiveHolds, <1>1, PTL

\* The arithmetic config.ts refuses a lease by is enough for every budget.
THEOREM PullKeepsTheLease == Spec => []InsideTheLease
  <1>1. Inductive => InsideTheLease
    <2> SUFFICES ASSUME Inductive, pc # "done"
                 PROVE  time < ClaimLease + (2 * MaxAttempts - 1) * Lag
      BY DEF InsideTheLease
    <2> USE PullConstants
    <2> DEFINE Last == (MaxAttempts - 1) * Round
    <2>1. Round \in Nat /\ MaxAttempts - 1 \in Nat /\ attempt \in Nat /\ time \in Nat /\ timer \in Nat
      BY DEF Round, Inductive, TypeOK
    <2>2. Last \in Nat
      BY <2>1, Rounds
    <2>3. time <= Last + Timeout + Lag
      <3>1. CASE pc = "attempt"
        <4>1. attempt <= MaxAttempts - 1 /\ time <= attempt * Round
          BY <3>1 DEF Inductive, Looping, Paced, TypeOK
        <4>2. attempt * Round <= Last /\ attempt * Round \in Nat
          BY <2>1, <4>1, Rounds
        <4> HIDE DEF Last
        <4> QED BY <2>1, <2>2, <4>1, <4>2
      <3>2. CASE pc = "waiting"
        <4>1. attempt - 1 \in Nat /\ attempt - 1 <= MaxAttempts - 1
          BY <2>1, <3>2 DEF Inductive, Looping, TypeOK
        <4>2. (attempt - 1) * Round <= Last /\ (attempt - 1) * Round \in Nat
          BY <2>1, <4>1, Rounds
        <4>3. timer <= (attempt - 1) * Round + Timeout /\ time <= timer + Lag
          BY <3>2 DEF Inductive, Paced
        <4> HIDE DEF Last
        <4> QED BY <2>1, <2>2, <4>2, <4>3
      <3>3. CASE pc = "backoff"
        <4>1. attempt - 1 \in Nat /\ attempt <= MaxAttempts - 1 /\ attempt = (attempt - 1) + 1
          BY <2>1, <3>3 DEF Inductive, Looping, TypeOK
        <4>2. /\ attempt * Round <= Last /\ attempt * Round \in Nat
              /\ attempt * Round = (attempt - 1) * Round + Round /\ (attempt - 1) * Round \in Nat
          BY <2>1, <4>1, Rounds
        <4>3. timer <= (attempt - 1) * Round + Timeout + Lag + Backoff /\ time <= timer + Lag
          BY <3>3 DEF Inductive, Paced
        <4>4. time <= (attempt - 1) * Round + Round
          BY <2>1, <4>2, <4>3 DEF Round
        <4> HIDE DEF Last
        <4> QED BY <2>1, <2>2, <4>2, <4>4
      <3> QED BY <3>1, <3>2, <3>3 DEF Inductive, TypeOK
    <2>4. Last + Timeout + Lag = WorstCase + (2 * MaxAttempts - 1) * Lag
      BY WorstCaseOfRounds
    <2>5. WorstCase \in Nat /\ (2 * MaxAttempts - 1) * Lag \in Nat
      BY <2>1, Rounds DEF WorstCase
    <2> HIDE DEF Last
    <2> QED BY <2>1, <2>2, <2>3, <2>4, <2>5, LeaseExceedsWorstCase
  <1> QED BY InductiveHolds, <1>1, PTL

\* The retry loop implements one logical pull.
THEOREM PullKeepsItsPromise == Spec => KeepsPromise
  <1> USE PullConstants
  <1>1. Init => Pull!Init
    BY DEF Init, Pull!Init
  <1>2. Inductive /\ [Next]_vars => [Pull!Next]_Pull!vars
    <2> SUFFICES ASSUME Inductive, [Next]_vars PROVE [Pull!Next]_Pull!vars
      OBVIOUS
    <2> USE DEF Pull!vars
    <2>1. CASE Call
      <3>1. attempt \in Nat /\ attempt' = attempt + 1 /\ UNCHANGED <<marks, told>>
        BY <2>1 DEF Call, Inductive, TypeOK
      <3>2. CASE attempt = 0
        BY <3>1, <3>2 DEF Pull!Next, Pull!Ask
      <3>3. CASE attempt > 0
        BY <3>1, <3>3
      <3> QED BY <3>1, <3>2, <3>3
    <2>2. ASSUME NEW j \in Attempts, Receive(j) PROVE [Pull!Next]_Pull!vars
      <3>1. j <= attempt
        BY <2>2 DEF Receive, Inductive, OneId, TypeOK, Attempts
      <3>2. id[j] = 1 /\ attempt > 0 /\ attempt' = attempt /\ told' = told /\ marks' = marks \cup {id[j]}
        BY <2>2, <3>1 DEF Receive, Inductive, OneId, TypeOK, Attempts
      <3>3. marks = {} \/ marks = {1}
        BY DEF Inductive, OneId
      <3>4. marks' = {1}
        BY <3>2, <3>3
      <3>5. 1 \in Attempts
        BY DEF Attempts
      <3> QED BY <3>2, <3>3, <3>4, <3>5 DEF Pull!Next, Pull!Mark
    <2>3. ASSUME NEW j \in Attempts, Settle(j) PROVE [Pull!Next]_Pull!vars
      BY <2>3 DEF Settle
    <2>4. ASSUME pc = "waiting", UNCHANGED <<attempt, marks>>, NEW f \in Failures, FailAttempt(f)
          PROVE [Pull!Next]_Pull!vars
      <3>1. attempt > 0 /\ told = "none"
        BY <2>4 DEF Inductive, Looping, TypeOK
      <3>2. told' = told \/ told' = Cause(f)
        BY <2>4 DEF FailAttempt, Return
      <3>3. Cause(f) \in Endings \ {"FOUND", "NO_HIT"}
        BY DEF Cause, Endings, Failures
      <3> QED BY <2>4, <3>1, <3>2, <3>3 DEF Pull!Next, Pull!Tell
    <2>5. CASE Hear
      <3>1. CASE remote[attempt] \in Failures
        BY <2>4, <2>5, <3>1 DEF Hear
      <3>2. CASE remote[attempt] \notin Failures
        <4>1. told' = remote[attempt] /\ remote[attempt] \in Endings /\ told = "none" /\ attempt > 0
          BY <2>5, <3>2 DEF Hear, Return, Inductive, Looping, TypeOK, Settlements, Endings
        <4>2. remote[attempt] \in {"FOUND", "NO_HIT"} => marks # {}
          BY <2>5 DEF Hear, Inductive, OneId, Looping, TypeOK, Answers, Attempts
        <4> QED BY <2>5, <4>1, <4>2 DEF Hear, Pull!Next, Pull!Tell
      <3> QED BY <3>1, <3>2
    <2>6. CASE TimesOut
      BY <2>4, <2>6 DEF TimesOut, Failures
    <2>7. CASE Resume \/ Tick \/ UNCHANGED vars
      BY <2>7 DEF Resume, Tick, vars
    <2> QED BY <2>1, <2>2, <2>3, <2>5, <2>6, <2>7 DEF Next, Loop, Bureau
  <1> QED BY <1>1, <1>2, InductiveHolds, PTL DEF Spec, KeepsPromise, Pull!Spec
=============================================================================
