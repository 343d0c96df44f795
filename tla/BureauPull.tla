----------------------------- MODULE BureauPull -----------------------------
(***************************************************************************)
(* ONE logical pull: pullWithResilience around the provider.  A pull makes *)
(* up to MaxAttempts calls under one request id.  Each call races a timer; *)
(* a call that loses the race is abandoned, not cancelled: the bureau may  *)
(* still receive it, mark the file and answer to nobody, also after the    *)
(* pull has returned.  A transport failure is retried after a jittered     *)
(* pause, an answer ends the pull, and any other error is thrown.          *)
(*                                                                         *)
(* Timers fire at most Lag ticks late (a busy event loop).  The bureau is  *)
(* under no obligation: it may never receive a call and never answer it.   *)
(***************************************************************************)
EXTENDS Integers, FiniteSets

CONSTANTS
    MaxAttempts, \* BUREAU_MAX_ATTEMPTS
    Timeout,     \* BUREAU_TIMEOUT_MS, in ticks
    Backoff,     \* BUREAU_BACKOFF_BASE_MS, in ticks
    ClaimLease,  \* BUREAU_CLAIM_LEASE_MS, in ticks
    Lag          \* most ticks by which a timer fires late

\* The pull's worst case as config.ts computes it.
WorstCase == MaxAttempts * Timeout + (MaxAttempts - 1) * Backoff

\* What config.ts accepts.
ASSUME PullConstants ==
    /\ MaxAttempts \in Nat \ {0}
    /\ Timeout \in Nat \ {0}
    /\ Backoff \in Nat
    /\ ClaimLease \in Nat
    /\ Lag \in Nat

ASSUME LeaseExceedsWorstCase == ClaimLease > WorstCase

VARIABLES
    time,     \* ticks since the pull began
    pc,       \* where the loop is
    attempt,  \* attempted: how many calls it has made
    timer,    \* when the running timer is due
    id,       \* the request id each call carried
    remote,   \* what became of each call at the bureau
    heard,    \* what the loop made of each call
    marks,    \* the request ids under which the file is marked
    told      \* what the pull returned or threw

vars == <<time, pc, attempt, timer, id, remote, heard, marks, told>>

-----------------------------------------------------------------------------
Attempts == 1..MaxAttempts
Answers == {"FOUND", "NO_HIT"}
Failures == {"TIMEOUT", "SERVER_ERROR"}  \* BureauTransportError
Endings == Answers \cup Failures \cup {"RETRIES_EXHAUSTED", "defect"}

\* What a call that reached the bureau may come back with; "defect" is any
\* error of our own adapter.
Settlements == Answers \cup Failures \cup {"defect"}

TypeOK ==
    /\ time \in Nat
    /\ pc \in {"attempt", "waiting", "backoff", "done"}
    /\ attempt \in 0..MaxAttempts
    /\ timer \in Nat
    /\ id \in [Attempts -> 0..MaxAttempts]
    /\ remote \in [Attempts -> {"unsent", "sent", "received"} \cup Settlements]
    /\ heard \in [Attempts -> {"nothing"} \cup Settlements]
    /\ marks \subseteq 1..MaxAttempts
    /\ told \in Endings \cup {"none"}

\* Mutant: an id for every attempt.
RequestIdPerAttempt(i) == i

\* requestId, minted ahead of the loop.
RequestId(i) == 1

\* Math.floor(random() * backoffBaseMs).
Pauses == IF Backoff = 0 THEN {0} ELSE 0..(Backoff - 1)

\* A single attempt tells what went wrong; several tell that they were several.
Cause(failure) == IF attempt > 1 THEN "RETRIES_EXHAUSTED" ELSE failure

-----------------------------------------------------------------------------
Init ==
    /\ time = 0
    /\ pc = "attempt"
    /\ attempt = 0
    /\ timer = 0
    /\ id = [i \in Attempts |-> 0]
    /\ remote = [i \in Attempts |-> "unsent"]
    /\ heard = [i \in Attempts |-> "nothing"]
    /\ marks = {}
    /\ told = "none"

\* The head of the loop: the next call goes out and its timer starts.
Call ==
    /\ pc = "attempt"
    /\ attempt' = attempt + 1
    /\ id' = [id EXCEPT ![attempt + 1] = RequestId(attempt + 1)]
    /\ remote' = [remote EXCEPT ![attempt + 1] = "sent"]
    /\ timer' = time + Timeout
    /\ pc' = "waiting"
    /\ UNCHANGED <<time, heard, marks, told>>

\* The bureau receives a call, abandoned or not, and notes the enquiry under its
\* request id: a repeated id is the same enquiry.
Receive(i) ==
    /\ remote[i] = "sent"
    /\ remote' = [remote EXCEPT ![i] = "received"]
    /\ marks' = marks \cup {id[i]}
    /\ UNCHANGED <<time, pc, attempt, timer, id, heard, told>>

\* A call settles.  It may fail on its way, but an answer comes from the bureau.
Settle(i) ==
    /\ remote[i] \in {"sent", "received"}
    /\ \E s \in Settlements :
          /\ s \in Answers => remote[i] = "received"
          /\ remote' = [remote EXCEPT ![i] = s]
    /\ UNCHANGED <<time, pc, attempt, timer, id, heard, marks, told>>

Return(ending) ==
    /\ pc' = "done"
    /\ told' = ending
    /\ UNCHANGED timer

\* Mutant: the pause doubles with every attempt, as the documents have it.
FailAttemptExponential(failure) ==
    IF attempt >= MaxAttempts
    THEN Return(Cause(failure))
    ELSE /\ pc' = "backoff"
         /\ \E pause \in Pauses : timer' = time + pause * attempt
         /\ UNCHANGED told

\* A transport failure: give up on the last attempt, or pause.
FailAttempt(failure) ==
    IF attempt >= MaxAttempts
    THEN Return(Cause(failure))
    ELSE /\ pc' = "backoff"
         /\ \E pause \in Pauses : timer' = time + pause
         /\ UNCHANGED told

\* Mutant: a pull that found no file is tried again.
HearRetriesNoHit ==
    /\ pc = "waiting"
    /\ remote[attempt] \in Settlements
    /\ heard' = [heard EXCEPT ![attempt] = remote[attempt]]
    /\ IF remote[attempt] \in Failures \cup {"NO_HIT"}
       THEN FailAttempt(remote[attempt])
       ELSE Return(remote[attempt])
    /\ UNCHANGED <<time, attempt, id, remote, marks>>

\* Mutant: a call that was abandoned is still listened to.
HearAbandoned ==
    /\ pc \in {"waiting", "done"}
    /\ \E i \in 1..attempt :
          /\ remote[i] \in Settlements
          /\ heard' = [heard EXCEPT ![i] = remote[i]]
          /\ IF remote[i] \in Failures
             THEN FailAttempt(remote[i])
             ELSE Return(remote[i])
    /\ UNCHANGED <<time, attempt, id, remote, marks>>

\* The call wins the race with its timer.
Hear ==
    /\ pc = "waiting"
    /\ remote[attempt] \in Settlements
    /\ heard' = [heard EXCEPT ![attempt] = remote[attempt]]
    /\ IF remote[attempt] \in Failures
       THEN FailAttempt(remote[attempt])
       ELSE Return(remote[attempt])
    /\ UNCHANGED <<time, attempt, id, remote, marks>>

\* Mutant: only the first call has a timer.
TimesOutOnce ==
    /\ pc = "waiting" /\ attempt = 1
    /\ time >= timer
    /\ heard' = [heard EXCEPT ![attempt] = "TIMEOUT"]
    /\ FailAttempt("TIMEOUT")
    /\ UNCHANGED <<time, attempt, id, remote, marks>>

\* The timer wins: the call is abandoned where it is.
TimesOut ==
    /\ pc = "waiting"
    /\ time >= timer
    /\ heard' = [heard EXCEPT ![attempt] = "TIMEOUT"]
    /\ FailAttempt("TIMEOUT")
    /\ UNCHANGED <<time, attempt, id, remote, marks>>

\* The pause is over.
Resume ==
    /\ pc = "backoff"
    /\ time >= timer
    /\ pc' = "attempt"
    /\ UNCHANGED <<time, attempt, timer, id, remote, heard, marks, told>>

\* While a timer runs, the clock passes its due time by Lag ticks at most; the
\* head of the loop takes no time.
Tick ==
    /\ pc \in {"waiting", "backoff"}
    /\ time < timer + Lag
    /\ time' = time + 1
    /\ UNCHANGED <<pc, attempt, timer, id, remote, heard, marks, told>>

Loop == Call \/ Hear \/ TimesOut \/ Resume

Bureau == \E i \in Attempts : Receive(i) \/ Settle(i)

Next == Loop \/ Bureau \/ Tick

Spec == Init /\ [][Next]_vars

\* Continuations and timers of a live process run.  Nothing is assumed of the
\* bureau: a call may hang for ever.
FairSpec == Spec /\ WF_vars(Loop) /\ WF_vars(Tick)

-----------------------------------------------------------------------------
(***************************************************************************)
(* Properties.                                                             *)
(***************************************************************************)

\* However many calls one pull makes, and whenever the bureau receives those it
\* abandoned, the person's file shows one enquiry.
MarkedOnce == Cardinality(marks) <= 1

\* Nothing but a failure in transport is held against a pull.  A call is followed
\* by another only after one: never after a report, a "no file", or an error of
\* our own.  And "unavailable" is told only when every attempt of the budget was
\* one, with the failure itself for its cause if there was one attempt.
EndingIsEarned ==
    /\ \A i \in Attempts : i < attempt => heard[i] \in Failures
    /\ told \in Failures \cup {"RETRIES_EXHAUSTED"} =>
           /\ \A i \in Attempts : heard[i] \in Failures
           /\ told = IF MaxAttempts = 1 THEN heard[1] ELSE "RETRIES_EXHAUSTED"

\* A pull that runs is inside its claim's lease, counted from its own start, up
\* to what its timers lost: the arithmetic of config.ts suffices if they are
\* punctual.
InsideTheLease ==
    pc # "done" => time < ClaimLease + (2 * MaxAttempts - 1) * Lag

\* The promise: a pull asks, marks the file once at most, and tells one ending.
Pull == INSTANCE LogicalPull WITH asked <- attempt > 0, Enquiries <- Attempts

KeepsPromise == Pull!Spec

\* Every pull returns, also when the bureau never answers.
EveryPullReturns == <>(pc = "done")
=============================================================================
