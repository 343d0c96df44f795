------------------------------ MODULE Lifecycle ------------------------------
(***************************************************************************)
(* What the service promises about an application: the state machine of    *)
(* the architecture document.  An application gets one verdict or none,    *)
(* a verdict is never edited, and the final states are final.              *)
(***************************************************************************)
CONSTANTS Applications, Verdicts, Outcomes

VARIABLES
    status,  \* where each application is
    verdict, \* what the engine concluded, once
    outcome  \* what a human concluded, once

vars == <<status, verdict, outcome>>

Init ==
    /\ status = [a \in Applications |-> "ABSENT"]
    /\ verdict = [a \in Applications |-> "none"]
    /\ outcome = [a \in Applications |-> "none"]

\* The application is accepted and persisted.
Receive(a) ==
    /\ status[a] = "ABSENT"
    /\ status' = [status EXCEPT ![a] = "RECEIVED"]
    /\ UNCHANGED <<verdict, outcome>>

\* The engine's verdict: final, unless it refers the application to a human.
Decide(a, v) ==
    /\ status[a] = "RECEIVED"
    /\ status' = [status EXCEPT ![a] = IF v = "MANUAL_REVIEW" THEN "IN_REVIEW" ELSE "PRE_DECIDED"]
    /\ verdict' = [verdict EXCEPT ![a] = v]
    /\ UNCHANGED outcome

\* Nobody decided it, and nobody will.
Abandon(a) ==
    /\ status[a] = "RECEIVED"
    /\ status' = [status EXCEPT ![a] = "ABANDONED"]
    /\ UNCHANGED <<verdict, outcome>>

\* A human closes the review: a new fact, beside the verdict.
Close(a, o) ==
    /\ status[a] = "IN_REVIEW"
    /\ status' = [status EXCEPT ![a] = "REVIEW_CLOSED"]
    /\ outcome' = [outcome EXCEPT ![a] = o]
    /\ UNCHANGED verdict

Next ==
    \E a \in Applications :
        \/ Receive(a)
        \/ \E v \in Verdicts : Decide(a, v)
        \/ Abandon(a)
        \/ \E o \in Outcomes : Close(a, o)

Spec == Init /\ [][Next]_vars
=============================================================================
