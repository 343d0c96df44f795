----------------------------- MODULE StatusReads -----------------------------
(***************************************************************************)
(* What callers are told about ONE application by the status call and by   *)
(* the call that closes its review, while the service decides it, abandons *)
(* it and reviewers race for it.                                           *)
(*                                                                         *)
(* A status call reads in five statements under no transaction and no      *)
(* lock: the application, its verdict, the verdict again for the envelope, *)
(* the review for the envelope, the review again for the outcome.  Anyone  *)
(* may write between any two of them.  A reviewer looks at the application *)
(* and the review in the same way, and closes and answers in one           *)
(* transaction.  Callers may call again as often as they like.             *)
(***************************************************************************)
EXTENDS Integers

CONSTANTS
    Readers,   \* clients that ask for the status
    Reviewers  \* people who close the review

ASSUME StatusConstants == Readers \cap Reviewers = {}

VARIABLES
    status,   \* applications.status
    decision, \* pre_decisions.verdict
    review,   \* the row of reviews
    pc,       \* where each caller is
    held,     \* what a caller's request has read so far
    answer    \* what the caller was told last

rows == <<status, decision, review>>
vars == <<rows, pc, held, answer>>

Callers == Readers \cup Reviewers

-----------------------------------------------------------------------------
Verdicts == {"APPROVED", "DECLINED", "MANUAL_REVIEW"}
Outcomes == {"APPROVED", "DECLINED"}
Statuses == {"RECEIVED", "PRE_DECIDED", "IN_REVIEW", "REVIEW_CLOSED", "ABANDONED"}
ReviewStates == {"none", "PENDING", "CLOSED"}

NoReview == [state |-> "none", outcome |-> "none", reviewer |-> "none"]
Pending == [state |-> "PENDING", outcome |-> "none", reviewer |-> "none"]
Closed(c, o) == [state |-> "CLOSED", outcome |-> o, reviewer |-> c]

NoOutcome == [verdict |-> "none", source |-> "none"]
OutcomeOf(row, verdict) ==
    IF row.state = "CLOSED" THEN [verdict |-> row.outcome, source |-> "REVIEWER"]
    ELSE [verdict |-> verdict, source |-> "ENGINE"]

\* The body of an answer: the status, the verdict, the review's state and the
\* composed outcome.
Body(s, v, r, o) == [kind |-> "body", status |-> s, verdict |-> v, review |-> r, outcome |-> o]
Told(kind) == [kind |-> kind]
Nothing == [status |-> "none", verdict |-> "none", review |-> "none"]

Busy == {"row", "verdict", "envelope", "review", "outcome", "look", "close"}

Composed == [verdict : Verdicts, source : {"ENGINE", "REVIEWER"}]

TypeOK ==
    /\ status \in Statuses \cup {"ABSENT"}
    /\ decision \in Verdicts \cup {"none"}
    /\ review \in {NoReview, Pending} \cup {Closed(c, o) : c \in Reviewers, o \in Outcomes}
    /\ pc \in [Callers -> Busy \cup {"idle"}]
    /\ held \in [Callers -> [status : Statuses \cup {"none"}, verdict : Verdicts \cup {"none"},
                             review : ReviewStates]]
    /\ answer \in [Callers ->
                      {Told(k) : k \in {"nothing", "unknown", "closed", "error", "fault"}}
                          \cup {Body(s, "none", "none", NoOutcome) : s \in Statuses}
                          \cup {Body(s, v, r, o) : s \in Statuses, v \in Verdicts,
                                                   r \in ReviewStates, o \in Composed}]

-----------------------------------------------------------------------------
Goto(c, stage) == pc' = [pc EXCEPT ![c] = stage]

Answer(c, told) ==
    /\ Goto(c, "idle")
    /\ held' = [held EXCEPT ![c] = Nothing]
    /\ answer' = [answer EXCEPT ![c] = told]

Init ==
    /\ status = "ABSENT"
    /\ decision = "none"
    /\ review = NoReview
    /\ pc = [c \in Callers |-> "idle"]
    /\ held = [c \in Callers |-> Nothing]
    /\ answer = [c \in Callers |-> Told("nothing")]

-----------------------------------------------------------------------------
(***************************************************************************)
(* The rest of the service, one transaction at a time.                     *)
(***************************************************************************)
Receive ==
    /\ status = "ABSENT"
    /\ status' = "RECEIVED"
    /\ UNCHANGED <<decision, review, pc, held, answer>>

\* The closing transaction does not look at the status it overwrites.
Decide(v) ==
    /\ status # "ABSENT"
    /\ decision = "none"
    /\ decision' = v
    /\ status' = IF v = "MANUAL_REVIEW" THEN "IN_REVIEW" ELSE "PRE_DECIDED"
    /\ review' = IF v = "MANUAL_REVIEW" THEN Pending ELSE NoReview
    /\ UNCHANGED <<pc, held, answer>>

\* Mutant: the sweeper updates what its earlier select listed.
AbandonUnconditional ==
    /\ status # "ABSENT"
    /\ status' = "ABANDONED"
    /\ UNCHANGED <<decision, review, pc, held, answer>>

Abandon ==
    /\ status = "RECEIVED"
    /\ status' = "ABANDONED"
    /\ UNCHANGED <<decision, review, pc, held, answer>>

-----------------------------------------------------------------------------
(***************************************************************************)
(* The status call.                                                        *)
(***************************************************************************)
Ask(c) ==
    /\ pc[c] = "idle"
    /\ Goto(c, IF c \in Readers THEN "row" ELSE "look")
    /\ UNCHANGED <<rows, held, answer>>

ReadRow(c) ==
    /\ pc[c] = "row"
    /\ IF status = "ABSENT"
       THEN Answer(c, Told("unknown"))
       ELSE /\ held' = [held EXCEPT ![c].status = status]
            /\ Goto(c, "verdict")
            /\ UNCHANGED answer
    /\ UNCHANGED rows

\* Without a verdict the answer has nothing else to say.
ReadVerdict(c) ==
    /\ pc[c] = "verdict"
    /\ IF decision = "none"
       THEN Answer(c, Body(held[c].status, "none", "none", NoOutcome))
       ELSE Goto(c, "envelope") /\ UNCHANGED <<held, answer>>
    /\ UNCHANGED rows

\* EnvelopeWithoutDecisionError: "not a state a caller can reach".
ReadEnvelope(c) ==
    /\ pc[c] = "envelope"
    /\ IF decision = "none"
       THEN Answer(c, Told("fault"))
       ELSE /\ held' = [held EXCEPT ![c].verdict = decision]
            /\ Goto(c, "review")
            /\ UNCHANGED answer
    /\ UNCHANGED rows

ReadReview(c) ==
    /\ pc[c] = "review"
    /\ held' = [held EXCEPT ![c].review = review.state]
    /\ Goto(c, "outcome")
    /\ UNCHANGED <<rows, answer>>

\* Mutant: the status is refreshed last.
ReadOutcomeAndStatus(c) ==
    /\ pc[c] = "outcome"
    /\ Answer(c, Body(status, held[c].verdict, held[c].review,
                      OutcomeOf(review, held[c].verdict)))
    /\ UNCHANGED rows

\* The outcome is composed from a second look at the review.
ReadOutcome(c) ==
    /\ pc[c] = "outcome"
    /\ Answer(c, Body(held[c].status, held[c].verdict, held[c].review,
                      OutcomeOf(review, held[c].verdict)))
    /\ UNCHANGED rows

-----------------------------------------------------------------------------
(***************************************************************************)
(* Closing a review.                                                       *)
(***************************************************************************)
\* Two reads: an application nobody knows, or one never referred, is a 404.
LookForReview(c) ==
    /\ pc[c] = "look"
    /\ \/ review = NoReview /\ Answer(c, Told("unknown"))
       \/ review # NoReview /\ Goto(c, "close") /\ UNCHANGED <<held, answer>>
    /\ UNCHANGED rows

\* Mutant: the update is not conditional.
CloseReviewAgain(c, o) ==
    /\ pc[c] = "close"
    /\ review' = Closed(c, o)
    /\ status' = "REVIEW_CLOSED"
    /\ Answer(c, Body("REVIEW_CLOSED", decision, "CLOSED", OutcomeOf(Closed(c, o), decision)))
    /\ UNCHANGED decision

\* The transaction holds the rows it wrote, so what it reads back is what it
\* wrote; the acknowledgement of its commit may get lost.
CloseReview(c, o) ==
    /\ pc[c] = "close"
    /\ review = Pending
    /\ review' = Closed(c, o)
    /\ status' = "REVIEW_CLOSED"
    /\ \/ Answer(c, Body("REVIEW_CLOSED", decision, "CLOSED", OutcomeOf(Closed(c, o), decision)))
       \/ Answer(c, Told("error"))
    /\ UNCHANGED decision

\* The conditional update matched nothing: the transaction throws.
TooLate(c) ==
    /\ pc[c] = "close"
    /\ review # Pending
    /\ Answer(c, Told("closed"))
    /\ UNCHANGED rows

\* A statement fails, or the transaction before its commit.
Fail(c) ==
    /\ pc[c] # "idle"
    /\ Answer(c, Told("error"))
    /\ UNCHANGED rows

Status(c) == ReadRow(c) \/ ReadVerdict(c) \/ ReadEnvelope(c) \/ ReadReview(c) \/ ReadOutcome(c)

Close(c) == LookForReview(c) \/ TooLate(c) \/ \E o \in Outcomes : CloseReview(c, o)

Next ==
    \/ Receive \/ Abandon \/ \E v \in Verdicts : Decide(v)
    \/ \E c \in Readers : Ask(c) \/ Status(c) \/ Fail(c)
    \/ \E c \in Reviewers : Ask(c) \/ Close(c) \/ Fail(c)

Spec == Init /\ [][Next]_vars

-----------------------------------------------------------------------------
(***************************************************************************)
(* Properties.                                                             *)
(***************************************************************************)
IsBody(a) == a.kind = "body"

\* What anybody was ever told stays true of the record: the verdict, a reviewer's
\* outcome, the 200 of the one reviewer whose opinion was recorded and the 409 of
\* the others.  No second opinion overwrites the first after it was told.
ToldStaysTrue ==
    \A c \in Callers :
        /\ IsBody(answer[c]) /\ answer[c].verdict # "none" => answer[c].verdict = decision
        /\ IsBody(answer[c]) /\ answer[c].outcome.source = "REVIEWER" =>
               review.state = "CLOSED" /\ answer[c].outcome.verdict = review.outcome
        /\ IsBody(answer[c]) /\ c \in Reviewers => review.reviewer = c
        /\ answer[c].kind = "closed" => review.state = "CLOSED"

\* Torn as it may be, an answer is torn one way only: no part of it is older than
\* the part before it, so a status is never ahead of the verdict, the review or
\* the outcome beside it, and the envelope never lacks the verdict found first.
PartsOnlyGetNewer ==
    \A c \in Callers :
        /\ answer[c].kind # "fault"
        /\ IsBody(answer[c]) =>
               /\ answer[c].status \in {"PRE_DECIDED", "IN_REVIEW", "REVIEW_CLOSED"} =>
                      answer[c].verdict # "none"
               /\ answer[c].status = "REVIEW_CLOSED" => answer[c].review = "CLOSED"
               /\ answer[c].verdict = "MANUAL_REVIEW" => answer[c].review # "none"
               /\ answer[c].review = "CLOSED" => answer[c].outcome.source = "REVIEWER"

\* How far the life of an application has come, as its status tells it.
Rank(s) ==
    IF s = "RECEIVED" THEN 0 ELSE IF s = "ABANDONED" THEN 1 ELSE IF s = "REVIEW_CLOSED" THEN 3 ELSE 2

\* How far an answer has come: its status, its verdict, its review, its outcome.
Ahead(a, b) ==
    /\ Rank(a.status) <= Rank(b.status)
    /\ a.verdict # "none" => b.verdict = a.verdict
    /\ a.review # "none" => b.review \in {a.review, "CLOSED"}
    /\ a.outcome.source = "REVIEWER" => b.outcome = a.outcome

\* Whoever asks twice is never told less the second time: an application does not
\* come back from a verdict, a closed review or an outcome.
AnswersNeverGoBack ==
    [][\A c \in Callers : IsBody(answer[c]) /\ IsBody(answer'[c]) => Ahead(answer[c], answer'[c])]_vars
=============================================================================
