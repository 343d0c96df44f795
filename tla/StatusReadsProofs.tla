-------------------------- MODULE StatusReadsProofs --------------------------
(***************************************************************************)
(* What callers are told stays true, is torn one way only and never goes   *)
(* back, for any number of clients and reviewers.                          *)
(***************************************************************************)
EXTENDS StatusReads, TLAPS

\* The rows of one application tell one story.
RowsAgree ==
    /\ decision = "none" => review = NoReview /\ status \in {"ABSENT", "RECEIVED", "ABANDONED"}
    /\ decision # "none" => status \in {"PRE_DECIDED", "IN_REVIEW", "REVIEW_CLOSED"}
    /\ decision = "MANUAL_REVIEW" <=> review.state # "none"
    /\ status = "REVIEW_CLOSED" <=> review.state = "CLOSED"

\* What a request holds is what the rows were at some moment since it came, each
\* part read after the one before it.
HeldIsBehind(c) ==
    /\ pc[c] \in {"verdict", "envelope", "review", "outcome"} =>
           /\ held[c].status \in Statuses
           /\ status # "ABSENT" /\ Rank(held[c].status) <= Rank(status)
           /\ held[c].status \in {"PRE_DECIDED", "IN_REVIEW", "REVIEW_CLOSED"} => decision # "none"
           /\ held[c].status = "REVIEW_CLOSED" => review.state = "CLOSED"
    /\ pc[c] \in {"envelope", "review", "outcome"} => decision # "none"
    /\ pc[c] \in {"review", "outcome"} => held[c].verdict = decision
    /\ pc[c] = "outcome" =>
           /\ held[c].review \in ReviewStates
           /\ decision = "MANUAL_REVIEW" => held[c].review # "none"
           /\ decision # "MANUAL_REVIEW" => held[c].review = "none"
           /\ held[c].status = "REVIEW_CLOSED" => held[c].review = "CLOSED"
           /\ held[c].review = "CLOSED" => review.state = "CLOSED"
    /\ pc[c] = "close" => review.state # "none"

\* What a caller was told is true of the rows, and behind them.
ToldTrue(c) ==
    /\ IsBody(answer[c]) /\ answer[c].verdict # "none" => answer[c].verdict = decision
    /\ IsBody(answer[c]) /\ answer[c].outcome.source = "REVIEWER" =>
           review.state = "CLOSED" /\ answer[c].outcome.verdict = review.outcome
    /\ IsBody(answer[c]) /\ c \in Reviewers => review.reviewer = c
    /\ answer[c].kind = "closed" => review.state = "CLOSED"

ToldBehind(c) ==
    IsBody(answer[c]) =>
        /\ status # "ABSENT" /\ Rank(answer[c].status) <= Rank(status)
        /\ answer[c].review # "none" => review.state \in {answer[c].review, "CLOSED"} /\ decision # "none"
        /\ answer[c].outcome.source = "REVIEWER" => answer[c].verdict # "none"
        /\ answer[c].verdict = "none" => answer[c].review = "none"
        /\ c \in Reviewers => review.state = "CLOSED"

\* A new answer will be no older than the last one.
ToldBeforeHeld(c) ==
    IsBody(answer[c]) =>
        /\ pc[c] \in {"verdict", "envelope", "review", "outcome"} =>
               Rank(answer[c].status) <= Rank(held[c].status)
        /\ pc[c] = "outcome" /\ answer[c].review # "none" =>
               held[c].review \in {answer[c].review, "CLOSED"}

Whole(c) ==
    /\ answer[c].kind # "fault"
    /\ IsBody(answer[c]) =>
           /\ answer[c].status \in {"PRE_DECIDED", "IN_REVIEW", "REVIEW_CLOSED"} =>
                  answer[c].verdict # "none"
           /\ answer[c].status = "REVIEW_CLOSED" => answer[c].review = "CLOSED"
           /\ answer[c].verdict = "MANUAL_REVIEW" => answer[c].review # "none"
           /\ answer[c].review = "CLOSED" => answer[c].outcome.source = "REVIEWER"

Fine(c) == HeldIsBehind(c) /\ ToldTrue(c) /\ ToldBehind(c) /\ ToldBeforeHeld(c) /\ Whole(c)

IInv == TypeOK /\ RowsAgree /\ \A c \in Callers : Fine(c)

-----------------------------------------------------------------------------
\* How the rows may change: facts are added, and none is taken back.
RowsAdvance ==
    /\ decision # "none" => decision' = decision
    /\ review.state = "CLOSED" => review' = review
    /\ review.state # "none" => review'.state \in {review.state, "CLOSED"}
    /\ status # "ABSENT" => status' # "ABSENT" /\ Rank(status) <= Rank(status')

\* A caller that does not take part keeps what is known of it.
LEMMA Bystander ==
    ASSUME IInv, RowsAgree', RowsAdvance, NEW c \in Callers,
           pc'[c] = pc[c], held'[c] = held[c], answer'[c] = answer[c]
    PROVE  Fine(c)'
<1>1. Fine(c) /\ RowsAgree
  BY DEF IInv
<1>2. status # "ABSENT" => Rank(status) \in Nat /\ Rank(status') \in Nat /\ Rank(held[c].status) \in Nat
      /\ Rank(answer[c].status) \in Nat
  BY DEF Rank
<1>3. HeldIsBehind(c)'
  BY <1>1, <1>2 DEF Fine, HeldIsBehind, RowsAdvance, RowsAgree, Statuses, ReviewStates
<1>4. ToldTrue(c)'
  BY <1>1 DEF Fine, ToldTrue, ToldBehind, RowsAdvance, RowsAgree, IsBody, NoReview
<1>5. ToldBehind(c)'
  BY <1>1, <1>2 DEF Fine, ToldBehind, RowsAdvance, IsBody
<1>6. ToldBeforeHeld(c)' /\ Whole(c)'
  BY <1>1 DEF Fine, ToldBeforeHeld, Whole, IsBody
<1> QED BY <1>3, <1>4, <1>5, <1>6 DEF Fine

LEMMA InitIInv == Init => IInv
  BY SMT DEF Init, IInv, TypeOK, RowsAgree, Fine, HeldIsBehind, ToldTrue, ToldBehind, ToldBeforeHeld,
     Whole, IsBody, Told, NoReview, Nothing, Busy, ReviewStates

-----------------------------------------------------------------------------
\* Receive, Decide and Abandon write the rows and tell nobody.
LEMMA ServiceIInv ==
    ASSUME IInv, Receive \/ Abandon \/ \E v \in Verdicts : Decide(v)
    PROVE  IInv'
<1>1. UNCHANGED <<pc, held, answer>>
  BY DEF Receive, Abandon, Decide
<1>2. TypeOK'
  BY DEF IInv, TypeOK, Receive, Abandon, Decide, Statuses, Callers
<1>3. RowsAgree'
  BY DEF IInv, RowsAgree, Receive, Abandon, Decide, Verdicts, Pending, NoReview
<1>4. RowsAdvance
  <2>1. CASE Receive
    BY <2>1 DEF IInv, RowsAgree, Receive, RowsAdvance
  <2>2. CASE Abandon
    BY <2>2 DEF IInv, RowsAgree, Abandon, RowsAdvance, Rank
  <2>3. ASSUME NEW v \in Verdicts, Decide(v) PROVE RowsAdvance
    BY <2>3 DEF IInv, RowsAgree, Decide, RowsAdvance, Rank, NoReview
  <2> QED BY <2>1, <2>2, <2>3
<1>5. \A c \in Callers : Fine(c)'
  BY <1>1, <1>3, <1>4, Bystander
<1> QED BY <1>2, <1>3, <1>5 DEF IInv

\* Steps of one caller that write no row: it is enough to look at that caller.
LEMMA ReadIInv ==
    ASSUME IInv, NEW c \in Callers, UNCHANGED rows, TypeOK', Fine(c)',
           \A d \in Callers : d # c => pc'[d] = pc[d] /\ held'[d] = held[d] /\ answer'[d] = answer[d]
    PROVE  IInv'
<1>1. RowsAgree'
  BY DEF IInv, RowsAgree, rows
<1>2. RowsAdvance
  <2>1. Rank(status) <= Rank(status)
    BY DEF Rank
  <2> QED BY <2>1 DEF RowsAdvance, rows
<1>3. \A d \in Callers : d # c => Fine(d)'
  BY <1>1, <1>2, Bystander
<1> QED BY <1>1, <1>3 DEF IInv

\* An answer with no body: what was held is gone, and nothing is claimed.
LEMMA BareAnswerIInv ==
    ASSUME IInv, NEW c \in Callers, NEW kind \in {"unknown", "closed", "error"},
           Answer(c, Told(kind)), UNCHANGED rows, kind = "closed" => review.state = "CLOSED"
    PROVE  IInv'
<1>1. /\ pc' = [pc EXCEPT ![c] = "idle"] /\ held' = [held EXCEPT ![c] = Nothing]
      /\ answer' = [answer EXCEPT ![c] = Told(kind)]
      /\ status' = status /\ decision' = decision /\ review' = review
  BY DEF Answer, Goto, rows
<1>2. TypeOK'
  <2>1. Nothing \in [status : Statuses \cup {"none"}, verdict : Verdicts \cup {"none"}, review : ReviewStates]
    BY DEF Nothing, ReviewStates
  <2>2. Told(kind) \in {Told(k) : k \in {"nothing", "unknown", "closed", "error", "fault"}}
    OBVIOUS
  <2> QED BY <1>1, <2>1, <2>2 DEF IInv, TypeOK
<1>3. pc'[c] = "idle" /\ answer'[c] = [kind |-> kind]
      /\ \A d \in Callers : d # c => pc'[d] = pc[d] /\ held'[d] = held[d] /\ answer'[d] = answer[d]
  BY <1>1 DEF IInv, TypeOK, Told
<1>4. Fine(c)'
  BY <1>1, <1>3 DEF Fine, HeldIsBehind, ToldTrue, ToldBehind, ToldBeforeHeld, Whole, IsBody
<1> QED BY <1>2, <1>3, <1>4, ReadIInv
-----------------------------------------------------------------------------
(***************************************************************************)
(* The status call, statement by statement.                                *)
(***************************************************************************)
\* A step of a request that goes on and tells nothing yet.
LEMMA GoesOn ==
    ASSUME IInv, NEW c \in Callers, NEW stage \in Busy, NEW h,
           Goto(c, stage), held' = [held EXCEPT ![c] = h],
           h \in [status : Statuses \cup {"none"}, verdict : Verdicts \cup {"none"}, review : ReviewStates],
           UNCHANGED <<rows, answer>>
    PROVE  /\ TypeOK'
           /\ pc'[c] = stage /\ held'[c] = h /\ answer'[c] = answer[c]
           /\ \A d \in Callers : d # c => pc'[d] = pc[d] /\ held'[d] = held[d] /\ answer'[d] = answer[d]
           /\ ToldTrue(c)' /\ ToldBehind(c)' /\ Whole(c)'
           /\ status' = status /\ decision' = decision /\ review' = review
<1>1. TypeOK /\ Fine(c) /\ status' = status /\ decision' = decision /\ review' = review
  BY DEF IInv, rows
<1>2. TypeOK'
  BY <1>1 DEF TypeOK, Goto, rows
<1>3. /\ pc'[c] = stage /\ held'[c] = h /\ answer'[c] = answer[c]
      /\ \A d \in Callers : d # c => pc'[d] = pc[d] /\ held'[d] = held[d] /\ answer'[d] = answer[d]
  BY <1>1 DEF TypeOK, Goto
<1>4. ToldTrue(c)' /\ ToldBehind(c)' /\ Whole(c)'
  BY <1>1, <1>3 DEF Fine, ToldTrue, ToldBehind, Whole, rows, IsBody
<1> QED BY <1>1, <1>2, <1>3, <1>4

LEMMA AskIInv == ASSUME IInv, NEW c \in Callers, Ask(c) PROVE IInv'
<1> DEFINE stage == IF c \in Readers THEN "row" ELSE "look"
<1>1. /\ Goto(c, stage) /\ held' = [held EXCEPT ![c] = held[c]]
      /\ UNCHANGED <<rows, answer>> /\ stage \in Busy /\ stage \in {"row", "look"}
  BY DEF Ask, Busy, IInv, TypeOK
<1>2. held[c] \in [status : Statuses \cup {"none"}, verdict : Verdicts \cup {"none"}, review : ReviewStates]
  BY DEF IInv, TypeOK
<1> HIDE DEF stage
<1>3. /\ TypeOK' /\ pc'[c] = stage /\ ToldTrue(c)' /\ ToldBehind(c)' /\ Whole(c)'
      /\ \A d \in Callers : d # c => pc'[d] = pc[d] /\ held'[d] = held[d] /\ answer'[d] = answer[d]
  BY <1>1, <1>2, GoesOn
<1>4. HeldIsBehind(c)' /\ ToldBeforeHeld(c)'
  BY <1>1, <1>3 DEF HeldIsBehind, ToldBeforeHeld
<1> QED BY <1>1, <1>3, <1>4, ReadIInv DEF Fine

LEMMA ReadRowIInv == ASSUME IInv, NEW c \in Callers, ReadRow(c) PROVE IInv'
<1>1. CASE status = "ABSENT"
  BY <1>1, BareAnswerIInv DEF ReadRow
<1>2. CASE status # "ABSENT"
  <2> DEFINE h == [held[c] EXCEPT !.status = status]
  <2>1. /\ Goto(c, "verdict") /\ held' = [held EXCEPT ![c] = h] /\ UNCHANGED <<rows, answer>>
        /\ "verdict" \in Busy
    BY <1>2 DEF ReadRow, Busy
  <2>2. /\ h \in [status : Statuses \cup {"none"}, verdict : Verdicts \cup {"none"}, review : ReviewStates]
        /\ h.status = status /\ status \in Statuses
    BY <1>2 DEF IInv, TypeOK
  <2> HIDE DEF h
  <2>3. /\ TypeOK' /\ pc'[c] = "verdict" /\ held'[c] = h /\ answer'[c] = answer[c]
        /\ ToldTrue(c)' /\ ToldBehind(c)' /\ Whole(c)'
        /\ \A d \in Callers : d # c => pc'[d] = pc[d] /\ held'[d] = held[d] /\ answer'[d] = answer[d]
        /\ status' = status /\ decision' = decision /\ review' = review
    BY <2>1, <2>2, GoesOn
  <2>4. RowsAgree /\ ToldBehind(c) /\ Rank(status) <= Rank(status)
    BY DEF IInv, Fine, Rank
  <2>5. HeldIsBehind(c)'
    BY <1>2, <2>2, <2>3, <2>4 DEF HeldIsBehind, RowsAgree
  <2>6. ToldBeforeHeld(c)'
    BY <2>2, <2>3, <2>4 DEF ToldBeforeHeld, ToldBehind
  <2> QED BY <2>1, <2>3, <2>5, <2>6, ReadIInv DEF Fine
<1> QED BY <1>1, <1>2

LEMMA ReadEnvelopeIInv == ASSUME IInv, NEW c \in Callers, ReadEnvelope(c) PROVE IInv'
<1>1. pc[c] = "envelope" /\ decision # "none" /\ decision \in Verdicts /\ Fine(c) /\ RowsAgree
  BY DEF ReadEnvelope, IInv, Fine, HeldIsBehind, TypeOK
<1> DEFINE h == [held[c] EXCEPT !.verdict = decision]
<1>2. /\ Goto(c, "review") /\ held' = [held EXCEPT ![c] = h] /\ UNCHANGED <<rows, answer>>
      /\ "review" \in Busy
  BY <1>1 DEF ReadEnvelope, Busy
<1>3. h \in [status : Statuses \cup {"none"}, verdict : Verdicts \cup {"none"}, review : ReviewStates]
  BY <1>1 DEF IInv, TypeOK
<1>h. h.status = held[c].status /\ h.verdict = decision
  BY <1>1 DEF IInv, TypeOK
<1> HIDE DEF h
<1>4. /\ TypeOK' /\ pc'[c] = "review" /\ held'[c] = h /\ answer'[c] = answer[c]
      /\ ToldTrue(c)' /\ ToldBehind(c)' /\ Whole(c)'
      /\ \A d \in Callers : d # c => pc'[d] = pc[d] /\ held'[d] = held[d] /\ answer'[d] = answer[d]
      /\ status' = status /\ decision' = decision /\ review' = review
  BY <1>2, <1>3, GoesOn
<1>5. HeldIsBehind(c)'
  <2>1. /\ held[c].status \in Statuses /\ status # "ABSENT" /\ Rank(held[c].status) <= Rank(status)
        /\ held[c].status = "REVIEW_CLOSED" => review.state = "CLOSED"
    BY <1>1 DEF Fine, HeldIsBehind
  <2>2. held'[c].status = held[c].status /\ held'[c].verdict = decision'
    BY <1>h, <1>4
  <2> QED BY <1>1, <1>4, <2>1, <2>2 DEF HeldIsBehind
<1>6. ToldBeforeHeld(c)'
  BY <1>1, <1>h, <1>4 DEF Fine, ToldBeforeHeld, IsBody
<1> QED BY <1>2, <1>4, <1>5, <1>6, ReadIInv DEF Fine

LEMMA ReadReviewIInv == ASSUME IInv, NEW c \in Callers, ReadReview(c) PROVE IInv'
<1>1. pc[c] = "review" /\ Fine(c) /\ RowsAgree /\ review.state \in ReviewStates
  BY DEF ReadReview, IInv, TypeOK, NoReview, Pending, Closed, ReviewStates
<1> DEFINE h == [held[c] EXCEPT !.review = review.state]
<1>2. /\ Goto(c, "outcome") /\ held' = [held EXCEPT ![c] = h] /\ UNCHANGED <<rows, answer>>
      /\ "outcome" \in Busy
  BY DEF ReadReview, Busy
<1>3. h \in [status : Statuses \cup {"none"}, verdict : Verdicts \cup {"none"}, review : ReviewStates]
  BY <1>1 DEF IInv, TypeOK
<1>h. h.status = held[c].status /\ h.verdict = held[c].verdict /\ h.review = review.state
  BY <1>1 DEF IInv, TypeOK
<1> HIDE DEF h
<1>4. /\ TypeOK' /\ pc'[c] = "outcome" /\ held'[c] = h /\ answer'[c] = answer[c]
      /\ ToldTrue(c)' /\ ToldBehind(c)' /\ Whole(c)'
      /\ \A d \in Callers : d # c => pc'[d] = pc[d] /\ held'[d] = held[d] /\ answer'[d] = answer[d]
      /\ status' = status /\ decision' = decision /\ review' = review
  BY <1>2, <1>3, GoesOn
<1>5. HeldIsBehind(c)'
  <2>1. /\ held[c].status \in Statuses /\ status # "ABSENT" /\ Rank(held[c].status) <= Rank(status)
        /\ held[c].status = "REVIEW_CLOSED" => review.state = "CLOSED"
        /\ held[c].verdict = decision /\ decision # "none"
    BY <1>1 DEF Fine, HeldIsBehind
  <2>2. /\ held'[c].status = held[c].status /\ held'[c].verdict = decision'
        /\ held'[c].review = review.state /\ review' = review
    BY <1>h, <1>4, <2>1
  <2>3. decision = "MANUAL_REVIEW" <=> review.state # "none"
    BY <1>1 DEF RowsAgree
  <2> QED BY <1>1, <1>4, <2>1, <2>2, <2>3 DEF HeldIsBehind
<1>6. ToldBeforeHeld(c)'
  BY <1>1, <1>h, <1>4 DEF Fine, ToldBeforeHeld, ToldBehind, IsBody
<1> QED BY <1>2, <1>4, <1>5, <1>6, ReadIInv DEF Fine

\* What the two steps that tell a body leave behind.
LEMMA Tells ==
    ASSUME IInv, NEW c \in Callers, NEW told, Answer(c, told)
    PROVE  /\ pc'[c] = "idle" /\ answer'[c] = told
           /\ \A d \in Callers : d # c => pc'[d] = pc[d] /\ held'[d] = held[d] /\ answer'[d] = answer[d]
           /\ pc' \in [Callers -> Busy \cup {"idle"}]
           /\ held' \in [Callers -> [status : Statuses \cup {"none"}, verdict : Verdicts \cup {"none"},
                                     review : ReviewStates]]
<1>1. Nothing \in [status : Statuses \cup {"none"}, verdict : Verdicts \cup {"none"}, review : ReviewStates]
  BY DEF Nothing, ReviewStates
<1> QED BY <1>1 DEF Answer, Goto, IInv, TypeOK

Answers ==
    {Told(k) : k \in {"nothing", "unknown", "closed", "error", "fault"}}
        \cup {Body(s, "none", "none", NoOutcome) : s \in Statuses}
        \cup {Body(s, v, r, o) : s \in Statuses, v \in Verdicts, r \in ReviewStates, o \in Composed}

LEMMA TellsType ==
    ASSUME IInv, NEW c \in Callers, NEW told \in Answers, Answer(c, told),
           status' \in Statuses \cup {"ABSENT"}, decision' \in Verdicts \cup {"none"},
           review' \in {NoReview, Pending} \cup {Closed(d, o) : d \in Reviewers, o \in Outcomes}
    PROVE  TypeOK'
<1>1. pc' \in [Callers -> Busy \cup {"idle"}]
      /\ held' \in [Callers -> [status : Statuses \cup {"none"}, verdict : Verdicts \cup {"none"},
                                review : ReviewStates]]
  BY Tells
<1>2. answer' = [answer EXCEPT ![c] = told]
  BY DEF Answer
<1> QED BY <1>1, <1>2 DEF IInv, TypeOK, Answers

LEMMA ReadVerdictIInv == ASSUME IInv, NEW c \in Readers, ReadVerdict(c) PROVE IInv'
<1>1. pc[c] = "verdict" /\ Fine(c) /\ RowsAgree /\ c \in Callers /\ c \notin Reviewers /\ TypeOK
  BY StatusConstants DEF ReadVerdict, IInv, Callers
<1>2. /\ held[c].status \in Statuses
      /\ status # "ABSENT" /\ Rank(held[c].status) <= Rank(status)
      /\ held[c].status \in {"PRE_DECIDED", "IN_REVIEW", "REVIEW_CLOSED"} => decision # "none"
      /\ held[c].status = "REVIEW_CLOSED" => review.state = "CLOSED"
  BY <1>1 DEF Fine, HeldIsBehind
<1>3. CASE decision = "none"
  <2> DEFINE told == Body(held[c].status, "none", "none", NoOutcome)
  <2>1. Answer(c, told) /\ UNCHANGED rows /\ told \in Answers
    BY <1>2, <1>3 DEF ReadVerdict, Answers
  <2>2. /\ told.kind = "body" /\ told.status = held[c].status /\ told.verdict = "none"
        /\ told.review = "none" /\ told.outcome.source = "none"
    BY DEF Body, NoOutcome
  <2> HIDE DEF told
  <2>3. /\ pc'[c] = "idle" /\ answer'[c] = told
        /\ \A d \in Callers : d # c => pc'[d] = pc[d] /\ held'[d] = held[d] /\ answer'[d] = answer[d]
    BY <1>1, <2>1, Tells
  <2>4. status' = status /\ decision' = decision /\ review' = review
    BY <2>1 DEF rows
  <2>5. TypeOK'
    BY <1>1, <2>1, <2>4, TellsType DEF TypeOK
  <2>6. HeldIsBehind(c)' /\ ToldBeforeHeld(c)'
    BY <2>3 DEF HeldIsBehind, ToldBeforeHeld
  <2>7. ToldTrue(c)' /\ ToldBehind(c)' /\ Whole(c)'
    BY <1>1, <1>2, <1>3, <2>2, <2>3, <2>4 DEF ToldTrue, ToldBehind, Whole, IsBody
  <2> QED BY <1>1, <2>1, <2>3, <2>5, <2>6, <2>7, ReadIInv DEF Fine
<1>4. CASE decision # "none"
  <2>1. /\ Goto(c, "envelope") /\ held' = [held EXCEPT ![c] = held[c]] /\ UNCHANGED <<rows, answer>>
        /\ "envelope" \in Busy
    BY <1>1, <1>4 DEF ReadVerdict, Busy, TypeOK
  <2>2. held[c] \in [status : Statuses \cup {"none"}, verdict : Verdicts \cup {"none"}, review : ReviewStates]
    BY <1>1 DEF TypeOK
  <2>3. /\ TypeOK' /\ pc'[c] = "envelope" /\ held'[c] = held[c] /\ answer'[c] = answer[c]
        /\ ToldTrue(c)' /\ ToldBehind(c)' /\ Whole(c)'
        /\ \A d \in Callers : d # c => pc'[d] = pc[d] /\ held'[d] = held[d] /\ answer'[d] = answer[d]
        /\ status' = status /\ decision' = decision /\ review' = review
    BY <1>1, <2>1, <2>2, GoesOn
  <2>4. HeldIsBehind(c)'
    BY <1>2, <1>4, <2>3 DEF HeldIsBehind
  <2>5. ToldBeforeHeld(c)'
    BY <1>1, <2>3 DEF Fine, ToldBeforeHeld, IsBody
  <2> QED BY <1>1, <2>1, <2>3, <2>4, <2>5, ReadIInv DEF Fine
<1> QED BY <1>3, <1>4

\* What is known at the last statement of a status call.
LEMMA Outcome ==
    ASSUME IInv, NEW c \in Callers, pc[c] = "outcome"
    PROVE  /\ held[c].status \in Statuses /\ held[c].verdict = decision /\ decision \in Verdicts
           /\ held[c].review \in ReviewStates
           /\ status # "ABSENT" /\ Rank(held[c].status) <= Rank(status)
           /\ held[c].status = "REVIEW_CLOSED" => held[c].review = "CLOSED"
           /\ held[c].review = "CLOSED" => review.state = "CLOSED"
           /\ decision = "MANUAL_REVIEW" <=> held[c].review # "none"
           /\ OutcomeOf(review, decision) \in Composed
           /\ OutcomeOf(review, decision).source = "REVIEWER" =>
                  review.state = "CLOSED" /\ OutcomeOf(review, decision).verdict = review.outcome
           /\ review.state = "CLOSED" =>
                  OutcomeOf(review, decision) = [verdict |-> review.outcome, source |-> "REVIEWER"]
           /\ review.state \in ReviewStates
<1>1. HeldIsBehind(c) /\ TypeOK
  BY DEF IInv, Fine
<1>2. review.state \in ReviewStates /\ (review.state = "CLOSED" => review.outcome \in Outcomes)
  BY <1>1 DEF TypeOK, NoReview, Pending, Closed, ReviewStates
<1>3. /\ held[c].status \in Statuses /\ held[c].verdict = decision /\ decision \in Verdicts
      /\ held[c].review \in ReviewStates
      /\ status # "ABSENT" /\ Rank(held[c].status) <= Rank(status)
      /\ held[c].status = "REVIEW_CLOSED" => held[c].review = "CLOSED"
      /\ held[c].review = "CLOSED" => review.state = "CLOSED"
      /\ decision = "MANUAL_REVIEW" <=> held[c].review # "none"
  BY <1>1 DEF HeldIsBehind, TypeOK
<1>4. /\ OutcomeOf(review, decision) \in Composed
      /\ OutcomeOf(review, decision).source = "REVIEWER" =>
             review.state = "CLOSED" /\ OutcomeOf(review, decision).verdict = review.outcome
      /\ review.state = "CLOSED" =>
             OutcomeOf(review, decision) = [verdict |-> review.outcome, source |-> "REVIEWER"]
  BY <1>2, <1>3 DEF OutcomeOf, Composed, Outcomes, Verdicts
<1> QED BY <1>2, <1>3, <1>4

LEMMA ReadOutcomeIInv == ASSUME IInv, NEW c \in Readers, ReadOutcome(c) PROVE IInv'
<1>1. pc[c] = "outcome" /\ Fine(c) /\ RowsAgree /\ c \in Callers /\ c \notin Reviewers /\ TypeOK
  BY StatusConstants DEF ReadOutcome, IInv, Callers
<1> DEFINE o == OutcomeOf(review, decision)
           told == Body(held[c].status, decision, held[c].review, o)
<1>2. /\ held[c].status \in Statuses /\ held[c].verdict = decision /\ decision \in Verdicts
      /\ held[c].review \in ReviewStates
      /\ status # "ABSENT" /\ Rank(held[c].status) <= Rank(status)
      /\ held[c].status = "REVIEW_CLOSED" => held[c].review = "CLOSED"
      /\ held[c].review = "CLOSED" => review.state = "CLOSED"
      /\ decision = "MANUAL_REVIEW" <=> held[c].review # "none"
      /\ o \in Composed
      /\ o.source = "REVIEWER" => review.state = "CLOSED" /\ o.verdict = review.outcome
      /\ review.state = "CLOSED" => o.source = "REVIEWER"
      /\ review.state \in ReviewStates
  BY <1>1, Outcome
<1> HIDE DEF o
<1>3. Answer(c, told) /\ UNCHANGED rows
  BY <1>2 DEF ReadOutcome, o
<1>4. told \in Answers
  BY <1>2 DEF Answers
<1>5. /\ told.kind = "body" /\ told.status = held[c].status /\ told.verdict = decision
      /\ told.review = held[c].review /\ told.outcome = o
  BY DEF Body
<1> HIDE DEF told
<1>6. /\ pc'[c] = "idle" /\ answer'[c] = told
      /\ \A d \in Callers : d # c => pc'[d] = pc[d] /\ held'[d] = held[d] /\ answer'[d] = answer[d]
  BY <1>1, <1>3, Tells
<1>7. status' = status /\ decision' = decision /\ review' = review
  BY <1>3 DEF rows
<1>8. TypeOK'
  BY <1>1, <1>3, <1>4, <1>7, TellsType DEF TypeOK
<1>9. HeldIsBehind(c)' /\ ToldBeforeHeld(c)'
  BY <1>6 DEF HeldIsBehind, ToldBeforeHeld
<1>10. ToldTrue(c)' /\ Whole(c)'
  BY <1>1, <1>2, <1>5, <1>6, <1>7 DEF ToldTrue, Whole, IsBody, Verdicts
<1>11. ToldBehind(c)'
  <2>1. held[c].review # "none" => review.state \in {held[c].review, "CLOSED"}
    BY <1>1, <1>2 DEF RowsAgree, ReviewStates
  <2> QED BY <1>1, <1>2, <1>5, <1>6, <1>7, <2>1 DEF ToldBehind, IsBody, Verdicts
<1> QED BY <1>1, <1>3, <1>6, <1>8, <1>9, <1>10, <1>11, ReadIInv DEF Fine
-----------------------------------------------------------------------------
(***************************************************************************)
(* Closing a review.                                                       *)
(***************************************************************************)
LEMMA LookForReviewIInv == ASSUME IInv, NEW c \in Callers, LookForReview(c) PROVE IInv'
<1>1. CASE review = NoReview /\ Answer(c, Told("unknown"))
  BY <1>1, BareAnswerIInv DEF LookForReview
<1>2. CASE review # NoReview /\ Goto(c, "close") /\ UNCHANGED <<held, answer>>
  <2>1. TypeOK /\ Fine(c)
    BY DEF IInv
  <2>2. /\ Goto(c, "close") /\ held' = [held EXCEPT ![c] = held[c]] /\ UNCHANGED <<rows, answer>>
        /\ "close" \in Busy
    BY <1>2, <2>1 DEF LookForReview, Busy, TypeOK
  <2>3. held[c] \in [status : Statuses \cup {"none"}, verdict : Verdicts \cup {"none"}, review : ReviewStates]
    BY <2>1 DEF TypeOK
  <2>4. /\ TypeOK' /\ pc'[c] = "close" /\ held'[c] = held[c] /\ answer'[c] = answer[c]
        /\ ToldTrue(c)' /\ ToldBehind(c)' /\ Whole(c)'
        /\ \A d \in Callers : d # c => pc'[d] = pc[d] /\ held'[d] = held[d] /\ answer'[d] = answer[d]
        /\ status' = status /\ decision' = decision /\ review' = review
    BY <2>2, <2>3, GoesOn
  <2>5. review.state # "none"
    BY <1>2, <2>1 DEF TypeOK, Pending, Closed
  <2>6. HeldIsBehind(c)' /\ ToldBeforeHeld(c)'
    BY <2>4, <2>5 DEF HeldIsBehind, ToldBeforeHeld
  <2> QED BY <2>2, <2>4, <2>6, ReadIInv DEF Fine
<1> QED BY <1>1, <1>2 DEF LookForReview

LEMMA TooLateIInv == ASSUME IInv, NEW c \in Callers, TooLate(c) PROVE IInv'
<1>1. pc[c] = "close" /\ review # Pending /\ Answer(c, Told("closed")) /\ UNCHANGED rows
      /\ TypeOK /\ HeldIsBehind(c)
  BY DEF TooLate, IInv, Fine
<1>2. review.state = "CLOSED"
  BY <1>1 DEF HeldIsBehind, TypeOK, NoReview, Closed
<1> QED BY <1>1, <1>2, BareAnswerIInv

LEMMA FailIInv == ASSUME IInv, NEW c \in Callers, Fail(c) PROVE IInv'
  BY BareAnswerIInv DEF Fail

LEMMA CloseReviewIInv == ASSUME IInv, NEW c \in Reviewers, NEW o \in Outcomes, CloseReview(c, o) PROVE IInv'
<1>1. /\ pc[c] = "close" /\ review = Pending /\ review' = Closed(c, o) /\ status' = "REVIEW_CLOSED"
      /\ decision' = decision /\ TypeOK /\ RowsAgree /\ c \in Callers
  BY DEF CloseReview, IInv, Callers
<1>2. /\ review.state = "PENDING" /\ review'.state = "CLOSED" /\ review'.outcome = o
      /\ review'.reviewer = c /\ decision = "MANUAL_REVIEW"
  BY <1>1 DEF RowsAgree, Pending, Closed
<1>3. RowsAgree'
  BY <1>1, <1>2 DEF RowsAgree
<1>4. RowsAdvance
  BY <1>1, <1>2 DEF RowsAdvance, RowsAgree, Rank
<1> DEFINE told == Body("REVIEW_CLOSED", decision, "CLOSED", OutcomeOf(Closed(c, o), decision))
<1>5. OutcomeOf(Closed(c, o), decision) = [verdict |-> o, source |-> "REVIEWER"]
  BY DEF OutcomeOf, Closed
<1>6. told \in Answers
  <2>1. "REVIEW_CLOSED" \in Statuses /\ "CLOSED" \in ReviewStates /\ decision \in Verdicts
        /\ OutcomeOf(Closed(c, o), decision) \in Composed
    BY <1>2, <1>5 DEF Statuses, ReviewStates, Verdicts, Composed, Outcomes
  <2> QED BY <2>1 DEF Answers
<1>7. /\ told.kind = "body" /\ told.status = "REVIEW_CLOSED" /\ told.verdict = decision
      /\ told.review = "CLOSED" /\ told.outcome.source = "REVIEWER" /\ told.outcome.verdict = o
  BY <1>5 DEF Body
<1>8. Answer(c, told) \/ Answer(c, Told("error"))
  BY DEF CloseReview
<1> HIDE DEF told
<1>9. /\ pc'[c] = "idle" /\ (answer'[c] = told \/ answer'[c] = Told("error"))
      /\ \A d \in Callers : d # c => pc'[d] = pc[d] /\ held'[d] = held[d] /\ answer'[d] = answer[d]
  BY <1>1, <1>8, Tells
<1>10. TypeOK'
  <2>1. /\ status' \in Statuses \cup {"ABSENT"} /\ decision' \in Verdicts \cup {"none"}
        /\ review' \in {NoReview, Pending} \cup {Closed(d, p) : d \in Reviewers, p \in Outcomes}
    BY <1>1 DEF TypeOK, Statuses
  <2>2. CASE Answer(c, told)
    BY <1>1, <1>6, <2>1, <2>2, TellsType
  <2>3. CASE Answer(c, Told("error"))
    <3>1. Told("error") \in Answers
      BY DEF Answers
    <3> QED BY <1>1, <2>1, <2>3, <3>1, TellsType
  <2> QED BY <1>8, <2>2, <2>3
<1>11. HeldIsBehind(c)' /\ ToldBeforeHeld(c)'
  BY <1>9 DEF HeldIsBehind, ToldBeforeHeld
<1>12. ToldTrue(c)' /\ ToldBehind(c)' /\ Whole(c)'
  <2>1. CASE answer'[c] = told
    BY <1>1, <1>2, <1>7, <2>1 DEF ToldTrue, ToldBehind, Whole, IsBody, Rank
  <2>2. CASE answer'[c] = Told("error")
    BY <2>2 DEF ToldTrue, ToldBehind, Whole, IsBody, Told
  <2> QED BY <1>9, <2>1, <2>2
<1>13. \A d \in Callers : Fine(d)'
  <2>1. Fine(c)'
    BY <1>11, <1>12 DEF Fine
  <2>2. \A d \in Callers : d # c => Fine(d)'
    BY <1>3, <1>4, <1>9, Bystander
  <2> QED BY <2>1, <2>2
<1> QED BY <1>3, <1>10, <1>13 DEF IInv

LEMMA NextIInv == IInv /\ [Next]_vars => IInv'
<1> SUFFICES ASSUME IInv, [Next]_vars PROVE IInv'
  OBVIOUS
<1>1. CASE Receive \/ Abandon \/ \E v \in Verdicts : Decide(v)
  BY <1>1, ServiceIInv
<1>2. ASSUME NEW c \in Callers, Ask(c) \/ Fail(c) PROVE IInv'
  BY <1>2, AskIInv, FailIInv
<1>3. ASSUME NEW c \in Readers, Status(c) PROVE IInv'
  BY <1>3, ReadRowIInv, ReadVerdictIInv, ReadEnvelopeIInv, ReadReviewIInv, ReadOutcomeIInv DEF Status, Callers
<1>4. ASSUME NEW c \in Reviewers, Close(c) PROVE IInv'
  BY <1>4, LookForReviewIInv, TooLateIInv, CloseReviewIInv DEF Close, Callers
<1>5. CASE UNCHANGED vars
  BY <1>5 DEF IInv, TypeOK, RowsAgree, Fine, HeldIsBehind, ToldTrue, ToldBehind, ToldBeforeHeld, Whole,
     IsBody, vars, rows
<1> QED BY <1>1, <1>2, <1>3, <1>4, <1>5 DEF Next, Callers

-----------------------------------------------------------------------------
(***************************************************************************)
(* The theorems.                                                           *)
(***************************************************************************)
THEOREM IInvAlways == Spec => []IInv
  BY InitIInv, NextIInv, PTL DEF Spec

\* Type correctness.
THEOREM TypeCorrect == Spec => []TypeOK
<1>1. IInv => TypeOK
  BY DEF IInv
<1> QED BY <1>1, IInvAlways, PTL

\* However many reviewers race, what anyone was told stays true of the record:
\* the 200 and the opinion of the one who closed the review, and everyone's 409.
THEOREM ToldStaysTrueAlways == Spec => []ToldStaysTrue
<1>1. IInv => ToldStaysTrue
  BY DEF IInv, Fine, ToldTrue, ToldStaysTrue
<1> QED BY <1>1, IInvAlways, PTL

\* However the service writes between two reads of a status call, no part of the
\* answer is older than the part before it.
THEOREM PartsOnlyGetNewerAlways == Spec => []PartsOnlyGetNewer
<1>1. IInv => PartsOnlyGetNewer
  BY DEF IInv, Fine, Whole, PartsOnlyGetNewer
<1> QED BY <1>1, IInvAlways, PTL

-----------------------------------------------------------------------------
\* An answer is ahead of itself.
LEMMA SameAnswer == \A a : Ahead(a, a)
  BY DEF Ahead, Rank

\* What the last statement of a status call tells is ahead of what was told.
LEMMA OutcomeAhead ==
    ASSUME IInv, NEW c \in Readers, ReadOutcome(c), IsBody(answer[c])
    PROVE  Ahead(answer[c], answer'[c])
<1>1. pc[c] = "outcome" /\ c \in Callers /\ ToldTrue(c) /\ ToldBeforeHeld(c) /\ TypeOK
      /\ ToldBehind(c)
  BY DEF ReadOutcome, IInv, Fine, Callers
<1> DEFINE o == OutcomeOf(review, decision)
           told == Body(held[c].status, decision, held[c].review, o)
<1>2. held[c].verdict = decision
      /\ (review.state = "CLOSED" => o = [verdict |-> review.outcome, source |-> "REVIEWER"])
  BY <1>1, Outcome
<1>3. Answer(c, told)
  BY <1>2 DEF ReadOutcome
<1>4. answer'[c] = told
  BY <1>1, <1>3, Tells
<1> HIDE DEF o
<1>5. /\ told.status = held[c].status /\ told.verdict = decision
      /\ told.review = held[c].review /\ told.outcome = o
  BY DEF Body
<1> HIDE DEF told
<1>6. Rank(answer[c].status) <= Rank(told.status)
  BY <1>1, <1>5 DEF ToldBeforeHeld
<1>7. answer[c].verdict # "none" => told.verdict = answer[c].verdict
  BY <1>1, <1>5 DEF ToldTrue
<1>8. answer[c].review # "none" => told.review \in {answer[c].review, "CLOSED"}
  BY <1>1, <1>5 DEF ToldBeforeHeld
<1>9. ASSUME answer[c].outcome.source = "REVIEWER" PROVE told.outcome = answer[c].outcome
  <2>1. answer[c].outcome \in Composed
    BY <1>1, <1>9 DEF TypeOK, Body, NoOutcome, IsBody, Told
  <2>2. answer[c].outcome = [verdict |-> answer[c].outcome.verdict, source |-> "REVIEWER"]
    BY <1>9, <2>1 DEF Composed
  <2>3. review.state = "CLOSED" /\ answer[c].outcome.verdict = review.outcome
    BY <1>1, <1>9 DEF ToldTrue
  <2> QED BY <1>2, <1>5, <2>2, <2>3
<1> QED BY <1>4, <1>6, <1>7, <1>8, <1>9 DEF Ahead

\* So is the answer without a verdict, which is given only to those who were told
\* none before.
LEMMA VerdictAhead ==
    ASSUME IInv, NEW c \in Readers, ReadVerdict(c), IsBody(answer[c]), IsBody(answer'[c])
    PROVE  Ahead(answer[c], answer'[c])
<1>1. pc[c] = "verdict" /\ c \in Callers /\ ToldTrue(c) /\ ToldBeforeHeld(c) /\ ToldBehind(c)
  BY DEF ReadVerdict, IInv, Fine, Callers
<1>2. CASE decision = "none"
  <2> DEFINE told == Body(held[c].status, "none", "none", NoOutcome)
  <2>1. Answer(c, told)
    BY <1>2 DEF ReadVerdict
  <2>2. answer'[c] = told
    BY <1>1, <2>1, Tells
  <2>3. told.status = held[c].status
    BY DEF Body
  <2> HIDE DEF told
  <2>4. answer[c].verdict = "none" /\ answer[c].review = "none" /\ answer[c].outcome.source # "REVIEWER"
    BY <1>1, <1>2 DEF ToldTrue, ToldBehind
  <2>5. Rank(answer[c].status) <= Rank(told.status)
    BY <1>1, <2>3 DEF ToldBeforeHeld
  <2> QED BY <2>2, <2>4, <2>5 DEF Ahead
<1>3. CASE decision # "none"
  BY <1>3, SameAnswer DEF ReadVerdict
<1> QED BY <1>2, <1>3

\* A caller that is not told a body, or not told anything, cannot be told less.
LEMMA StepAhead ==
    ASSUME IInv, [Next]_vars, NEW c \in Callers, IsBody(answer[c]), IsBody(answer'[c])
    PROVE  Ahead(answer[c], answer'[c])
<1>1. ASSUME NEW d \in Callers, NEW told, Answer(d, told), d = c => told.kind # "body"
      PROVE  answer'[c] = answer[c]
  BY <1>1, Tells DEF IsBody
<1>2. ASSUME NEW k \in {"unknown", "closed", "error", "fault"} PROVE Told(k).kind # "body"
  BY <1>2 DEF Told
<1>3. CASE Receive \/ Abandon \/ (\E v \in Verdicts : Decide(v)) \/ UNCHANGED vars
  BY <1>3, SameAnswer DEF Receive, Abandon, Decide, vars
<1>4. ASSUME NEW d \in Callers, Ask(d) \/ Fail(d) \/ ReadRow(d) \/ ReadEnvelope(d) \/ ReadReview(d)
                                \/ LookForReview(d) \/ TooLate(d)
      PROVE  answer'[c] = answer[c]
  BY <1>1, <1>2, <1>4 DEF Ask, Fail, ReadRow, ReadEnvelope, ReadReview, LookForReview, TooLate
<1>5. ASSUME NEW d \in Readers, ReadVerdict(d) \/ ReadOutcome(d) PROVE Ahead(answer[c], answer'[c])
  <2>1. CASE d = c
    BY <1>5, <2>1, OutcomeAhead, VerdictAhead
  <2>2. CASE d # c
    <3>1. answer'[c] = answer[c]
      BY <1>1, <1>5, <2>2 DEF ReadVerdict, ReadOutcome, Callers
    <3> QED BY <3>1, SameAnswer
  <2> QED BY <2>1, <2>2
<1>6. ASSUME NEW d \in Reviewers, NEW o \in Outcomes, CloseReview(d, o) PROVE answer'[c] = answer[c]
  <2>1. d = c => review.state = "CLOSED"
    BY DEF IInv, Fine, ToldBehind
  <2>2. d # c
    BY <1>6, <2>1 DEF CloseReview, Pending
  <2> QED BY <1>1, <1>6, <2>2 DEF CloseReview, Callers
<1>7. ASSUME NEW d \in Readers, Ask(d) \/ Status(d) \/ Fail(d) PROVE Ahead(answer[c], answer'[c])
  BY <1>4, <1>5, <1>7, SameAnswer DEF Status, Callers
<1>8. ASSUME NEW d \in Reviewers, Ask(d) \/ Close(d) \/ Fail(d) PROVE Ahead(answer[c], answer'[c])
  BY <1>4, <1>6, <1>8, SameAnswer DEF Close, Callers
<1> QED BY <1>3, <1>7, <1>8 DEF Next

\* Whoever asks again is never told less.
THEOREM AnswersNeverGoBackAlways == Spec => AnswersNeverGoBack
<1>1. IInv /\ [Next]_vars => [\A c \in Callers : IsBody(answer[c]) /\ IsBody(answer'[c]) =>
                                  Ahead(answer[c], answer'[c])]_vars
  BY StepAhead
<1> QED BY <1>1, IInvAlways, PTL DEF Spec, AnswersNeverGoBack
=============================================================================
