------------------------------ MODULE AuditLog ------------------------------
(***************************************************************************)
(* What the trail of one application promises: a log that only grows, by   *)
(* the whole batch of one transaction at a time, each batch at most once.  *)
(***************************************************************************)
EXTENDS Integers, Sequences

CONSTANTS Writers, \* the transactions that append to this trail
          Batch    \* how many events each of them appends

VARIABLES
    log,      \* the writer of each event, in order
    rewritten \* whether somebody got past the trigger that protects it

vars == <<log, rewritten>>

Batched(w) == [i \in 1..Batch[w] |-> w]

Appended(w) == \E i \in DOMAIN log : log[i] = w

Init == log = <<>> /\ rewritten = FALSE

\* A transaction appends all its events, next to each other, or none.
AppendBatch(w) ==
    /\ ~rewritten
    /\ ~Appended(w)
    /\ log' = log \o Batched(w)
    /\ UNCHANGED rewritten

\* Nothing is promised of a log that somebody rewrote.
Rewrite ==
    /\ ~rewritten
    /\ rewritten' = TRUE
    /\ log' = <<>>

Next == Rewrite \/ \E w \in Writers : AppendBatch(w)

Spec == Init /\ [][Next]_vars
=============================================================================
