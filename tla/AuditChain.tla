----------------------------- MODULE AuditChain -----------------------------
(***************************************************************************)
(* The audit chain of ONE application: rows keyed by their index, each     *)
(* holding the hash of the row before it.  Several transactions append to  *)
(* it at once.  Those that close, review or abandon the application hold   *)
(* its row lock while they append; the event of a bureau pull is appended  *)
(* by two bare statements under no lock at all.                            *)
(*                                                                         *)
(* An append reads the tail and inserts at the next index, and whatever    *)
(* happens in between is left to the primary key: an insert at an index    *)
(* another transaction has not yet committed waits for it, and one at a    *)
(* committed index fails its whole transaction.  The application is known  *)
(* to others only once its own transaction has written index 0, which is   *)
(* where this module starts.                                               *)
(***************************************************************************)
EXTENDS Integers, FiniteSets, FiniteSetsExt

CONSTANTS
    Writers,  \* the transactions, and bare appends, on this chain
    Locking,  \* those that hold the row lock of the application
    Batch,    \* how many events each appends
    Receipt,  \* stands for the event of the insert
    NoWriter, \* stands for a free lock
    Tampering \* whether somebody gets past the append-only trigger, once

ASSUME ChainConstants ==
    /\ Receipt \notin Writers /\ NoWriter \notin Writers
    /\ Locking \subseteq Writers
    /\ Batch \in [Writers -> Nat \ {0}]
    /\ \A w \in Writers \ Locking : Batch[w] = 1
    /\ Tampering \in BOOLEAN

VARIABLES
    rows,    \* the committed rows of audit_events
    lock,    \* who holds the row of the application
    pc,      \* where each writer is
    tail,    \* the next index and the head hash it read
    pending, \* the rows it has inserted and not committed
    damage   \* how, and at which index, a row was tampered with

vars == <<rows, lock, pc, tail, pending, damage>>

-----------------------------------------------------------------------------
Genesis == <<>>

\* hashEvent: injective, over the previous hash, the index and the event.
Hash(prev, index, event) == <<prev, index, event>>

RowOf(index, event, prev) ==
    [index |-> index, event |-> event, prev |-> prev, hash |-> Hash(prev, index, event)]

NoDamage == [how |-> "none", at |-> 0]

FirstRow == RowOf(0, Receipt, Genesis)

\* What a statement of this writer sees: all that is committed, and its own.
Visible(w) == rows \cup pending[w]

\* The last row of a set of rows.
Tails(set) == {x \in set : \A y \in set : y.index <= x.index}

-----------------------------------------------------------------------------
Init ==
    /\ rows = {FirstRow}
    /\ lock = NoWriter
    /\ pc = [w \in Writers |-> "start"]
    /\ tail = [w \in Writers |-> [index |-> 0, head |-> Genesis]]
    /\ pending = [w \in Writers |-> {}]
    /\ damage = NoDamage

\* Mutant: nobody holds the row while it appends.
BeginUnlocked(w) ==
    /\ pc[w] = "start"
    /\ pc' = [pc EXCEPT ![w] = "read"]
    /\ UNCHANGED <<rows, lock, tail, pending, damage>>

\* The transaction updates the application before it appends, and so holds its
\* row; a bare append holds nothing.
Begin(w) ==
    /\ pc[w] = "start"
    /\ IF w \in Locking THEN lock = NoWriter /\ lock' = w ELSE UNCHANGED lock
    /\ pc' = [pc EXCEPT ![w] = "read"]
    /\ UNCHANGED <<rows, tail, pending, damage>>

\* Mutant: the head hash is read without an order.
ReadTailAnyHead(w) ==
    /\ pc[w] = "read"
    /\ \E x \in Tails(Visible(w)), y \in Visible(w) :
          tail' = [tail EXCEPT ![w] = [index |-> x.index + 1, head |-> y.hash]]
    /\ pc' = [pc EXCEPT ![w] = "insert"]
    /\ UNCHANGED <<rows, lock, pending, damage>>

\* One statement reads the next index and the head hash.
ReadTail(w) ==
    /\ pc[w] = "read"
    /\ \E x \in Tails(Visible(w)) : tail' = [tail EXCEPT ![w] = [index |-> x.index + 1, head |-> x.hash]]
    /\ pc' = [pc EXCEPT ![w] = "insert"]
    /\ UNCHANGED <<rows, lock, pending, damage>>

NewRow(w) == RowOf(tail[w].index, w, tail[w].head)

Committed(index) == \E x \in rows : x.index = index
Awaited(index) == \E v \in Writers : \E x \in pending[v] : x.index = index

Release(w) == lock' = IF lock = w THEN NoWriter ELSE lock

\* Mutant: the events of a transaction are written outside it.
InsertAutocommitted(w) ==
    /\ pc[w] = "insert"
    /\ w \in Locking
    /\ ~Committed(tail[w].index) /\ ~Awaited(tail[w].index)
    /\ rows' = rows \cup {NewRow(w)}
    /\ pc' = [pc EXCEPT ![w] = IF Cardinality({x \in rows : x.event = w}) + 1 < Batch[w] THEN "read" ELSE "commit"]
    /\ UNCHANGED <<lock, tail, pending, damage>>

\* The insert of a transaction goes through, and it goes on or is ready.
Insert(w) ==
    /\ pc[w] = "insert"
    /\ w \in Locking
    /\ ~Committed(tail[w].index) /\ ~Awaited(tail[w].index)
    /\ pending' = [pending EXCEPT ![w] = @ \cup {NewRow(w)}]
    /\ pc' = [pc EXCEPT ![w] = IF Cardinality(pending[w]) + 1 < Batch[w] THEN "read" ELSE "commit"]
    /\ UNCHANGED <<rows, lock, tail, damage>>

\* The insert of a bare append commits itself.
InsertBare(w) ==
    /\ pc[w] = "insert"
    /\ w \notin Locking
    /\ ~Committed(tail[w].index) /\ ~Awaited(tail[w].index)
    /\ rows' = rows \cup {NewRow(w)}
    /\ pc' = [pc EXCEPT ![w] = "done"]
    /\ UNCHANGED <<lock, tail, pending, damage>>

\* Mutant: a failed transaction is left open.
RollbackLeftOut(w) ==
    /\ pc' = [pc EXCEPT ![w] = "failed"]
    /\ UNCHANGED <<rows, lock, tail, pending, damage>>

\* ROLLBACK, and the connection goes back to the pool.
Rollback(w) ==
    /\ pending' = [pending EXCEPT ![w] = {}]
    /\ pc' = [pc EXCEPT ![w] = "failed"]
    /\ Release(w)
    /\ UNCHANGED <<rows, tail, damage>>

\* The primary key refuses the index: the whole transaction is rolled back.
Refuse(w) ==
    /\ pc[w] = "insert"
    /\ Committed(tail[w].index)
    /\ Rollback(w)

Commit(w) ==
    /\ pc[w] = "commit"
    /\ rows' = rows \cup pending[w]
    /\ pending' = [pending EXCEPT ![w] = {}]
    /\ pc' = [pc EXCEPT ![w] = "done"]
    /\ Release(w)
    /\ UNCHANGED <<tail, damage>>

\* A statement fails or times out, or the process dies: the transaction is gone.
Abort(w) ==
    /\ pc[w] \in {"read", "insert", "commit"}
    /\ Rollback(w)

\* A column of a committed row is overwritten with the trigger disabled.
Forgeries(x) ==
    {[x EXCEPT !.event = e] : e \in (Writers \cup {Receipt}) \ {x.event}}
        \cup {[x EXCEPT !.prev = y.hash] : y \in {z \in rows : z.hash # x.prev}}
        \cup {[x EXCEPT !.hash = y.hash] : y \in rows \ {x}}

EditRow ==
    /\ Tampering /\ damage = NoDamage
    /\ \E x \in rows : \E y \in Forgeries(x) :
          /\ rows' = (rows \ {x}) \cup {y}
          /\ damage' = [how |-> "edited", at |-> x.index]
    /\ UNCHANGED <<lock, pc, tail, pending>>

\* A row is deleted, but not the last one: the chain cannot tell that.
DeleteRow ==
    /\ Tampering /\ damage = NoDamage
    /\ \E x \in rows \ Tails(rows) :
          /\ rows' = rows \ {x}
          /\ damage' = [how |-> "deleted", at |-> x.index]
    /\ UNCHANGED <<lock, pc, tail, pending>>

Step(w) == Begin(w) \/ ReadTail(w) \/ Insert(w) \/ InsertBare(w) \/ Refuse(w) \/ Commit(w)

Next ==
    \/ \E w \in Writers : Step(w) \/ Abort(w)
    \/ EditRow
    \/ DeleteRow

Spec == Init /\ [][Next]_vars

\* A live process runs its statements, and Postgres ends every lock wait when
\* the transaction it waits for ends.
FairSpec == Spec /\ \A w \in Writers : WF_vars(Step(w))

-----------------------------------------------------------------------------
(***************************************************************************)
(* verifyAuditChain, over the rows in the order of their index.            *)
(***************************************************************************)
Before(x) == {y \in rows : y.index < x.index}
Position(x) == Cardinality(Before(x))
ExpectedPrev(x) == IF Before(x) = {} THEN Genesis ELSE (CHOOSE y \in Tails(Before(x)) : TRUE).hash

\* Mutant: the links are compared, the hashes are not recomputed.
BrokenLinksOnly(x) == x.prev # ExpectedPrev(x) \/ x.index # Position(x)

Broken(x) ==
    \/ x.prev # ExpectedPrev(x)
    \/ x.hash # Hash(ExpectedPrev(x), x.index, x.event)
    \/ x.index # Position(x)

Intact == \A x \in rows : ~Broken(x)
BrokenAt == Min({Position(x) : x \in {y \in rows : Broken(y)}})

-----------------------------------------------------------------------------
(***************************************************************************)
(* Properties.                                                             *)
(***************************************************************************)
Events == Writers \cup {Receipt}

TypeOK ==
    /\ lock \in Locking \cup {NoWriter}
    /\ pc \in [Writers -> {"start", "read", "insert", "commit", "done", "failed"}]
    /\ \A x \in rows : x.index \in Nat /\ x.event \in Events
    /\ \A w \in Writers :
          /\ tail[w].index \in Nat
          /\ \A x \in pending[w] : x.index \in Nat /\ x.event = w
    /\ damage.at \in Nat

\* The committed rows never fork and each holds the hash of the row before it,
\* whatever the lockless append reads, inserts and loses in between.
Linked ==
    damage = NoDamage =>
        /\ \A x, y \in rows : x.index = y.index => x = y
        /\ \A x \in rows :
              /\ x.hash = Hash(x.prev, x.index, x.event)
              /\ \/ x.index = 0 /\ x.prev = Genesis
                 \/ \E y \in rows : x.index = y.index + 1 /\ x.prev = y.hash

\* A chain nobody tampered with verifies at every moment: the verifier never
\* cries tampering over a race.
ChainVerifies == damage = NoDamage => Intact

\* Verification names the row that was edited, or the place of the one that was
\* deleted, however many rows are appended to the damaged chain afterwards.  An
\* append that had read the tail when it was at the deleted row fills its place,
\* and the row after it is named.
EditIsFound ==
    damage # NoDamage =>
        /\ ~Intact
        /\ BrokenAt = damage.at + (IF damage.how = "deleted" /\ Committed(damage.at) THEN 1 ELSE 0)

\* A transaction that holds the row never loses its verdict, its review or its
\* sweep to another that does: only the lockless append can make it fail.
OnlyBareAppendsRefuse ==
    [][\A w \in Locking : damage = NoDamage /\ Refuse(w) =>
           \E x \in rows : x.index = tail[w].index /\ x.event \notin Locking]_vars

\* Every append comes to an end: the waits on the row lock and on uncommitted
\* indexes never close a circle.
EveryWriterEnds == \A w \in Writers : (pc[w] # "start") ~> (pc[w] \in {"done", "failed"})

\* The promise, under the mapping: the writers of the rows after the receipt.
Log == INSTANCE AuditLog WITH
    rewritten <- damage # NoDamage,
    log <- IF damage # NoDamage THEN <<>>
           ELSE [i \in 1..(Cardinality(rows) - 1) |-> (CHOOSE x \in rows : x.index = i).event]

\* The chain implements an append-only log of whole transactions.
KeepsLog == Log!Spec
=============================================================================
