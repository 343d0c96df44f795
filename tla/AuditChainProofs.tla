-------------------------- MODULE AuditChainProofs --------------------------
(***************************************************************************)
(* The audit chain never forks and never breaks, and the verifier agrees,  *)
(* for any number of transactions and bare appends, until somebody tampers *)
(* with it.                                                                *)
(***************************************************************************)
EXTENDS AuditChain, FiniteSetTheorems, SequenceTheorems, TLAPS

\* What is known of a row wherever it is: in the table, or inserted and not yet
\* committed by a transaction that sees the rows of "set".  No index below its
\* own is missing there.
LinkedIn(x, set) ==
    /\ x.index \in Nat
    /\ \A k \in Nat : k < x.index => \E y \in set : y.index = k
    /\ x.hash = Hash(x.prev, x.index, x.event)
    /\ \/ x.index = 0 /\ x.prev = Genesis
       \/ \E y \in set : x.index = y.index + 1 /\ x.prev = y.hash

RowsLinked == \A x \in rows : LinkedIn(x, rows)
PendingLinked == \A w \in Writers : \A x \in pending[w] : LinkedIn(x, Visible(w))

\* No index is taken twice: among the committed rows, between them and the
\* uncommitted ones, and among those of all transactions.
RowsDistinct == \A x, y \in rows : x.index = y.index => x = y
PendingFresh == \A w \in Writers : \A x \in pending[w] : ~Committed(x.index)
PendingDistinct ==
    \A v, w \in Writers : \A x \in pending[v], y \in pending[w] :
        x.index = y.index => v = w /\ x = y

\* The tail a writer is about to insert after is a row it sees, though it may
\* no longer be the last one.
TailSeen ==
    \A w \in Writers : pc[w] = "insert" =>
        \E y \in Visible(w) : y.index \in Nat /\ tail[w].index = y.index + 1 /\ tail[w].head = y.hash

\* A writer outside a transaction has nothing uncommitted.
NothingLeft == \A w \in Writers : pc[w] \in {"start", "done", "failed"} \/ w \notin Locking => pending[w] = {}

Places == {"start", "read", "insert", "commit", "done", "failed"}

IInv ==
    /\ pc \in [Writers -> Places]
    /\ pending = [w \in Writers |-> pending[w]]
    /\ tail = [w \in Writers |-> tail[w]]
    /\ RowsLinked /\ PendingLinked
    /\ RowsDistinct /\ PendingFresh /\ PendingDistinct
    /\ TailSeen /\ NothingLeft

-----------------------------------------------------------------------------
\* The receipt alone is a chain.
LEMMA InitIInv == Init => IInv
  BY SMT, ChainConstants DEF Init, IInv, Places, RowsLinked, PendingLinked, RowsDistinct,
     PendingFresh, PendingDistinct, TailSeen, NothingLeft, LinkedIn, FirstRow, RowOf, Hash, Visible

\* A row stays linked when the rows around it grow.
LEMMA LinkedInMore ==
    ASSUME NEW x, NEW S, NEW T, LinkedIn(x, S), S \subseteq T
    PROVE  LinkedIn(x, T)
  BY DEF LinkedIn

\* The row a writer is about to insert is linked to what it sees.
LEMMA NewRowLinked ==
    ASSUME IInv, NEW w \in Writers, pc[w] = "insert"
    PROVE  /\ LinkedIn(NewRow(w), Visible(w))
           /\ NewRow(w).index = tail[w].index
<1>1. PICK y \in Visible(w) : y.index \in Nat /\ tail[w].index = y.index + 1 /\ tail[w].head = y.hash
  BY DEF IInv, TailSeen
<1>2. LinkedIn(y, Visible(w))
  BY LinkedInMore DEF IInv, RowsLinked, PendingLinked, Visible
<1>3. \A k \in Nat : k < tail[w].index => k = y.index \/ k < y.index
  BY <1>1
<1> QED BY <1>1, <1>2, <1>3 DEF LinkedIn, NewRow, RowOf, Hash

\* A row at an index that is neither committed nor awaited is a new one.
LEMMA NewRowFresh ==
    ASSUME IInv, NEW w \in Writers, pc[w] = "insert",
           ~Committed(tail[w].index), ~Awaited(tail[w].index)
    PROVE  /\ \A x \in rows : x.index # NewRow(w).index
           /\ \A v \in Writers : \A x \in pending[v] : x.index # NewRow(w).index
  BY NewRowLinked DEF Committed, Awaited

\* What a rollback leaves behind satisfies the invariant.
LEMMA RollbackIInv ==
    ASSUME IInv, NEW w \in Writers, Rollback(w)
    PROVE  IInv'
<1> USE DEF IInv, Rollback
<1>1. pc' \in [Writers -> Places]
  BY DEF Places
<1>2. pending' = [v \in Writers |-> pending'[v]] /\ tail' = [v \in Writers |-> tail'[v]]
  OBVIOUS
<1>3. RowsLinked' /\ RowsDistinct'
  BY DEF RowsLinked, RowsDistinct
<1>4. \A v \in Writers : pending'[v] \subseteq pending[v] /\ (v # w => pending'[v] = pending[v] /\ Visible(v)' = Visible(v))
  BY DEF Visible
<1>5. pending'[w] = {}
  OBVIOUS
<1>6. PendingLinked' /\ PendingFresh' /\ PendingDistinct'
  BY <1>4, <1>5 DEF PendingLinked, PendingFresh, PendingDistinct, Committed
<1>7. pc'[w] = "failed" /\ \A v \in Writers : v # w => pc'[v] = pc[v]
  OBVIOUS
<1>8. TailSeen'
  <2> SUFFICES ASSUME NEW v \in Writers, pc'[v] = "insert"
               PROVE  \E y \in Visible(v)' : /\ y.index \in Nat
                                             /\ tail'[v].index = y.index + 1
                                             /\ tail'[v].head = y.hash
    BY DEF TailSeen
  <2>1. v # w /\ pc[v] = "insert"
    BY <1>7
  <2>2. Visible(v)' = Visible(v) /\ tail' = tail
    BY <1>4, <2>1
  <2> QED BY <2>1, <2>2 DEF TailSeen
<1>9. NothingLeft'
  BY <1>4, <1>5, <1>7 DEF NothingLeft
<1> QED BY <1>1, <1>2, <1>3, <1>6, <1>8, <1>9

\* No step breaks the invariant but the one that tampers.
LEMMA NextIInv ==
    ASSUME IInv, damage' = NoDamage, [Next]_vars
    PROVE  IInv'
<1> USE DEF IInv
<1>1. ASSUME NEW w \in Writers, Begin(w) PROVE IInv'
  BY <1>1 DEF Begin, Places, RowsLinked, PendingLinked, RowsDistinct, PendingFresh,
     PendingDistinct, TailSeen, NothingLeft, Visible, Committed
<1>2. ASSUME NEW w \in Writers, ReadTail(w) PROVE IInv'
  <2>1. PICK x \in Tails(Visible(w)) : tail' = [tail EXCEPT ![w] = [index |-> x.index + 1, head |-> x.hash]]
    BY <1>2 DEF ReadTail
  <2>2. x \in Visible(w) /\ x.index \in Nat
    BY DEF Tails, Visible, RowsLinked, PendingLinked, LinkedIn
  <2>3. tail'[w].index = x.index + 1 /\ tail'[w].head = x.hash /\ \A v \in Writers : v # w => tail'[v] = tail[v]
    BY <2>1
  <2>4. pc' = [pc EXCEPT ![w] = "insert"] /\ pc[w] = "read" /\ UNCHANGED <<rows, lock, pending, damage>>
    BY <1>2 DEF ReadTail
  <2>5. TailSeen'
    BY <2>2, <2>3, <2>4 DEF TailSeen, Visible
  <2>6. NothingLeft' /\ pc' \in [Writers -> Places]
    BY <2>4 DEF NothingLeft, Places
  <2>7. RowsLinked' /\ PendingLinked' /\ RowsDistinct' /\ PendingFresh' /\ PendingDistinct'
    BY <2>4 DEF RowsLinked, PendingLinked, RowsDistinct, PendingFresh, PendingDistinct, Visible, Committed
  <2> QED BY <2>1, <2>4, <2>5, <2>6, <2>7
<1>3. ASSUME NEW w \in Writers, Insert(w) PROVE IInv'
  <2>1. /\ pc[w] = "insert" /\ w \in Locking
        /\ ~Committed(tail[w].index) /\ ~Awaited(tail[w].index)
        /\ pending' = [pending EXCEPT ![w] = @ \cup {NewRow(w)}]
        /\ UNCHANGED <<rows, lock, tail, damage>>
    BY <1>3 DEF Insert
  <2>2. pc' \in [Writers -> Places] /\ pc'[w] \in {"read", "commit"} /\ \A v \in Writers : v # w => pc'[v] = pc[v]
    BY <1>3 DEF Insert, Places
  <2>3. /\ pending'[w] = pending[w] \cup {NewRow(w)}
        /\ \A v \in Writers : v # w => pending'[v] = pending[v]
        /\ \A v \in Writers : Visible(v) \subseteq Visible(v)'
    BY <2>1 DEF Visible
  <2>4. PendingLinked'
    <3> SUFFICES ASSUME NEW v \in Writers, NEW x \in pending'[v] PROVE LinkedIn(x, Visible(v)')
      BY DEF PendingLinked, LinkedIn
    <3>1. CASE x \in pending[v]
      BY <2>3, <3>1, LinkedInMore DEF PendingLinked
    <3>2. CASE x \notin pending[v]
      BY <2>1, <2>3, <3>2, NewRowLinked, LinkedInMore
    <3> QED BY <3>1, <3>2
  <2>5. RowsLinked' /\ RowsDistinct'
    BY <2>1 DEF RowsLinked, RowsDistinct, LinkedIn
  <2>6. PendingFresh'
    BY <2>1, <2>3, NewRowFresh DEF PendingFresh, Committed
  <2>7. PendingDistinct'
    BY <2>1, <2>3, NewRowFresh DEF PendingDistinct
  <2>8. TailSeen'
    BY <2>1, <2>2, <2>3 DEF TailSeen
  <2>9. NothingLeft'
    BY <2>1, <2>2, <2>3 DEF NothingLeft
  <2> QED BY <2>1, <2>2, <2>4, <2>5, <2>6, <2>7, <2>8, <2>9
<1>4. ASSUME NEW w \in Writers, InsertBare(w) PROVE IInv'
  <2>1. /\ pc[w] = "insert" /\ w \notin Locking
        /\ ~Committed(tail[w].index) /\ ~Awaited(tail[w].index)
        /\ rows' = rows \cup {NewRow(w)}
        /\ pc' = [pc EXCEPT ![w] = "done"]
        /\ UNCHANGED <<lock, tail, pending, damage>>
    BY <1>4 DEF InsertBare
  <2>2. pending[w] = {} /\ Visible(w) = rows
    BY <2>1 DEF NothingLeft, Visible
  <2>3. \A v \in Writers : Visible(v) \subseteq Visible(v)'
    BY <2>1 DEF Visible
  <2>4. RowsLinked'
    <3> SUFFICES ASSUME NEW x \in rows' PROVE LinkedIn(x, rows')
      BY DEF RowsLinked, LinkedIn
    <3>1. CASE x \in rows
      BY <2>1, <3>1, LinkedInMore DEF RowsLinked
    <3>2. CASE x \notin rows
      BY <2>1, <2>2, <3>2, NewRowLinked, LinkedInMore
    <3> QED BY <3>1, <3>2
  <2>5. PendingLinked'
    <3> SUFFICES ASSUME NEW v \in Writers, NEW x \in pending[v] PROVE LinkedIn(x, Visible(v)')
      BY <2>1 DEF PendingLinked, LinkedIn
    <3> QED BY <2>3, LinkedInMore DEF PendingLinked
  <2>6. RowsDistinct'
    BY <2>1, NewRowFresh DEF RowsDistinct
  <2>7. PendingFresh'
    BY <2>1, NewRowFresh DEF PendingFresh, Committed
  <2>8. PendingDistinct' /\ NothingLeft' /\ pc' \in [Writers -> Places]
    BY <2>1, <2>2 DEF PendingDistinct, NothingLeft, Places
  <2>9. TailSeen'
    BY <2>1, <2>3 DEF TailSeen
  <2> QED BY <2>1, <2>4, <2>5, <2>6, <2>7, <2>8, <2>9
<1>5. ASSUME NEW w \in Writers, Commit(w) PROVE IInv'
  <2>1. /\ pc[w] = "commit"
        /\ rows' = rows \cup pending[w]
        /\ pending' = [pending EXCEPT ![w] = {}]
        /\ pc' = [pc EXCEPT ![w] = "done"]
        /\ UNCHANGED <<tail, damage>>
    BY <1>5 DEF Commit
  <2>2. /\ pending'[w] = {} /\ \A v \in Writers : v # w => pending'[v] = pending[v]
        /\ \A v \in Writers : Visible(v) \subseteq Visible(v)'
        /\ Visible(w) = rows'
    BY <2>1 DEF Visible
  <2>3. RowsLinked'
    <3> SUFFICES ASSUME NEW x \in rows' PROVE LinkedIn(x, rows')
      BY DEF RowsLinked, LinkedIn
    <3>1. CASE x \in rows
      BY <2>1, <3>1, LinkedInMore DEF RowsLinked
    <3>2. CASE x \in pending[w]
      BY <2>2, <3>2 DEF PendingLinked
    <3> QED BY <2>1, <3>1, <3>2
  <2>4. PendingLinked'
    <3> SUFFICES ASSUME NEW v \in Writers, NEW x \in pending'[v] PROVE LinkedIn(x, Visible(v)')
      BY DEF PendingLinked, LinkedIn
    <3>1. v # w /\ x \in pending[v]
      BY <2>2
    <3> QED BY <2>2, <3>1, LinkedInMore DEF PendingLinked
  <2>5. RowsDistinct'
    BY <2>1 DEF RowsDistinct, PendingFresh, PendingDistinct, Committed
  <2>6. PendingFresh'
    BY <2>1, <2>2 DEF PendingFresh, PendingDistinct, Committed
  <2>7. PendingDistinct' /\ NothingLeft' /\ pc' \in [Writers -> Places]
    BY <2>1, <2>2 DEF PendingDistinct, NothingLeft, Places
  <2>8. TailSeen'
    BY <2>1, <2>2 DEF TailSeen
  <2> QED BY <2>1, <2>3, <2>4, <2>5, <2>6, <2>7, <2>8
<1>6. ASSUME NEW w \in Writers, Refuse(w) \/ Abort(w) PROVE IInv'
  BY <1>6, RollbackIInv DEF Refuse, Abort
<1>7. ~(EditRow \/ DeleteRow)
  BY DEF EditRow, DeleteRow, NoDamage
<1>8. CASE UNCHANGED vars
  BY <1>8 DEF vars, RowsLinked, PendingLinked, RowsDistinct, PendingFresh,
     PendingDistinct, TailSeen, NothingLeft, Visible, Committed, LinkedIn
<1> QED BY <1>1, <1>2, <1>3, <1>4, <1>5, <1>6, <1>7, <1>8 DEF Next, Step

\* Damage is never undone.
LEMMA DamageStays == ASSUME [Next]_vars, damage' = NoDamage PROVE damage = NoDamage
  BY DEF Next, Step, Begin, ReadTail, Insert, InsertBare, Refuse, Rollback, Commit, Abort,
         EditRow, DeleteRow, vars

LEMMA IInvAlways == Spec => [](damage = NoDamage => IInv)
<1>1. Init => (damage = NoDamage => IInv)
  BY InitIInv
<1>2. (damage = NoDamage => IInv) /\ [Next]_vars => (damage = NoDamage => IInv)'
  BY NextIInv, DamageStays
<1> QED BY <1>1, <1>2, PTL DEF Spec

-----------------------------------------------------------------------------
(***************************************************************************)
(* The theorems.                                                           *)
(***************************************************************************)

\* The committed rows never fork and never break, whatever the lockless append
\* reads and inserts between the events of other transactions.
THEOREM LinkedAlways == Spec => []Linked
<1>1. (damage = NoDamage => IInv) => Linked
  BY DEF IInv, RowsLinked, RowsDistinct, LinkedIn, Linked
<1> QED BY <1>1, IInvAlways, PTL

\* The rows before a row are as many as its index says.
LEMMA PositionIsIndex ==
    ASSUME IInv, NEW x \in rows
    PROVE  Position(x) = x.index
<1> DEFINE n == x.index
           At(i) == CHOOSE y \in rows : y.index = i - 1
           f == [i \in 1..n |-> At(i)]
<1>1. n \in Nat /\ \A k \in Nat : k < n => \E y \in rows : y.index = k
  BY DEF IInv, RowsLinked, LinkedIn
<1>2. \A i \in 1..n : At(i) \in rows /\ At(i).index = i - 1
  <2> SUFFICES ASSUME NEW i \in 1..n PROVE At(i) \in rows /\ At(i).index = i - 1
    OBVIOUS
  <2>1. i - 1 \in Nat /\ i - 1 < n
    BY <1>1
  <2>2. \E y \in rows : y.index = i - 1
    BY <1>1, <2>1
  <2> QED BY <2>2
<1>3. \A y \in rows : y.index \in Nat
  BY DEF IInv, RowsLinked, LinkedIn
<1>4. \A y, z \in rows : y.index = z.index => y = z
  BY DEF IInv, RowsDistinct
<1> HIDE DEF At
<1>5. f \in [1..n -> Before(x)]
  BY <1>1, <1>2 DEF Before
<1>6. \A i, j \in 1..n : f[i] = f[j] => i = j
  BY <1>1, <1>2
<1>7. \A y \in Before(x) : \E i \in 1..n : f[i] = y
  <2> SUFFICES ASSUME NEW y \in Before(x) PROVE \E i \in 1..n : f[i] = y
    OBVIOUS
  <2>1. y \in rows /\ y.index + 1 \in 1..n
    BY <1>1, <1>3 DEF Before
  <2>2. At(y.index + 1) \in rows /\ At(y.index + 1).index = y.index
    BY <1>2, <1>3, <2>1
  <2>3. At(y.index + 1) = y
    BY <1>4, <2>1, <2>2
  <2> QED BY <2>1, <2>3
<1>8. ExistsBijection(1..n, Before(x))
  BY <1>5, <1>6, <1>7, Zenon DEF ExistsBijection, Bijection, Injection, Surjection, IsInjective
<1> QED BY <1>1, <1>8, FS_CountingElements DEF Position

\* What the verifier expects before a row is what the row holds.
LEMMA ExpectedIsHeld ==
    ASSUME IInv, NEW x \in rows
    PROVE  ExpectedPrev(x) = x.prev
<1>1. x.index \in Nat /\ \A y, z \in rows : y.index = z.index => y = z
  BY DEF IInv, RowsLinked, RowsDistinct, LinkedIn
<1>2. \A y \in rows : y.index \in Nat
  BY DEF IInv, RowsLinked, LinkedIn
<1>3. CASE x.index = 0 /\ x.prev = Genesis
  <2>1. Before(x) = {}
    BY <1>2, <1>3 DEF Before
  <2> QED BY <1>3, <2>1 DEF ExpectedPrev
<1>4. ASSUME NEW y \in rows, x.index = y.index + 1, x.prev = y.hash PROVE ExpectedPrev(x) = x.prev
  <2>1. y \in Tails(Before(x)) /\ Before(x) # {}
    BY <1>2, <1>4 DEF Tails, Before
  <2>2. \A z \in Tails(Before(x)) : z = y
    BY <1>1, <1>2, <2>1 DEF Tails, Before
  <2> QED BY <1>4, <2>1, <2>2 DEF ExpectedPrev
<1> QED BY <1>3, <1>4 DEF IInv, RowsLinked, LinkedIn

\* verifyAuditChain finds nothing to report in a chain nobody tampered with,
\* whatever races and rollbacks made it.
THEOREM ChainVerifiesAlways == Spec => []ChainVerifies
<1>1. IInv => Intact
  <2> SUFFICES ASSUME IInv, NEW x \in rows PROVE ~Broken(x)
    BY DEF Intact
  <2>1. x.hash = Hash(x.prev, x.index, x.event)
    BY DEF IInv, RowsLinked, LinkedIn
  <2> QED BY <2>1, PositionIsIndex, ExpectedIsHeld DEF Broken
<1>2. (damage = NoDamage => IInv) => ChainVerifies
  BY <1>1 DEF ChainVerifies
<1> QED BY <1>2, IInvAlways, PTL

-----------------------------------------------------------------------------
(***************************************************************************)
(* Types, also of a table that was tampered with.                          *)
(***************************************************************************)
IsRow(x) ==
    /\ x = [index |-> x.index, event |-> x.event, prev |-> x.prev, hash |-> x.hash]
    /\ x.index \in Nat /\ x.event \in Events

Typed ==
    /\ TypeOK
    /\ \A x \in rows : IsRow(x)
    /\ tail = [w \in Writers |-> tail[w]]
    /\ pending = [w \in Writers |-> pending[w]]
    /\ \A w \in Writers : \A x \in pending[w] : IsRow(x)

\* What a forger writes into a column leaves a row.
LEMMA ForgeryIsRow ==
    ASSUME NEW x, IsRow(x), NEW y \in Forgeries(x)
    PROVE  IsRow(y)
<1>1. CASE y \in {[x EXCEPT !.event = e] : e \in (Writers \cup {Receipt}) \ {x.event}}
  BY <1>1 DEF IsRow, Events
<1>2. CASE y \in {[x EXCEPT !.prev = z.hash] : z \in {v \in rows : v.hash # x.prev}}
  BY <1>2 DEF IsRow
<1>3. CASE y \in {[x EXCEPT !.hash = z.hash] : z \in rows \ {x}}
  BY <1>3 DEF IsRow
<1> QED BY <1>1, <1>2, <1>3 DEF Forgeries

\* A writer inserts a row.
LEMMA NewRowIsRow ==
    ASSUME Typed, NEW w \in Writers
    PROVE  IsRow(NewRow(w)) /\ NewRow(w).event = w
  BY DEF Typed, TypeOK, IsRow, NewRow, RowOf, Events

LEMMA RollbackTyped ==
    ASSUME Typed, NEW w \in Writers, Rollback(w)
    PROVE  Typed'
  BY DEF Typed, TypeOK, Rollback, Release, IsRow, Events

LEMMA NextTyped == Typed /\ [Next]_vars => Typed'
<1> SUFFICES ASSUME Typed, [Next]_vars PROVE Typed'
  OBVIOUS
<1>1. ASSUME NEW w \in Writers, Begin(w) PROVE Typed'
  BY <1>1 DEF Typed, TypeOK, Begin, IsRow, Events
<1>2. ASSUME NEW w \in Writers, ReadTail(w) PROVE Typed'
  <2>1. PICK x \in Tails(Visible(w)) : tail' = [tail EXCEPT ![w] = [index |-> x.index + 1, head |-> x.hash]]
    BY <1>2 DEF ReadTail
  <2>2. x.index \in Nat
    BY DEF Typed, IsRow, Tails, Visible
  <2>3. \A v \in Writers : tail'[v].index \in Nat
    BY <2>1, <2>2 DEF Typed, TypeOK
  <2> QED BY <1>2, <2>1, <2>3 DEF Typed, TypeOK, ReadTail, IsRow, Events
<1>3. ASSUME NEW w \in Writers, Insert(w) PROVE Typed'
  <2>1. /\ pending' = [pending EXCEPT ![w] = @ \cup {NewRow(w)}]
        /\ UNCHANGED <<rows, lock, tail, damage>>
        /\ pc' \in [Writers -> {"start", "read", "insert", "commit", "done", "failed"}]
    BY <1>3 DEF Insert, Typed, TypeOK
  <2>2. \A v \in Writers : \A x \in pending'[v] : IsRow(x) /\ x.index \in Nat /\ x.event = v
    BY <2>1, NewRowIsRow DEF Typed, TypeOK, IsRow
  <2> QED BY <2>1, <2>2 DEF Typed, TypeOK, IsRow, Events
<1>4. ASSUME NEW w \in Writers, InsertBare(w) PROVE Typed'
  <2>1. \A x \in rows' : IsRow(x)
    BY <1>4, NewRowIsRow DEF InsertBare, Typed
  <2> QED BY <1>4, <2>1 DEF InsertBare, Typed, TypeOK, IsRow, Events
<1>5. ASSUME NEW w \in Writers, Refuse(w) \/ Abort(w) PROVE Typed'
  BY <1>5, RollbackTyped DEF Refuse, Abort
<1>6. ASSUME NEW w \in Writers, Commit(w) PROVE Typed'
  <2>1. \A x \in rows' : IsRow(x)
    BY <1>6 DEF Commit, Typed
  <2> QED BY <1>6, <2>1 DEF Commit, Release, Typed, TypeOK, IsRow, Events
<1>7. CASE EditRow
  <2>0. PICK x \in rows : \E y \in Forgeries(x) :
          rows' = (rows \ {x}) \cup {y} /\ damage' = [how |-> "edited", at |-> x.index]
    BY <1>7 DEF EditRow
  <2>1. PICK y \in Forgeries(x) :
          rows' = (rows \ {x}) \cup {y} /\ damage' = [how |-> "edited", at |-> x.index]
    BY <2>0
  <2>2. \A z \in rows' : IsRow(z)
    BY <2>1, ForgeryIsRow DEF Typed
  <2>3. damage'.at \in Nat
    BY <2>1 DEF Typed, IsRow
  <2> QED BY <1>7, <2>2, <2>3 DEF EditRow, Typed, TypeOK, IsRow, Events
<1>8. CASE DeleteRow
  <2>1. \A z \in rows' : IsRow(z)
    BY <1>8 DEF DeleteRow, Typed
  <2>2. damage'.at \in Nat
    BY <1>8 DEF DeleteRow, Typed, IsRow
  <2> QED BY <1>8, <2>1, <2>2 DEF DeleteRow, Typed, TypeOK, IsRow, Events
<1>9. CASE UNCHANGED vars
  BY <1>9 DEF vars, Typed, TypeOK, IsRow, Events
<1> QED BY <1>1, <1>2, <1>3, <1>4, <1>5, <1>6, <1>7, <1>8, <1>9 DEF Next, Step

\* The table, the lock and the writers keep their types, tampered with or not.
THEOREM TypeCorrect == Spec => []TypeOK
<1>1. Init => Typed
  BY ChainConstants DEF Init, Typed, TypeOK, IsRow, FirstRow, RowOf, Events, NoDamage
<1> QED BY <1>1, NextTyped, PTL DEF Spec, Typed

-----------------------------------------------------------------------------
(***************************************************************************)
(* Who holds the lock, and how much a transaction has written.             *)
(***************************************************************************)
InTransaction == {"read", "insert", "commit"}

\* A transaction holds the row of the application from its first statement to
\* its end.
LockHeld == \A w \in Locking : pc[w] \in InTransaction => lock = w

\* A writer commits its whole batch, and only a transaction commits one.
BatchSoFar ==
    \A w \in Writers :
        /\ pc[w] = "start" => pending[w] = {}
        /\ pc[w] \in {"read", "insert"} => Cardinality(pending[w]) < Batch[w]
        /\ pc[w] = "commit" => w \in Locking /\ Cardinality(pending[w]) = Batch[w]

Finite == IsFiniteSet(rows) /\ \A w \in Writers : IsFiniteSet(pending[w])

Side == LockHeld /\ BatchSoFar /\ Finite

LEMMA RollbackSide ==
    ASSUME Typed, Side, NEW w \in Writers, Rollback(w)
    PROVE  Side'
<1>1. /\ pc' = [pc EXCEPT ![w] = "failed"] /\ pending' = [pending EXCEPT ![w] = {}]
      /\ lock' = (IF lock = w THEN NoWriter ELSE lock) /\ UNCHANGED rows
  BY DEF Rollback, Release
<1>2. \A v \in Writers : /\ pc'[v] = IF v = w THEN "failed" ELSE pc[v]
                         /\ pending'[v] = IF v = w THEN {} ELSE pending[v]
  BY <1>1 DEF Typed, TypeOK
<1>3. LockHeld'
  BY <1>1, <1>2, ChainConstants DEF Side, LockHeld, InTransaction
<1>4. BatchSoFar'
  BY <1>2 DEF Side, BatchSoFar
<1>5. Finite'
  BY <1>1, <1>2, FS_EmptySet DEF Side, Finite
<1> QED BY <1>3, <1>4, <1>5 DEF Side

LEMMA SideStep == Typed /\ Side /\ [Next]_vars => Side'
<1> SUFFICES ASSUME Typed, Side, [Next]_vars PROVE Side'
  OBVIOUS
<1>0. /\ pc \in [Writers -> Places] /\ pending = [w \in Writers |-> pending[w]]
      /\ Batch \in [Writers -> Nat \ {0}] /\ \A w \in Writers \ Locking : Batch[w] = 1
      /\ Locking \subseteq Writers /\ NoWriter \notin Writers
      /\ LockHeld /\ BatchSoFar /\ Finite
  BY ChainConstants DEF Typed, TypeOK, Side, Places
<1>1. ASSUME NEW w \in Writers, Begin(w) PROVE Side'
  <2>1. /\ pc[w] = "start" /\ pc' = [pc EXCEPT ![w] = "read"] /\ UNCHANGED <<rows, pending>>
        /\ IF w \in Locking THEN lock = NoWriter /\ lock' = w ELSE lock' = lock
    BY <1>1 DEF Begin
  <2>2. LockHeld'
    BY <1>0, <2>1 DEF LockHeld, InTransaction
  <2>3. BatchSoFar'
    <3>1. Cardinality({}) = 0 /\ Batch[w] \in Nat \ {0}
      BY <1>0, FS_EmptySet
    <3> QED BY <1>0, <2>1, <3>1 DEF BatchSoFar
  <2> QED BY <1>0, <2>1, <2>2, <2>3 DEF Side, Finite
<1>2. ASSUME NEW w \in Writers, ReadTail(w) PROVE Side'
  <2>1. pc[w] = "read" /\ pc' = [pc EXCEPT ![w] = "insert"] /\ UNCHANGED <<rows, lock, pending>>
    BY <1>2 DEF ReadTail
  <2> QED BY <1>0, <2>1 DEF Side, LockHeld, InTransaction, BatchSoFar, Finite
<1>3. ASSUME NEW w \in Writers, Insert(w) PROVE Side'
  <2> DEFINE more == pending[w] \cup {NewRow(w)}
  <2>1. /\ pc[w] = "insert" /\ w \in Locking /\ ~Awaited(tail[w].index)
        /\ pending' = [pending EXCEPT ![w] = more]
        /\ pc' = [pc EXCEPT ![w] = IF Cardinality(pending[w]) + 1 < Batch[w] THEN "read" ELSE "commit"]
        /\ UNCHANGED <<rows, lock>>
    BY <1>3 DEF Insert
  <2>2. NewRow(w) \notin pending[w]
    BY <2>1 DEF Awaited, NewRow, RowOf
  <2>3. /\ IsFiniteSet(more) /\ Cardinality(more) = Cardinality(pending[w]) + 1
        /\ Cardinality(pending[w]) \in Nat
    BY <1>0, <2>2, FS_AddElement, FS_CardinalityType DEF Finite
  <2> HIDE DEF more
  <2>4. Finite'
    BY <1>0, <2>1, <2>3 DEF Finite
  <2>5. LockHeld'
    BY <1>0, <2>1 DEF LockHeld, InTransaction
  <2>6. pc'[w] = (IF Cardinality(more) < Batch[w] THEN "read" ELSE "commit") /\ pending'[w] = more
    BY <1>0, <2>1, <2>3
  <2>7. Cardinality(pending[w]) < Batch[w] /\ Batch[w] \in Nat
    BY <1>0, <2>1 DEF BatchSoFar
  <2>8. \A v \in Writers : v # w => pc'[v] = pc[v] /\ pending'[v] = pending[v]
    BY <1>0, <2>1
  <2>9. BatchSoFar'
    BY <1>0, <2>1, <2>3, <2>6, <2>7, <2>8 DEF BatchSoFar
  <2> QED BY <2>4, <2>5, <2>9 DEF Side
<1>4. ASSUME NEW w \in Writers, InsertBare(w) PROVE Side'
  <2>1. /\ w \notin Locking /\ pc' = [pc EXCEPT ![w] = "done"]
        /\ rows' = rows \cup {NewRow(w)} /\ UNCHANGED <<lock, pending>>
    BY <1>4 DEF InsertBare
  <2>2. IsFiniteSet(rows')
    BY <1>0, <2>1, FS_AddElement DEF Finite
  <2> QED BY <1>0, <2>1, <2>2 DEF Side, LockHeld, InTransaction, BatchSoFar, Finite
<1>5. ASSUME NEW w \in Writers, Refuse(w) \/ Abort(w) PROVE Side'
  BY <1>5, RollbackSide DEF Refuse, Abort
<1>6. ASSUME NEW w \in Writers, Commit(w) PROVE Side'
  <2>1. /\ pc' = [pc EXCEPT ![w] = "done"] /\ pending' = [pending EXCEPT ![w] = {}]
        /\ rows' = rows \cup pending[w] /\ lock' = (IF lock = w THEN NoWriter ELSE lock)
    BY <1>6 DEF Commit, Release
  <2>2. IsFiniteSet(rows') /\ IsFiniteSet({})
    BY <1>0, <2>1, FS_Union, FS_EmptySet DEF Finite
  <2>3. \A v \in Writers : /\ pc'[v] = IF v = w THEN "done" ELSE pc[v]
                           /\ pending'[v] = IF v = w THEN {} ELSE pending[v]
    BY <1>0, <2>1
  <2>4. LockHeld'
    BY <1>0, <2>1, <2>3 DEF LockHeld, InTransaction
  <2>5. BatchSoFar'
    BY <1>0, <2>3 DEF BatchSoFar
  <2> QED BY <1>0, <2>2, <2>3, <2>4, <2>5 DEF Side, Finite
<1>7. CASE EditRow
  <2>1. PICK x, y : rows' = (rows \ {x}) \cup {y}
    BY <1>7 DEF EditRow
  <2>2. IsFiniteSet(rows')
    BY <1>0, <2>1, FS_RemoveElement, FS_AddElement DEF Finite
  <2> QED BY <1>0, <1>7, <2>2 DEF EditRow, Side, LockHeld, BatchSoFar, Finite
<1>8. CASE DeleteRow
  <2>1. IsFiniteSet(rows')
    BY <1>0, <1>8, FS_RemoveElement DEF DeleteRow, Finite
  <2> QED BY <1>0, <1>8, <2>1 DEF DeleteRow, Side, LockHeld, BatchSoFar, Finite
<1>9. CASE UNCHANGED vars
  BY <1>0, <1>9 DEF vars, Side, LockHeld, BatchSoFar, Finite
<1> QED BY <1>1, <1>2, <1>3, <1>4, <1>5, <1>6, <1>7, <1>8, <1>9 DEF Next, Step

LEMMA TypedAlways == Spec => []Typed
<1>1. Init => Typed
  BY ChainConstants DEF Init, Typed, TypeOK, IsRow, FirstRow, RowOf, Events, NoDamage
<1> QED BY <1>1, NextTyped, PTL DEF Spec

LEMMA SideAlways == Spec => []Side
<1>1. ASSUME Init PROVE Side
  <2>1. IsFiniteSet({FirstRow}) /\ IsFiniteSet({})
    BY FS_Singleton, FS_EmptySet
  <2>2. LockHeld /\ BatchSoFar
    BY <1>1, ChainConstants DEF Init, LockHeld, InTransaction, BatchSoFar
  <2> QED BY <1>1, <2>1, <2>2 DEF Init, Side, Finite
<1> QED BY <1>1, SideStep, TypedAlways, PTL DEF Spec

-----------------------------------------------------------------------------
(***************************************************************************)
(* Whose rows are in the table, as long as nobody tampers with it.         *)
(***************************************************************************)

\* What a transaction read stays ahead of all that transactions have committed.
TailAhead ==
    \A w \in Locking : pc[w] = "insert" =>
        \A x \in rows : x.event \in Locking => x.index < tail[w].index

\* Nobody has a row in the table before it is done.
Unwritten == \A w \in Writers : pc[w] # "done" => \A x \in rows : x.event # w

\* The chain was opened by the receipt, and nothing is taken out of it.
Opened == rows # {}

Whose == TailAhead /\ Unwritten /\ Opened

LEMMA WhoseStep ==
    ASSUME Typed, Side, Whose, damage' = NoDamage, [Next]_vars
    PROVE  Whose'
<1>0. /\ pc \in [Writers -> Places] /\ tail = [w \in Writers |-> tail[w]]
      /\ Locking \subseteq Writers /\ LockHeld /\ TailAhead /\ Unwritten /\ Opened
      /\ \A x \in rows : x.index \in Nat
      /\ \A w \in Writers : \A x \in pending[w] : x.index \in Nat /\ x.event = w
      /\ \A w \in Writers : tail[w].index \in Nat
  BY ChainConstants DEF Typed, TypeOK, IsRow, Side, Whose, Places
<1>1. ASSUME NEW w \in Writers, Begin(w) \/ Insert(w) \/ Refuse(w) \/ Abort(w) PROVE Whose'
  <2>1. /\ UNCHANGED <<rows, tail>>
        /\ \E place \in Places \ {"insert", "done"} : pc' = [pc EXCEPT ![w] = place]
        /\ pc[w] # "done"
    BY <1>1 DEF Begin, Insert, Refuse, Abort, Rollback, Places
  <2> QED BY <1>0, <2>1 DEF Whose, TailAhead, Unwritten, Opened
<1>2. ASSUME NEW w \in Writers, ReadTail(w) PROVE Whose'
  <2>1. PICK x \in Tails(Visible(w)) : tail' = [tail EXCEPT ![w] = [index |-> x.index + 1, head |-> x.hash]]
    BY <1>2 DEF ReadTail
  <2>2. pc[w] = "read" /\ pc' = [pc EXCEPT ![w] = "insert"] /\ UNCHANGED rows
    BY <1>2 DEF ReadTail
  <2>3. \A y \in rows : y.index <= x.index
    BY DEF Tails, Visible
  <2>4. x.index \in Nat
    BY <1>0 DEF Tails, Visible
  <2>5. TailAhead'
    BY <1>0, <2>1, <2>2, <2>3, <2>4 DEF TailAhead
  <2> QED BY <1>0, <2>2, <2>5 DEF Whose, Unwritten, Opened
<1>3. ASSUME NEW w \in Writers, InsertBare(w) PROVE Whose'
  <2>1. /\ w \notin Locking /\ rows' = rows \cup {NewRow(w)} /\ NewRow(w).event = w
        /\ pc' = [pc EXCEPT ![w] = "done"] /\ UNCHANGED tail
    BY <1>3, NewRowIsRow DEF InsertBare
  <2>2. TailAhead'
    BY <1>0, <2>1 DEF TailAhead
  <2>3. Unwritten'
    BY <1>0, <2>1 DEF Unwritten
  <2> QED BY <1>0, <2>1, <2>2, <2>3 DEF Whose, Opened
<1>4. ASSUME NEW w \in Writers, Commit(w) PROVE Whose'
  <2>1. /\ pc[w] = "commit" /\ rows' = rows \cup pending[w]
        /\ pc' = [pc EXCEPT ![w] = "done"] /\ UNCHANGED tail
    BY <1>4 DEF Commit
  <2>2. w \in Locking /\ lock = w
    BY <1>0, <2>1 DEF Side, BatchSoFar, LockHeld, InTransaction
  <2>3. \A v \in Locking : pc'[v] # "insert"
    BY <1>0, <2>1, <2>2 DEF LockHeld, InTransaction
  <2>4. Unwritten'
    BY <1>0, <2>1 DEF Unwritten
  <2> QED BY <1>0, <2>1, <2>3, <2>4 DEF Whose, TailAhead, Opened
<1>5. ~(EditRow \/ DeleteRow)
  BY DEF EditRow, DeleteRow, NoDamage
<1>6. CASE UNCHANGED vars
  BY <1>0, <1>6 DEF vars, Whose, TailAhead, Unwritten, Opened
<1> QED BY <1>1, <1>2, <1>3, <1>4, <1>5, <1>6 DEF Next, Step

\* All that is known of a chain nobody tampered with.
Clean == damage = NoDamage => IInv /\ Whose

LEMMA CleanAlways == Spec => []Clean
<1>1. Init => Clean
  BY InitIInv, ChainConstants DEF Init, Clean, Whose, TailAhead, Unwritten, Opened, FirstRow, RowOf
<1>2. Typed /\ Side /\ Clean /\ [Next]_vars => Clean'
  BY NextIInv, WhoseStep, DamageStays DEF Clean
<1> QED BY <1>1, <1>2, TypedAlways, SideAlways, PTL DEF Spec

\* Two transactions that hold the row never lose to each other: what refuses one
\* is the row of a bare append.
THEOREM OnlyBareAppendsRefuseAlways == Spec => OnlyBareAppendsRefuse
<1>1. ASSUME Typed, Clean, NEW w \in Locking, damage = NoDamage, Refuse(w)
      PROVE  \E x \in rows : x.index = tail[w].index /\ x.event \notin Locking
  <2>1. PICK x \in rows : x.index = tail[w].index
    BY <1>1 DEF Refuse, Committed
  <2>2. x.event \in Locking => x.index < tail[w].index
    BY <1>1 DEF Clean, Whose, TailAhead, Refuse
  <2>3. x.index \in Nat /\ w \in Writers
    BY <1>1, ChainConstants DEF Typed, TypeOK
  <2> QED BY <2>1, <2>2, <2>3
<1>2. Typed /\ Clean /\ [Next]_vars =>
          [\A w \in Locking : damage = NoDamage /\ Refuse(w) =>
               \E x \in rows : x.index = tail[w].index /\ x.event \notin Locking]_vars
  BY <1>1
<1> QED BY <1>2, TypedAlways, CleanAlways, PTL DEF Spec, OnlyBareAppendsRefuse

-----------------------------------------------------------------------------
(***************************************************************************)
(* The chain implements the log: the table holds the indexes from zero up  *)
(* to the number of its rows, so a batch, whose indexes are the next ones, *)
(* is appended to the log as it is committed to the table.                 *)
(***************************************************************************)

\* No two rows share an index, and none is missing below another.
DenseIn(S) ==
    /\ IsFiniteSet(S)
    /\ \A x \in S : x.index \in Nat
    /\ \A x, y \in S : x.index = y.index => x = y
    /\ \A x \in S : \A k \in Nat : k < x.index => \E y \in S : y.index = k

\* Then the indexes are those below the number of rows.
LEMMA DenseIndexes ==
    ASSUME NEW S, DenseIn(S)
    PROVE  \A k \in Nat : (\E x \in S : x.index = k) <=> k < Cardinality(S)
<1> DEFINE n == Cardinality(S)
           indexes == {x.index : x \in S}
           f == [x \in S |-> x.index]
<1>1. f \in Bijection(S, indexes)
  BY DEF DenseIn, Bijection, Injection, Surjection, IsInjective
<1>2. n \in Nat /\ IsFiniteSet(indexes) /\ Cardinality(indexes) = n
  <2>1. ExistsBijection(S, indexes)
    BY <1>1 DEF ExistsBijection
  <2>2. IsFiniteSet(S)
    BY DEF DenseIn
  <2> HIDE DEF indexes
  <2> QED BY <2>1, <2>2, FS_Bijection, FS_CardinalityType
<1>3. indexes \subseteq Nat /\ \A i \in indexes : \A k \in Nat : k < i => k \in indexes
  BY DEF DenseIn
<1>4. \A k \in Nat : k \in indexes <=> \E x \in S : x.index = k
  OBVIOUS
<1> HIDE DEF indexes, n, f
<1>5. n \notin indexes
  <2> SUFFICES ASSUME n \in indexes PROVE FALSE
    OBVIOUS
  <2>1. 0 .. n \subseteq indexes
    BY <1>2, <1>3
  <2>2. Cardinality(0 .. n) = n + 1
    BY <1>2, FS_Interval
  <2>3. Cardinality(0 .. n) <= n
    BY <1>2, <2>1, FS_Subset
  <2> QED BY <1>2, <2>2, <2>3
<1>6. indexes \subseteq 0 .. (n - 1)
  BY <1>2, <1>3, <1>5
<1>7. IsFiniteSet(0 .. (n - 1)) /\ Cardinality(0 .. (n - 1)) = n
  BY <1>2, FS_Interval
<1>8. indexes = 0 .. (n - 1)
  BY <1>2, <1>6, <1>7, FS_Subset
<1> QED BY <1>2, <1>4, <1>8 DEF n

\* The event of the row at an index, and the log they make.
Entry(S, i) == (CHOOSE x \in S : x.index = i).event
LogOf(S) == [i \in 1..(Cardinality(S) - 1) |-> Entry(S, i)]

LEMMA RowsDense == ASSUME IInv, Finite PROVE DenseIn(rows)
  BY DEF IInv, Finite, RowsLinked, RowsDistinct, LinkedIn, DenseIn

\* A row's entry is its event.
LEMMA EntryIs ==
    ASSUME NEW S, DenseIn(S), NEW x \in S
    PROVE  Entry(S, x.index) = x.event
<1>1. (CHOOSE y \in S : y.index = x.index) = x
  BY DEF DenseIn
<1> QED BY <1>1 DEF Entry

\* A batch of one writer that fills the next indexes is appended to the log.
LEMMA BatchAppended ==
    ASSUME NEW S, NEW A, DenseIn(S), DenseIn(S \cup A), S \cap A = {}, S # {}, IsFiniteSet(A),
           NEW w \in Writers, \A x \in A : x.event = w, Cardinality(A) = Batch[w],
           \A x \in S : x.event \in Events
    PROVE  LogOf(S \cup A) = LogOf(S) \o Log!Batched(w)
<1> DEFINE T == S \cup A
           n == Cardinality(S)
           m == Batch[w]
           s == LogOf(S)
           b == Log!Batched(w)
<1>1. /\ n \in Nat /\ n > 0 /\ m \in Nat /\ Cardinality(T) = n + m
  <2>1. IsFiniteSet(S)
    BY DEF DenseIn
  <2>2. n \in Nat /\ n # 0
    BY <2>1, FS_CardinalityType, FS_EmptySet
  <2>3. Cardinality(T) = n + Cardinality(A) - Cardinality(S \cap A)
    BY <2>1, FS_Union
  <2>4. Cardinality(S \cap A) = 0
    BY FS_EmptySet
  <2>5. m \in Nat
    BY ChainConstants
  <2> QED BY <2>2, <2>3, <2>4, <2>5
<1>2. ASSUME NEW i \in 1 .. (n - 1)
      PROVE  Entry(T, i) = Entry(S, i) /\ Entry(S, i) \in Events
  <2>1. PICK x \in S : x.index = i
    BY <1>1, <1>2, DenseIndexes
  <2>2. Entry(S, i) = x.event
    BY <2>1, EntryIs
  <2>3. x \in T
    OBVIOUS
  <2> HIDE DEF T
  <2>4. Entry(T, i) = x.event
    BY <2>1, <2>3, EntryIs DEF T
  <2> QED BY <2>2, <2>4
<1>3. ASSUME NEW i \in n .. (n + m - 1)
      PROVE  Entry(T, i) = w
  <2>1. PICK x \in T : x.index = i
    BY <1>1, <1>3, DenseIndexes
  <2>2. x \notin S
    <3>1. i \in Nat /\ ~(i < n)
      BY <1>1, <1>3
    <3> QED BY <2>1, <3>1, DenseIndexes
  <2>3. x.event = w
    BY <2>2
  <2> HIDE DEF T
  <2> QED BY <2>1, <2>3, EntryIs DEF T
<1> HIDE DEF T, n
<1>4. s \in Seq(Events) /\ Len(s) = n - 1 /\ \A i \in 1 .. (n - 1) : s[i] = Entry(S, i)
  <2>1. s = [i \in 1 .. (n - 1) |-> Entry(S, i)]
    BY DEF LogOf, n
  <2>2. n - 1 \in Nat
    BY <1>1
  <2> HIDE DEF s
  <2> QED BY <1>2, <2>1, <2>2
<1>5. b \in Seq(Events) /\ Len(b) = m /\ \A i \in 1 .. m : b[i] = w
  <2>1. b = [i \in 1 .. m |-> w]
    BY DEF Log!Batched
  <2>2. w \in Events
    BY DEF Events
  <2> HIDE DEF b, m
  <2> QED BY <1>1, <2>1, <2>2
<1>6. LogOf(T) = [i \in 1 .. (n + m - 1) |-> Entry(T, i)]
  BY <1>1 DEF LogOf
<1> HIDE DEF s, b, m
<1>7. s \o b \in Seq(Events) /\ Len(s \o b) = n - 1 + m
  BY <1>1, <1>4, <1>5
<1>8. \A i \in 1 .. (n + m - 1) : (s \o b)[i] = IF i < n THEN s[i] ELSE b[i - (n - 1)]
  BY <1>1, <1>4, <1>5, <1>7
<1>9. \A i \in 1 .. (n + m - 1) : (s \o b)[i] = Entry(T, i)
  <2> SUFFICES ASSUME NEW i \in 1 .. (n + m - 1) PROVE (s \o b)[i] = Entry(T, i)
    OBVIOUS
  <2>1. CASE i < n
    BY <1>1, <1>2, <1>4, <1>8, <2>1
  <2>2. CASE ~(i < n)
    <3>1. i - (n - 1) \in 1 .. m /\ i \in n .. (n + m - 1)
      BY <1>1, <2>2
    <3>2. (s \o b)[i] = b[i - (n - 1)]
      BY <1>8, <2>2
    <3> QED BY <1>3, <1>5, <3>1, <3>2
  <2> QED BY <2>1, <2>2
<1>10. s \o b = [i \in 1 .. (n + m - 1) |-> (s \o b)[i]]
  <2> DEFINE c == s \o b
  <2>1. c \in [1 .. Len(c) -> Events]
    BY <1>7, LenProperties
  <2>2. Len(c) = n + m - 1
    BY <1>1, <1>7
  <2> HIDE DEF c
  <2>3. c = [i \in 1 .. (n + m - 1) |-> c[i]]
    BY <2>1, <2>2
  <2> QED BY <2>3 DEF c
<1> QED BY <1>6, <1>9, <1>10 DEF T, s, b

\* A writer whose batch reaches the table appends it to the log.
LEMMA BatchReaches ==
    ASSUME Typed, Side, IInv, Whose, damage = NoDamage, damage' = NoDamage, IInv', Finite',
           NEW w \in Writers, pc[w] # "done", NEW A,
           rows' = rows \cup A, rows \cap A = {}, IsFiniteSet(A),
           \A x \in A : x.event = w, Cardinality(A) = Batch[w]
    PROVE  Log!AppendBatch(w)
<1>1. DenseIn(rows) /\ DenseIn(rows')
  <2>1. DenseIn(rows)
    BY RowsDense DEF Side
  <2>2. DenseIn(rows')
    BY DEF IInv, Finite, RowsLinked, RowsDistinct, LinkedIn, DenseIn
  <2> QED BY <2>1, <2>2
<1>2. \A x \in rows : x.event \in Events
  BY DEF Typed, TypeOK
<1>3. LogOf(rows') = LogOf(rows) \o Log!Batched(w)
  BY <1>1, <1>2, BatchAppended DEF Whose, Opened
<1>4. ~ \E i \in DOMAIN LogOf(rows) : LogOf(rows)[i] = w
  <2> SUFFICES ASSUME NEW i \in DOMAIN LogOf(rows) PROVE LogOf(rows)[i] # w
    OBVIOUS
  <2>1. Cardinality(rows) \in Nat
    BY FS_CardinalityType DEF Side, Finite
  <2>2. i \in 1 .. (Cardinality(rows) - 1) /\ LogOf(rows)[i] = Entry(rows, i)
    BY DEF LogOf
  <2>3. PICK x \in rows : x.index = i
    BY <1>1, <2>1, <2>2, DenseIndexes
  <2>4. Entry(rows, i) = x.event
    BY <1>1, <2>3, EntryIs
  <2> QED BY <2>2, <2>3, <2>4 DEF Whose, Unwritten
<1> QED BY <1>3, <1>4 DEF Log!AppendBatch, Log!Appended, LogOf, Entry

LEMMA LogStep == Typed /\ Side /\ Side' /\ Clean /\ Clean' /\ [Next]_vars => [Log!Next]_(Log!vars)
<1> SUFFICES ASSUME Typed, Side, Side', Clean, Clean', [Next]_vars PROVE [Log!Next]_(Log!vars)
  OBVIOUS
<1>1. CASE damage # NoDamage
  <2>1. damage' = damage
    BY <1>1 DEF Next, Step, Begin, ReadTail, Insert, InsertBare, Refuse, Rollback, Commit, Abort,
                EditRow, DeleteRow, vars
  <2> QED BY <1>1, <2>1 DEF Log!vars
<1>2. CASE damage = NoDamage /\ damage' # NoDamage
  BY <1>2 DEF Log!Next, Log!Rewrite
<1>3. CASE damage = NoDamage /\ damage' = NoDamage
  <2>0. IInv /\ Whose /\ IInv' /\ Finite /\ Finite'
    BY <1>3 DEF Clean, Side
  <2>1. ASSUME NEW w \in Writers, Commit(w) PROVE Log!AppendBatch(w)
    <3>1. pc[w] = "commit" /\ rows' = rows \cup pending[w]
      BY <2>1 DEF Commit
    <3>2. rows \cap pending[w] = {}
      BY <2>0 DEF IInv, PendingFresh, Committed
    <3>3. IsFiniteSet(pending[w]) /\ Cardinality(pending[w]) = Batch[w]
      BY <3>1 DEF Side, BatchSoFar, Finite
    <3>4. \A x \in pending[w] : x.event = w
      BY DEF Typed, TypeOK
    <3> QED BY <1>3, <2>0, <3>1, <3>2, <3>3, <3>4, BatchReaches
  <2>2. ASSUME NEW w \in Writers, InsertBare(w) PROVE Log!AppendBatch(w)
    <3>1. /\ pc[w] = "insert" /\ w \notin Locking /\ ~Committed(tail[w].index)
          /\ rows' = rows \cup {NewRow(w)}
      BY <2>2 DEF InsertBare
    <3>2. rows \cap {NewRow(w)} = {}
      BY <3>1 DEF Committed, NewRow, RowOf
    <3>3. IsFiniteSet({NewRow(w)}) /\ Cardinality({NewRow(w)}) = Batch[w]
      BY <3>1, FS_Singleton, ChainConstants
    <3>4. NewRow(w).event = w
      BY NewRowIsRow
    <3> QED BY <1>3, <2>0, <3>1, <3>2, <3>3, <3>4, BatchReaches
  <2>3. ASSUME rows' = rows PROVE UNCHANGED Log!vars
    BY <1>3, <2>3 DEF Log!vars
  <2>4. ASSUME NEW w \in Writers, Begin(w) \/ ReadTail(w) \/ Insert(w) \/ Refuse(w) \/ Abort(w)
        PROVE  rows' = rows
    BY <2>4 DEF Begin, ReadTail, Insert, Refuse, Abort, Rollback
  <2>5. ~(EditRow \/ DeleteRow)
    BY <1>3 DEF EditRow, DeleteRow, NoDamage
  <2>6. CASE UNCHANGED vars
    BY <2>3, <2>6 DEF vars
  <2> QED BY <2>1, <2>2, <2>3, <2>4, <2>5, <2>6 DEF Next, Step, Log!Next
<1> QED BY <1>1, <1>2, <1>3

\* The chain is an append-only log of whole transactions, each of them at most
\* once, for any writers and batches and until somebody tampers with it.
THEOREM ChainKeepsLog == Spec => KeepsLog
<1>1. Init => Log!Init
  <2> SUFFICES ASSUME Init PROVE Log!Init
    OBVIOUS
  <2>1. damage = NoDamage /\ Cardinality(rows) = 1
    BY FS_Singleton DEF Init
  <2> QED BY <2>1 DEF Log!Init
<1>2. Typed /\ Side /\ Side' /\ Clean /\ Clean' /\ [Next]_vars => [Log!Next]_(Log!vars)
  BY LogStep
<1> QED BY <1>1, <1>2, TypedAlways, SideAlways, CleanAlways, PTL DEF Spec, KeepsLog, Log!Spec

-----------------------------------------------------------------------------
(***************************************************************************)
(* Tampering is found, and stays found.  Of a damaged chain it is known    *)
(* what stands below the damage, and what contradicts it at the damage;    *)
(* no append changes either, and the only place an append may still fill   *)
(* is that of a deleted row, by a writer that had read the tail before.    *)
(***************************************************************************)

\* All rows, committed or not.
Everywhere == rows \cup UNION {pending[w] : w \in Writers}

\* A committed row whose index nobody else has.
Fixed(x) == x \in rows /\ \A y \in Everywhere : y.index = x.index => y = x

\* A row that fits its hash, and one that does not.
Wrong(x) == x.hash # Hash(x.prev, x.index, x.event)
Right(x) ==
    /\ ~Wrong(x)
    /\ \/ x.index = 0 /\ x.prev = Genesis
       \/ \E y \in rows : x.index = y.index + 1 /\ x.prev = y.hash

\* The chain below an index.
SoundTo(m) == \A k \in Nat : k < m => \E x \in rows : x.index = k /\ Fixed(x) /\ Right(x)

\* A row that was written into the place of another, before the row z.
Misfits(x, z) == Right(x) /\ z.prev # x.hash

\* z followed the deleted row: whoever takes its place has another hash.
Follower(z) ==
    /\ z.index = damage.at + 1 /\ Fixed(z)
    /\ \A x, y \in Everywhere : x.index = damage.at /\ y.index = damage.at => x = y
    /\ \A x \in Everywhere : x.index = damage.at => Misfits(x, z)
    /\ \A w \in Writers : pc[w] = "insert" /\ tail[w].index = damage.at => Misfits(NewRow(w), z)

Edited == \E x \in rows : x.index = damage.at /\ Fixed(x) /\ Wrong(x)
Deleted == \E z \in rows : Follower(z)

Harm ==
    damage # NoDamage =>
        /\ SoundTo(damage.at)
        /\ \/ damage.how = "edited" /\ Edited
           \/ damage.how = "deleted" /\ Deleted

\* The damage is done to a chain that was whole.
LEMMA EditHarms ==
    ASSUME IInv, Typed, EditRow
    PROVE  Harm'
<1>1. PICK x \in rows : \E y \in Forgeries(x) :
          rows' = (rows \ {x}) \cup {y} /\ damage' = [how |-> "edited", at |-> x.index]
  BY DEF EditRow
<1>2. PICK y \in Forgeries(x) :
          rows' = (rows \ {x}) \cup {y} /\ damage' = [how |-> "edited", at |-> x.index]
  BY <1>1
<1>3. UNCHANGED pending /\ damage'.how = "edited" /\ damage'.at = x.index
  BY <1>2 DEF EditRow
<1>4. \A z \in rows : /\ IsRow(z) /\ z.index \in Nat
                      /\ z.hash = Hash(z.prev, z.index, z.event) /\ LinkedIn(z, rows)
  BY DEF Typed, IsRow, IInv, RowsLinked, LinkedIn
<1>5. y.index = x.index /\ Wrong(y)
  <2>1. ASSUME NEW e \in (Writers \cup {Receipt}) \ {x.event}, y = [x EXCEPT !.event = e]
        PROVE  y.index = x.index /\ Wrong(y)
    BY <1>4, <2>1 DEF IsRow, Wrong, Hash
  <2>2. ASSUME NEW z \in rows, z.hash # x.prev, y = [x EXCEPT !.prev = z.hash]
        PROVE  y.index = x.index /\ Wrong(y)
    BY <1>4, <2>2 DEF IsRow, Wrong, Hash
  <2>3. ASSUME NEW z \in rows \ {x}, y = [x EXCEPT !.hash = z.hash]
        PROVE  y.index = x.index /\ Wrong(y)
    <3>1. z.index # x.index
      BY DEF IInv, RowsDistinct
    <3>2. y.index = x.index /\ y.hash = z.hash
      BY <1>4, <2>3 DEF IsRow
    <3> QED BY <1>4, <3>1, <3>2 DEF Wrong, Hash
  <2> QED BY <2>1, <2>2, <2>3 DEF Forgeries
<1>6. \A z \in Everywhere' : \/ z = y
                             \/ z \in rows /\ z # x
                             \/ \E w \in Writers : z \in pending[w]
  BY <1>2, <1>3 DEF Everywhere
<1>7. Fixed(y)'
  <2> SUFFICES ASSUME NEW z \in Everywhere', z.index = y.index PROVE z = y
    BY <1>2 DEF Fixed
  <2>1. z \notin rows \/ z = x
    BY <1>5 DEF IInv, RowsDistinct
  <2>2. \A w \in Writers : z \notin pending[w]
    BY <1>5 DEF IInv, PendingFresh, Committed
  <2> QED BY <1>6, <2>1, <2>2
<1>8. SoundTo(x.index)'
  <2> SUFFICES ASSUME NEW k \in Nat, k < x.index
               PROVE  \E z \in rows' : z.index = k /\ Fixed(z)' /\ Right(z)'
    BY DEF SoundTo
  <2>1. PICK z \in rows : z.index = k
    BY <1>4 DEF LinkedIn
  <2>2. z \in rows' /\ k # y.index
    BY <1>2, <1>4, <1>5, <2>1
  <2>3. Fixed(z)'
    <3> SUFFICES ASSUME NEW v \in Everywhere', v.index = k PROVE v = z
      BY <2>1, <2>2 DEF Fixed
    <3>1. \A w \in Writers : v \notin pending[w]
      BY <2>1 DEF IInv, PendingFresh, Committed
    <3>2. v \in rows
      BY <1>6, <2>2, <3>1
    <3> QED BY <2>1, <3>2 DEF IInv, RowsDistinct
  <2>4. Right(z)'
    <3>1. CASE z.index = 0 /\ z.prev = Genesis
      BY <1>4, <2>1, <3>1 DEF Right, Wrong
    <3>2. ASSUME NEW v \in rows, z.index = v.index + 1, z.prev = v.hash PROVE Right(z)'
      <4>1. v # x
        BY <1>4, <2>1, <3>2
      <4>2. v \in rows'
        BY <1>2, <4>1
      <4> QED BY <1>4, <2>1, <3>2, <4>2 DEF Right, Wrong
    <3> QED BY <1>4, <2>1, <3>1, <3>2 DEF LinkedIn
  <2> QED BY <2>1, <2>2, <2>3, <2>4
<1> QED BY <1>2, <1>3, <1>5, <1>7, <1>8 DEF Harm, Edited, SoundTo, Wrong

LEMMA DeleteHarms ==
    ASSUME IInv, Typed, Whose, DeleteRow
    PROVE  Harm'
<1>1. PICK x \in rows \ Tails(rows) :
          rows' = rows \ {x} /\ damage' = [how |-> "deleted", at |-> x.index]
  BY DEF DeleteRow
<1>2. UNCHANGED <<pc, tail, pending>> /\ damage'.how = "deleted" /\ damage'.at = x.index
  BY <1>1 DEF DeleteRow
<1>3. \A z \in rows : /\ z.index \in Nat /\ z.hash = Hash(z.prev, z.index, z.event)
                      /\ LinkedIn(z, rows)
  BY DEF IInv, RowsLinked, LinkedIn
<1>4. \A v, z \in rows : v.index = z.index => v = z
  BY DEF IInv, RowsDistinct
<1>5. ASSUME NEW v \in Everywhere', NEW z \in rows, v.index = z.index
      PROVE  v = z /\ v # x
  <2>1. \A w \in Writers : v \notin pending[w]
    BY <1>5 DEF IInv, PendingFresh, Committed
  <2>2. v \in rows'
    BY <1>2, <2>1 DEF Everywhere
  <2> QED BY <1>1, <1>4, <1>5, <2>2
<1>6. ASSUME NEW z \in rows, z # x
      PROVE  Fixed(z)'
  BY <1>1, <1>5, <1>6 DEF Fixed
<1>7. SoundTo(x.index)'
  <2> SUFFICES ASSUME NEW k \in Nat, k < x.index
               PROVE  \E z \in rows' : z.index = k /\ Fixed(z)' /\ Right(z)'
    BY DEF SoundTo
  <2>1. PICK z \in rows : z.index = k
    BY <1>3 DEF LinkedIn
  <2>2. z # x /\ z \in rows'
    BY <1>1, <1>3, <2>1
  <2>3. Right(z)'
    <3>1. CASE z.index = 0 /\ z.prev = Genesis
      BY <1>3, <3>1 DEF Right, Wrong
    <3>2. ASSUME NEW v \in rows, z.index = v.index + 1, z.prev = v.hash PROVE Right(z)'
      <4>1. v \in rows'
        BY <1>1, <1>3, <2>1, <3>2
      <4> QED BY <1>3, <3>2, <4>1 DEF Right, Wrong
    <3> QED BY <1>3, <3>1, <3>2 DEF LinkedIn
  <2> QED BY <1>6, <2>1, <2>2, <2>3
<1>8. PICK z \in rows : z.index = x.index + 1
  <2>1. PICK y \in rows : ~(y.index <= x.index)
    BY DEF Tails
  <2>2. y.index = x.index + 1 \/ x.index + 1 < y.index
    BY <1>3, <2>1
  <2> QED BY <1>3, <2>1, <2>2 DEF LinkedIn
<1>9. z # x /\ z \in rows' /\ z.prev = x.hash
  <2>1. PICK v \in rows : z.index = v.index + 1 /\ z.prev = v.hash
    BY <1>3, <1>8 DEF LinkedIn
  <2>2. v = x
    BY <1>3, <1>4, <1>8, <2>1
  <2> QED BY <1>1, <1>3, <1>8, <2>1, <2>2
<1>10. \A v \in Everywhere' : v.index # x.index
  BY <1>5
<1>11. ASSUME NEW w \in Writers, pc[w] = "insert", tail[w].index = x.index
       PROVE  Misfits(NewRow(w), z)'
  <2>1. PICK y \in Visible(w) : y.index \in Nat /\ tail[w].index = y.index + 1 /\ tail[w].head = y.hash
    BY <1>11 DEF IInv, TailSeen
  <2>2. y.index < x.index
    BY <1>3, <1>11, <2>1
  <2>3. \E v \in rows : v.index = y.index
    BY <1>3, <2>1, <2>2 DEF LinkedIn
  <2>4. y \in rows'
    BY <1>1, <1>3, <2>1, <2>2, <2>3 DEF Visible, IInv, PendingFresh, Committed
  <2>5. x.event # w
    BY <1>11 DEF Whose, Unwritten
  <2>6. /\ NewRow(w).index = x.index /\ NewRow(w).prev = y.hash /\ NewRow(w).event = w
        /\ NewRow(w).hash = Hash(y.hash, x.index, w)
    BY <1>11, <2>1 DEF NewRow, RowOf
  <2>7. NewRow(w)' = NewRow(w)
    BY <1>2 DEF NewRow
  <2>8. z.prev # NewRow(w).hash
    BY <1>3, <1>9, <2>5, <2>6 DEF Hash
  <2> HIDE DEF NewRow
  <2>9. Right(NewRow(w))'
    BY <1>11, <2>1, <2>4, <2>6, <2>7 DEF Right, Wrong
  <2> QED BY <2>7, <2>8, <2>9 DEF Misfits
<1>12. Follower(z)'
  BY <1>2, <1>6, <1>8, <1>9, <1>10, <1>11 DEF Follower
<1> QED BY <1>2, <1>7, <1>9, <1>12 DEF Harm, Deleted, SoundTo

\* What any step does to a damaged chain: rows are only added, at indexes nobody
\* has, by a writer that inserts after the tail it read; and a tail is read
\* beyond all committed rows.
Newcomer(y) ==
    \E w \in Writers :
        /\ pc[w] = "insert" /\ y = NewRow(w)
        /\ \A x \in Everywhere : x.index # y.index

Grown ==
    /\ damage' = damage
    /\ rows \subseteq rows'
    /\ \A y \in Everywhere' : y \in Everywhere \/ Newcomer(y)
    /\ \A x, y \in Everywhere' : x \in Everywhere \/ y \in Everywhere \/ x = y
    /\ \A w \in Writers : pc'[w] = "insert" =>
          \/ pc[w] = "insert" /\ NewRow(w)' = NewRow(w)
          \/ \A z \in rows : z.index < tail'[w].index

LEMMA Grows ==
    ASSUME Typed, damage # NoDamage, [Next]_vars
    PROVE  Grown
<1>0. /\ pc \in [Writers -> Places] /\ tail = [w \in Writers |-> tail[w]]
      /\ pending = [w \in Writers |-> pending[w]]
      /\ \A x \in rows : x.index \in Nat
      /\ \A w \in Writers : \A x \in pending[w] : x.index \in Nat
  BY DEF Typed, TypeOK, IsRow, Places
<1>1. ASSUME UNCHANGED <<rows, tail, damage>>,
             \A w \in Writers : pending'[w] \subseteq pending[w] /\ (pc'[w] = "insert" => pc[w] = "insert")
      PROVE  Grown
  <2>1. Everywhere' \subseteq Everywhere
    BY <1>1 DEF Everywhere
  <2>2. \A w \in Writers : NewRow(w)' = NewRow(w)
    BY <1>1 DEF NewRow
  <2> HIDE DEF Everywhere, NewRow
  <2> QED BY <1>1, <2>1, <2>2 DEF Grown
<1>2. ASSUME NEW w \in Writers, Begin(w) \/ Refuse(w) \/ Abort(w) PROVE Grown
  <2>1. /\ UNCHANGED <<rows, tail, damage>>
        /\ \E place \in {"read", "failed"} : pc' = [pc EXCEPT ![w] = place]
        /\ pending' = pending \/ pending' = [pending EXCEPT ![w] = {}]
    BY <1>2 DEF Begin, Refuse, Abort, Rollback
  <2> QED BY <1>0, <1>1, <2>1
<1>3. ASSUME NEW w \in Writers, ReadTail(w) PROVE Grown
  <2>1. PICK x \in Tails(Visible(w)) : tail' = [tail EXCEPT ![w] = [index |-> x.index + 1, head |-> x.hash]]
    BY <1>3 DEF ReadTail
  <2>2. pc' = [pc EXCEPT ![w] = "insert"] /\ UNCHANGED <<rows, pending, damage>>
    BY <1>3 DEF ReadTail
  <2>3. x.index \in Nat /\ \A z \in rows : z.index <= x.index
    BY <1>0 DEF Tails, Visible
  <2>4. tail'[w].index = x.index + 1
    BY <1>0, <2>1
  <2>5. \A z \in rows : z.index < tail'[w].index
    BY <1>0, <2>3, <2>4
  <2>6. \A v \in Writers : v # w => pc'[v] = pc[v] /\ NewRow(v)' = NewRow(v)
    BY <1>0, <2>1, <2>2 DEF NewRow
  <2>7. Everywhere' = Everywhere
    BY <2>2 DEF Everywhere
  <2> HIDE DEF Everywhere, NewRow
  <2> QED BY <2>2, <2>5, <2>6, <2>7 DEF Grown
<1>4. ASSUME NEW w \in Writers, Insert(w) \/ InsertBare(w) PROVE Grown
  <2>1. /\ pc[w] = "insert" /\ ~Committed(tail[w].index) /\ ~Awaited(tail[w].index)
        /\ \E place \in {"read", "commit", "done"} : pc' = [pc EXCEPT ![w] = place]
        /\ UNCHANGED <<tail, damage>>
    BY <1>4 DEF Insert, InsertBare
  <2>2. \/ UNCHANGED rows /\ pending' = [pending EXCEPT ![w] = @ \cup {NewRow(w)}]
        \/ UNCHANGED pending /\ rows' = rows \cup {NewRow(w)}
    BY <1>4 DEF Insert, InsertBare
  <2>3. NewRow(w).index = tail[w].index
    BY DEF NewRow, RowOf
  <2>4. \A x \in Everywhere : x.index # NewRow(w).index
    BY <2>1, <2>3 DEF Everywhere, Committed, Awaited
  <2>5. rows \subseteq rows' /\ \A y \in Everywhere' : y \in Everywhere \/ y = NewRow(w)
    BY <1>0, <2>2 DEF Everywhere
  <2>6. \A v \in Writers : NewRow(v)' = NewRow(v) /\ (pc'[v] = "insert" => pc[v] = "insert")
    BY <1>0, <2>1 DEF NewRow
  <2> HIDE DEF Everywhere, NewRow
  <2>7. Newcomer(NewRow(w))
    BY <2>1, <2>4 DEF Newcomer
  <2> QED BY <2>1, <2>5, <2>6, <2>7 DEF Grown
<1>5. ASSUME NEW w \in Writers, Commit(w) PROVE Grown
  <2>1. /\ rows' = rows \cup pending[w] /\ pending' = [pending EXCEPT ![w] = {}]
        /\ pc' = [pc EXCEPT ![w] = "done"] /\ UNCHANGED <<tail, damage>>
    BY <1>5 DEF Commit
  <2>2. Everywhere' \subseteq Everywhere /\ rows \subseteq rows'
    BY <1>0, <2>1 DEF Everywhere
  <2>3. \A v \in Writers : NewRow(v)' = NewRow(v) /\ (pc'[v] = "insert" => pc[v] = "insert")
    BY <1>0, <2>1 DEF NewRow
  <2> HIDE DEF Everywhere, NewRow
  <2> QED BY <2>1, <2>2, <2>3 DEF Grown
<1>6. ~(EditRow \/ DeleteRow)
  BY DEF EditRow, DeleteRow
<1>7. CASE UNCHANGED vars
  BY <1>1, <1>7 DEF vars
<1> QED BY <1>2, <1>3, <1>4, <1>5, <1>6, <1>7 DEF Next, Step

\* A row that is right, and the one row of its index, stays so.
LEMMA RightStays ==
    ASSUME Grown, NEW x, Right(x)
    PROVE  Right(x)'
  BY DEF Grown, Right, Wrong

LEMMA FixedStays ==
    ASSUME Grown, NEW x, Fixed(x)
    PROVE  Fixed(x)'
<1>1. x \in rows' /\ x \in Everywhere
  BY DEF Grown, Fixed, Everywhere
<1> QED BY <1>1 DEF Grown, Fixed, Newcomer

\* The damage is still there after any step of any writer.
LEMMA HarmKept ==
    ASSUME Typed, Harm, damage # NoDamage, [Next]_vars
    PROVE  Harm'
<1>0. Grown /\ damage' = damage /\ rows \subseteq rows'
  BY Grows DEF Grown
<1>1. SoundTo(damage.at)'
  BY <1>0, RightStays, FixedStays DEF Harm, SoundTo
<1>2. CASE damage.how = "edited" /\ Edited
  <2>1. PICK x \in rows : x.index = damage.at /\ Fixed(x) /\ Wrong(x)
    BY <1>2 DEF Edited
  <2>2. Fixed(x)' /\ Wrong(x)' /\ x \in rows'
    BY <1>0, <2>1, FixedStays DEF Wrong
  <2> QED BY <1>0, <1>1, <1>2, <2>1, <2>2 DEF Harm, Edited
<1>3. CASE damage.how = "deleted" /\ Deleted
  <2>1. PICK z \in rows : Follower(z)
    BY <1>3 DEF Deleted
  <2>2. z.index = damage.at + 1 /\ Fixed(z)' /\ z \in rows' /\ damage.at \in Nat
    BY <1>0, <2>1, FixedStays DEF Follower, Typed, TypeOK
  <2>3. \A x : Misfits(x, z) => Misfits(x, z)'
    BY <1>0, RightStays DEF Misfits
  <2>4. \A x \in Everywhere' : x.index = damage.at => Misfits(x, z)'
    <3> SUFFICES ASSUME NEW x \in Everywhere', x.index = damage.at PROVE Misfits(x, z)'
      OBVIOUS
    <3>1. CASE x \in Everywhere
      BY <2>1, <2>3, <3>1 DEF Follower
    <3>2. CASE Newcomer(x)
      <4>1. PICK w \in Writers : pc[w] = "insert" /\ x = NewRow(w)
        BY <3>2 DEF Newcomer
      <4>2. tail[w].index = damage.at
        BY <4>1 DEF NewRow, RowOf
      <4> QED BY <2>1, <2>3, <4>1, <4>2 DEF Follower
    <3> QED BY <1>0, <3>1, <3>2 DEF Grown
  <2>5. \A x, y \in Everywhere' : x.index = damage.at /\ y.index = damage.at => x = y
    BY <1>0, <2>1 DEF Grown, Follower, Newcomer
  <2>6. ASSUME NEW w \in Writers, pc'[w] = "insert", tail'[w].index = damage.at
        PROVE  Misfits(NewRow(w), z)'
    <3>1. pc[w] = "insert" /\ NewRow(w)' = NewRow(w)
      <4>1. ~(z.index < tail'[w].index)
        BY <2>2, <2>6
      <4> QED BY <1>0, <2>6, <4>1 DEF Grown
    <3>2. NewRow(w)'.index = tail'[w].index /\ NewRow(w).index = tail[w].index
      BY DEF NewRow, RowOf
    <3>3. Misfits(NewRow(w), z)
      BY <2>1, <2>6, <3>1, <3>2 DEF Follower
    <3> HIDE DEF NewRow
    <3> QED BY <2>3, <3>1, <3>3 DEF Misfits
  <2> QED BY <1>0, <1>1, <1>3, <2>2, <2>4, <2>5, <2>6 DEF Harm, Deleted, Follower
<1> QED BY <1>2, <1>3 DEF Harm

LEMMA HarmAlways == Spec => []Harm
<1>1. Init => Harm
  BY DEF Init, Harm
<1>2. Typed /\ Clean /\ Harm /\ [Next]_vars => Harm'
  <2> SUFFICES ASSUME Typed, Clean, Harm, [Next]_vars PROVE Harm'
    OBVIOUS
  <2>1. CASE damage # NoDamage
    BY <2>1, HarmKept
  <2>2. CASE damage = NoDamage /\ damage' # NoDamage
    <3>1. EditRow \/ DeleteRow
      BY <2>2 DEF Next, Step, Begin, ReadTail, Insert, InsertBare, Refuse, Commit, Abort, Rollback, vars
    <3> QED BY <2>2, <3>1, EditHarms, DeleteHarms DEF Clean
  <2>3. CASE damage' = NoDamage
    BY <2>3 DEF Harm
  <2> QED BY <2>1, <2>2, <2>3
<1> QED BY <1>1, <1>2, TypedAlways, CleanAlways, PTL DEF Spec

-----------------------------------------------------------------------------
(***************************************************************************)
(* What verifyAuditChain reports of such a chain: it accepts every row     *)
(* below an index the chain is sound to, and stops at the first it rejects.*)
(***************************************************************************)
Lower(m) == {y \in rows : y.index < m}

\* A sound chain has as many rows below an index as the index says.
LEMMA LowerCount ==
    ASSUME Typed, Finite, NEW m \in Nat, SoundTo(m)
    PROVE  IsFiniteSet(Lower(m)) /\ Cardinality(Lower(m)) = m
<1>1. IsFiniteSet(Lower(m))
  BY FS_Subset DEF Finite, Lower
<1>2. \A y \in rows : y.index \in Nat
  BY DEF Typed, IsRow
<1>3. \A k \in Nat : k < m <=> \E y \in Lower(m) : y.index = k
  BY <1>2 DEF SoundTo, Lower
<1>4. \A x, y \in Lower(m) : x.index = y.index => x = y
  <2> SUFFICES ASSUME NEW x \in Lower(m), NEW y \in Lower(m), x.index = y.index PROVE x = y
    OBVIOUS
  <2>1. PICK v \in rows : v.index = x.index /\ Fixed(v)
    BY <1>2 DEF SoundTo, Lower
  <2>2. x \in Everywhere /\ y \in Everywhere
    BY DEF Lower, Everywhere
  <2> QED BY <2>1, <2>2 DEF Fixed
<1>5. DenseIn(Lower(m))
  <2>1. \A x \in Lower(m) : x.index \in Nat /\ x.index < m
    BY <1>2 DEF Lower
  <2>2. \A x \in Lower(m) : \A k \in Nat : k < x.index => k < m
    BY <2>1
  <2> HIDE DEF Lower
  <2> QED BY <1>1, <1>3, <1>4, <2>1, <2>2 DEF DenseIn
<1>6. \A k \in Nat : k < m <=> k < Cardinality(Lower(m))
  BY <1>3, <1>5, DenseIndexes
<1>7. Cardinality(Lower(m)) \in Nat
  BY <1>1, FS_CardinalityType
<1>8. Cardinality(Lower(m)) = m
  <2>1. ~(m < Cardinality(Lower(m))) /\ ~(Cardinality(Lower(m)) < m)
    BY <1>6, <1>7
  <2> QED BY <1>7, <2>1
<1> QED BY <1>1, <1>8

\* Soundness at an index is soundness below it.
LEMMA SoundBelow ==
    ASSUME NEW m \in Nat, SoundTo(m), NEW k \in Nat, k <= m
    PROVE  SoundTo(k)
  BY DEF SoundTo

\* The row just below m is what the verifier expects the next one to name.
LEMMA ExpectedAfter ==
    ASSUME Typed, NEW x \in rows, NEW y \in rows, Fixed(y), y.index < x.index,
           \A v \in rows : v.index < x.index => v.index <= y.index
    PROVE  ExpectedPrev(x) = y.hash
<1>1. \A v \in rows : v.index \in Nat /\ v \in Everywhere
  BY DEF Typed, IsRow, Everywhere
<1>2. y \in Tails(Before(x)) /\ Before(x) # {}
  BY <1>1 DEF Tails, Before
<1>3. \A v \in Tails(Before(x)) : v = y
  BY <1>1, <1>2 DEF Tails, Before, Fixed
<1> QED BY <1>2, <1>3 DEF ExpectedPrev

\* Below the index the chain is sound to, the verifier accepts every row.
LEMMA SoundAccepted ==
    ASSUME Typed, Finite, NEW m \in Nat, SoundTo(m), NEW x \in rows, x.index < m
    PROVE  ~Broken(x)
<1>1. \A v \in rows : v.index \in Nat /\ v \in Everywhere
  BY DEF Typed, IsRow, Everywhere
<1>2. Fixed(x) /\ Right(x)
  <2>1. PICK v \in rows : v.index = x.index /\ Fixed(v) /\ Right(v)
    BY <1>1 DEF SoundTo
  <2> QED BY <1>1, <2>1 DEF Fixed
<1>3. Position(x) = x.index
  <2>1. SoundTo(x.index) /\ Before(x) = Lower(x.index)
    BY <1>1, SoundBelow DEF Before, Lower
  <2> QED BY <1>1, <2>1, LowerCount DEF Position
<1>4. ExpectedPrev(x) = x.prev
  <2>1. CASE x.index = 0 /\ x.prev = Genesis
    <3>1. Before(x) = {}
      BY <1>1, <2>1 DEF Before
    <3> QED BY <2>1, <3>1 DEF ExpectedPrev
  <2>2. ASSUME NEW y \in rows, x.index = y.index + 1, x.prev = y.hash PROVE ExpectedPrev(x) = x.prev
    <3>1. PICK v \in rows : v.index = y.index /\ Fixed(v)
      BY <1>1, <2>2 DEF SoundTo
    <3>2. Fixed(y)
      BY <1>1, <3>1 DEF Fixed
    <3>3. y.index < x.index /\ \A u \in rows : u.index < x.index => u.index <= y.index
      BY <1>1, <2>2
    <3> QED BY <2>2, <3>2, <3>3, ExpectedAfter
  <2> QED BY <1>2, <2>1, <2>2 DEF Right
<1> QED BY <1>2, <1>3, <1>4 DEF Broken, Right, Wrong

\* The verifier reports the first row it rejects: the one that follows the
\* sound part of the chain.
LEMMA FirstBroken ==
    ASSUME Typed, Finite, NEW m \in Nat, SoundTo(m), NEW z \in rows,
           Before(z) = Lower(m), Broken(z)
    PROVE  ~Intact /\ BrokenAt = m
<1> DEFINE places == {Position(x) : x \in {y \in rows : Broken(y)}}
<1>1. Position(z) = m
  BY LowerCount DEF Position
<1>2. ASSUME NEW x \in rows, Broken(x) PROVE Position(x) \in Nat /\ m <= Position(x)
  <2>1. x.index \in Nat /\ ~(x.index < m)
    BY <1>2, SoundAccepted DEF Typed, IsRow
  <2>2. Lower(m) \subseteq Before(x)
    BY <2>1 DEF Lower, Before, Typed, IsRow
  <2>3. IsFiniteSet(Before(x))
    BY FS_Subset DEF Finite, Before
  <2>4. Cardinality(Lower(m)) <= Cardinality(Before(x)) /\ Cardinality(Before(x)) \in Nat
    BY <2>2, <2>3, FS_Subset, FS_CardinalityType
  <2> QED BY <2>4, LowerCount DEF Position
<1>3. m \in places /\ \A p \in places : p \in Nat /\ m <= p
  BY <1>1, <1>2
<1> HIDE DEF places
<1>4. Min(places) = m
  <2>1. m \in places /\ \A y \in places : m <= y
    BY <1>3
  <2>2. Min(places) \in places /\ \A y \in places : Min(places) <= y
    BY <2>1, Zenon DEF Min
  <2>3. Min(places) \in Nat /\ m <= Min(places) /\ Min(places) <= m
    BY <1>3, <2>2
  <2> HIDE DEF Min
  <2> QED BY <2>3
<1> QED BY <1>4 DEF Intact, BrokenAt, places

\* verifyAuditChain names the row that was edited, or the place of the one that
\* was deleted, whatever is appended to the chain afterwards.
THEOREM EditIsFoundAlways == Spec => []EditIsFound
<1>1. Typed /\ Side /\ Harm => EditIsFound
  <2> SUFFICES ASSUME Typed, Side, Harm, damage # NoDamage
               PROVE  /\ ~Intact
                      /\ BrokenAt = damage.at + (IF damage.how = "deleted" /\ Committed(damage.at) THEN 1 ELSE 0)
    BY DEF EditIsFound
  <2>0. /\ Finite /\ damage.at \in Nat /\ damage.at + 1 \in Nat /\ SoundTo(damage.at)
        /\ \A v \in rows : v.index \in Nat /\ v \in Everywhere
    BY DEF Side, Typed, TypeOK, IsRow, Harm, Everywhere
  <2>1. CASE damage.how = "edited" /\ Edited
    <3>1. PICK x \in rows : x.index = damage.at /\ Wrong(x)
      BY <2>1 DEF Edited
    <3>2. Broken(x) /\ Before(x) = Lower(damage.at)
      BY <3>1 DEF Broken, Wrong, Before, Lower
    <3> QED BY <2>0, <2>1, <3>2, FirstBroken
  <2>2. CASE damage.how = "deleted" /\ Deleted
    <3>1. PICK z \in rows : Follower(z)
      BY <2>2 DEF Deleted
    <3>2. z.index = damage.at + 1
      BY <3>1 DEF Follower
    <3>3. CASE ~Committed(damage.at)
      <4>1. Before(z) = Lower(damage.at)
        BY <2>0, <3>2, <3>3 DEF Before, Lower, Committed
      <4>2. Position(z) = damage.at
        BY <2>0, <4>1, LowerCount DEF Position
      <4>3. Broken(z)
        BY <2>0, <3>2, <4>2 DEF Broken
      <4> QED BY <2>0, <3>3, <4>1, <4>3, FirstBroken
    <3>4. CASE Committed(damage.at)
      <4>1. PICK x \in rows : x.index = damage.at
        BY <3>4 DEF Committed
      <4>2. Fixed(x) /\ Right(x) /\ z.prev # x.hash
        BY <2>0, <3>1, <4>1 DEF Follower, Fixed, Misfits
      <4>3. SoundTo(damage.at + 1)
        <5> SUFFICES ASSUME NEW k \in Nat, k < damage.at + 1
                     PROVE  \E y \in rows : y.index = k /\ Fixed(y) /\ Right(y)
          BY DEF SoundTo
        <5>1. k < damage.at \/ k = damage.at
          BY <2>0
        <5> QED BY <2>0, <4>1, <4>2, <5>1 DEF SoundTo
      <4>4. Before(z) = Lower(damage.at + 1)
        BY <3>2 DEF Before, Lower
      <4>5. x.index < z.index /\ \A v \in rows : v.index < z.index => v.index <= x.index
        BY <2>0, <3>2, <4>1
      <4>6. ExpectedPrev(z) = x.hash
        BY <4>2, <4>5, ExpectedAfter
      <4>7. Broken(z)
        BY <4>2, <4>6 DEF Broken
      <4> QED BY <2>0, <2>2, <3>4, <4>3, <4>4, <4>7, FirstBroken
    <3> QED BY <3>3, <3>4
  <2> QED BY <2>1, <2>2 DEF Harm
<1> QED BY <1>1, TypedAlways, SideAlways, HarmAlways, PTL DEF Spec
=============================================================================
