----------------------------- MODULE BootProofs -----------------------------
(***************************************************************************)
(* Whatever instances and images there are: a migrator that is up finds    *)
(* its files applied, no boot fails because another one migrated, and the  *)
(* schema has the history that SchemaHistory promises.                     *)
(***************************************************************************)
EXTENDS Boot, FiniteSetTheorems, SequenceTheorems, TLAPS

\* The stages at which an instance is inside its migration.
Holding == {"reading", "applying"}

\* One migration at a time.
Locked == \A i \in Instances : pc[i] \in Holding => lock = i

\* Only an open transaction has anything pending.
NothingLeft == \A i \in Instances : pc[i] # "applying" => pending[i] = <<>>

\* What the holder read is still what is committed; what it has passed is there,
\* committed or by itself.
HolderKnows ==
    \A i \in Instances : pc[i] = "applying" =>
        /\ i \in Migrates
        /\ known[i] = ledger
        /\ todo[i] \subseteq DOMAIN Image[i]
        /\ \A f \in DOMAIN Image[i] \ todo[i] : Row(i, f) \in ledger \/ Row(i, f) \in Done(i)

\* Only those that migrate come to the migration, only when up is a sweeper on.
Roles ==
    /\ \A i \in Instances : pc[i] \in {"locking", "reading"} => i \in Migrates
    /\ \A i \in Instances : sweeping[i] => pc[i] \in Up

\* A boot never fails because somebody else applied its files.
NobodyConflicts == \A i \in Instances : exit[i] # "conflict"

IInv ==
    /\ TypeOK
    /\ Locked /\ NothingLeft /\ HolderKnows /\ Roles
    /\ ServesItsSchema /\ NobodyConflicts

-----------------------------------------------------------------------------
\* Nothing runs and nothing is applied at first.
LEMMA InitIInv == Init => IInv
  BY SMT, BootConstants DEF Init, IInv, TypeOK, Stages, Exits, Faults, Locked, NothingLeft,
     HolderKnows, Roles, ServesItsSchema, NobodyConflicts, Up, Holding

\* What an instance's files are, is among the rows there can be.
LEMMA RowsAreRows ==
    ASSUME NEW i \in Instances, NEW f \in DOMAIN Image[i]
    PROVE  Row(i, f) \in AllRows /\ Row(i, f) \in RowsOf(i)
  BY DEF AllRows, RowsOf

\* A process that ends leaves the invariant as it is, whatever it was at.
LEMMA ExitIInv ==
    ASSUME IInv, NEW i \in Instances, NEW why \in Exits \ {"conflict"}, Exit(i, why), UNCHANGED database
    PROVE  IInv'
<1> USE DEF IInv
<1>1. /\ pc' = [pc EXCEPT ![i] = "down"] /\ exit' = [exit EXCEPT ![i] = why]
      /\ lock' = (IF lock = i THEN Nobody ELSE lock)
      /\ known' = [known EXCEPT ![i] = {}] /\ todo' = [todo EXCEPT ![i] = {}]
      /\ pending' = [pending EXCEPT ![i] = <<>>] /\ sweeping' = [sweeping EXCEPT ![i] = FALSE]
      /\ ledger' = ledger /\ schema' = schema
  BY DEF Exit, Goto, Unlocked, database
<1>2. TypeOK'
  <2>1. <<>> \in Seq(AllRows) /\ {} \in SUBSET AllRows /\ {} \in SUBSET Nat
    BY EmptySeq
  <2> QED BY <1>1, <2>1 DEF TypeOK, Stages
<1>3. /\ pc'[i] = "down" /\ exit'[i] = why /\ pending'[i] = <<>> /\ sweeping'[i] = FALSE
      /\ \A j \in Instances : j # i =>
            /\ pc'[j] = pc[j] /\ exit'[j] = exit[j] /\ pending'[j] = pending[j]
            /\ known'[j] = known[j] /\ todo'[j] = todo[j] /\ sweeping'[j] = sweeping[j]
  BY <1>1 DEF TypeOK
<1>4. Locked'
  BY <1>1, <1>3 DEF Locked, Holding
<1>5. NothingLeft' /\ NobodyConflicts'
  BY <1>3 DEF NothingLeft, NobodyConflicts
<1>6. HolderKnows'
  BY <1>1, <1>3 DEF HolderKnows, Done
<1>7. Roles' /\ ServesItsSchema'
  BY <1>1, <1>3, BootConstants DEF Roles, ServesItsSchema, Up
<1> QED BY <1>2, <1>4, <1>5, <1>6, <1>7

\* Steps that move one instance between stages and touch neither the database,
\* nor the lock, nor an open transaction.
LEMMA MoveIInv ==
    ASSUME IInv, NEW i \in Instances, NEW stage \in Stages \ Holding,
           pc[i] # "applying", pc' = [pc EXCEPT ![i] = stage],
           stage \in Up => pc[i] \in Up \/ i \notin Migrates,
           stage = "locking" => i \in Migrates,
           stage \notin Up => ~ sweeping'[i],
           \/ UNCHANGED sweeping
           \/ \E b \in BOOLEAN : sweeping' = [sweeping EXCEPT ![i] = b],
           \/ UNCHANGED exit
           \/ exit' = [exit EXCEPT ![i] = "none"],
           UNCHANGED <<database, lock, known, todo, pending>>
    PROVE  IInv'
<1> USE DEF IInv
<1>1. ledger' = ledger /\ schema' = schema /\ lock' = lock /\ known' = known /\ todo' = todo /\ pending' = pending
  BY DEF database
<1>2. /\ sweeping' \in [Instances -> BOOLEAN] /\ exit' \in [Instances -> Exits] /\ pc' \in [Instances -> Stages]
      /\ \A j \in Instances : j # i => sweeping'[j] = sweeping[j]
      /\ exit'[i] \in {exit[i], "none"} /\ \A j \in Instances : j # i => exit'[j] = exit[j]
  BY DEF TypeOK, Exits
<1>3. pc'[i] = stage /\ \A j \in Instances : j # i => pc'[j] = pc[j]
  BY DEF TypeOK
<1>4. stage \notin {"applying", "reading"}
  BY DEF Holding
<1>5. TypeOK'
  BY <1>1, <1>2 DEF TypeOK
<1>6. Locked' /\ NothingLeft' /\ HolderKnows' /\ NobodyConflicts'
  BY <1>1, <1>2, <1>3, <1>4 DEF Locked, Holding, NothingLeft, HolderKnows, NobodyConflicts, Done
<1>7. Roles' /\ ServesItsSchema'
  BY <1>1, <1>2, <1>3, <1>4, BootConstants DEF Roles, ServesItsSchema
<1> QED BY <1>5, <1>6, <1>7

-----------------------------------------------------------------------------
\* The lock is taken by one that migrates.
LEMMA TakeLockIInv == ASSUME IInv, NEW i \in Instances, TakeLock(i) PROVE IInv'
<1> USE DEF IInv, TakeLock, Goto, database
<1>1. pc'[i] = "reading" /\ \A j \in Instances : j # i => pc'[j] = pc[j] /\ pc[j] \notin Holding
  BY BootConstants DEF TypeOK, Locked
<1>2. TypeOK' /\ Locked' /\ NothingLeft' /\ NobodyConflicts'
  BY <1>1 DEF TypeOK, Stages, Locked, NothingLeft, NobodyConflicts, Holding
<1>3. HolderKnows' /\ Roles' /\ ServesItsSchema'
  BY <1>1, BootConstants DEF HolderKnows, Roles, ServesItsSchema, Up, Holding
<1> QED BY <1>2, <1>3

\* The ledger is read under the lock.
LEMMA ReadLedgerIInv == ASSUME IInv, NEW i \in Instances, ReadLedger(i) PROVE IInv'
<1> USE DEF IInv, ReadLedger, Goto, database
<1>1. /\ pc[i] = "reading" /\ pc'[i] = "applying" /\ known'[i] = ledger /\ todo'[i] = DOMAIN Image[i]
      /\ \A j \in Instances : j # i => pc'[j] = pc[j] /\ known'[j] = known[j] /\ todo'[j] = todo[j]
      /\ UNCHANGED <<ledger, schema, lock, pending, sweeping, exit>>
  BY DEF TypeOK
<1>2. TypeOK'
  BY BootConstants DEF TypeOK, Stages
<1>3. Locked' /\ NothingLeft' /\ NobodyConflicts'
  BY <1>1 DEF Locked, NothingLeft, NobodyConflicts, Holding
<1>4. HolderKnows'
  BY <1>1 DEF HolderKnows, Roles, Done
<1>5. Roles' /\ ServesItsSchema'
  BY <1>1, BootConstants DEF Roles, ServesItsSchema, Up
<1> QED BY <1>2, <1>3, <1>4, <1>5

\* A file that is on the ledger is passed over.
LEMMA SkipIInv == ASSUME IInv, NEW i \in Instances, NEW f \in todo[i], Skip(i, f) PROVE IInv'
<1> USE DEF IInv, Skip, At, database
<1>1. /\ pc[i] = "applying" /\ todo'[i] = todo[i] \ {f} /\ Row(i, f) \in ledger
      /\ \A j \in Instances : j # i => todo'[j] = todo[j]
      /\ UNCHANGED <<ledger, schema, lock, pc, known, pending, sweeping, exit>>
  BY DEF TypeOK, HolderKnows
<1>2. TypeOK'
  BY DEF TypeOK
<1>3. HolderKnows'
  BY <1>1 DEF HolderKnows, Done
<1>4. Locked' /\ NothingLeft' /\ NobodyConflicts' /\ Roles' /\ ServesItsSchema'
  BY <1>1 DEF Locked, NothingLeft, NobodyConflicts, Roles, ServesItsSchema
<1> QED BY <1>2, <1>3, <1>4

\* A file that is not on the ledger is applied: under the lock nobody else can
\* have added it.
LEMMA ApplyIInv == ASSUME IInv, NEW i \in Instances, NEW f \in todo[i], Apply(i, f) PROVE IInv'
<1> USE DEF IInv
<1>1. pc[i] = "applying" /\ f \notin Files(ledger) /\ f \in DOMAIN Image[i]
  BY DEF Apply, At, HolderKnows
<1>2. /\ pending' = [pending EXCEPT ![i] = Append(@, Row(i, f))]
      /\ todo' = [todo EXCEPT ![i] = @ \ {f}]
      /\ UNCHANGED <<ledger, schema, lock, pc, known, sweeping, exit>>
  BY <1>1 DEF Apply, database
<1>3. pending[i] \in Seq(AllRows) /\ Row(i, f) \in AllRows
  BY <1>1, RowsAreRows DEF TypeOK
<1>4. /\ pending'[i] = Append(pending[i], Row(i, f)) /\ todo'[i] = todo[i] \ {f}
      /\ \A j \in Instances : j # i => pending'[j] = pending[j] /\ todo'[j] = todo[j]
  BY <1>2 DEF TypeOK
<1>5. Done(i)' = Done(i) \cup {Row(i, f)}
  <2>1. /\ Append(pending[i], Row(i, f)) \in Seq(AllRows)
        /\ Len(Append(pending[i], Row(i, f))) = Len(pending[i]) + 1
        /\ \A k \in 1 .. Len(pending[i]) : Append(pending[i], Row(i, f))[k] = pending[i][k]
        /\ Append(pending[i], Row(i, f))[Len(pending[i]) + 1] = Row(i, f)
    BY <1>3, AppendProperties
  <2>2. Len(pending[i]) \in Nat /\ DOMAIN pending[i] = 1 .. Len(pending[i])
        /\ DOMAIN (pending'[i]) = 1 .. (Len(pending[i]) + 1)
    BY <1>3, <1>4, <2>1, LenProperties
  <2>3. \A k \in 1 .. (Len(pending[i]) + 1) : k \in 1 .. Len(pending[i]) \/ k = Len(pending[i]) + 1
    BY <2>2
  <2>4. Done(i)' = {pending'[i][k] : k \in DOMAIN (pending'[i])}
    BY DEF Done
  <2> QED BY <1>4, <2>1, <2>2, <2>3, <2>4 DEF Done
<1>6. TypeOK'
  <2>1. pending' \in [Instances -> Seq(AllRows)]
    BY <1>2, <1>3, AppendProperties DEF TypeOK
  <2> QED BY <1>2, <2>1 DEF TypeOK
<1>7. HolderKnows'
  <2> SUFFICES ASSUME NEW j \in Instances, pc[j] = "applying"
               PROVE  /\ j \in Migrates /\ known[j] = ledger /\ todo'[j] \subseteq DOMAIN Image[j]
                      /\ \A g \in DOMAIN Image[j] \ todo'[j] : Row(j, g) \in ledger \/ Row(j, g) \in Done(j)'
    BY <1>2 DEF HolderKnows, Row
  <2>1. j = i
    BY <1>1 DEF Locked, Holding
  <2> QED BY <1>4, <1>5, <2>1 DEF HolderKnows
<1>8. Locked' /\ NothingLeft' /\ NobodyConflicts' /\ Roles' /\ ServesItsSchema'
  BY <1>1, <1>2, <1>4 DEF Locked, NothingLeft, NobodyConflicts, Roles, ServesItsSchema
<1> QED BY <1>6, <1>7, <1>8

\* What is committed stays committed, and the committer finds all its files there.
LEMMA CommitIInv == ASSUME IInv, NEW i \in Instances, Commit(i) PROVE IInv'
<1> USE DEF IInv
<1>1. pc[i] = "applying" /\ todo[i] = {} /\ ledger' = ledger \cup Done(i) /\ schema' = schema \o pending[i]
  BY DEF Commit
<1>2. \A j \in Instances : j # i => pc[j] \notin Holding
  BY <1>1 DEF Locked, Holding
<1>3. lock' = Nobody /\ pc'[i] \in {"down", "policy"} /\ pc' \in [Instances -> Stages]
      /\ pending' = [pending EXCEPT ![i] = <<>>] /\ known' = [known EXCEPT ![i] = {}]
      /\ \A j \in Instances : j # i => pc'[j] = pc[j]
  BY <1>1 DEF Commit, Exit, Goto, Unlocked, Locked, Holding, TypeOK, Stages
<1>a. todo' \in [Instances -> SUBSET Nat]
  BY DEF Commit, Exit, TypeOK
<1>b. sweeping' \in [Instances -> BOOLEAN] /\ \A j \in Instances : sweeping'[j] => sweeping[j]
  BY DEF Commit, Exit, TypeOK
<1>c. exit' \in [Instances -> Exits] /\ \A j \in Instances : exit'[j] \in {exit[j], "done", "migration"}
  BY DEF Commit, Exit, TypeOK, Exits, Faults
<1>d. ~ sweeping'[i]
  BY <1>1, <1>b DEF Roles, Up
<1>4. pending'[i] = <<>> /\ \A j \in Instances : j # i => pending'[j] = pending[j]
  BY <1>3 DEF TypeOK
<1>5. Done(i) \subseteq AllRows /\ pending[i] \in Seq(AllRows)
  <2>1. pending[i] \in Seq(AllRows)
    BY DEF TypeOK
  <2>2. DOMAIN pending[i] = 1 .. Len(pending[i])
    BY <2>1, LenProperties
  <2> QED BY <2>1, <2>2, ElementOfSeq DEF Done
<1>6. TypeOK'
  <2>1. schema' \in Seq(AllRows) /\ <<>> \in Seq(AllRows) /\ {} \in SUBSET AllRows
    BY <1>1, <1>5, ConcatProperties, EmptySeq DEF TypeOK
  <2>2. pending' \in [Instances -> Seq(AllRows)] /\ known' \in [Instances -> SUBSET AllRows]
    BY <1>3, <2>1 DEF TypeOK
  <2>3. ledger' \subseteq AllRows
    BY <1>1, <1>5 DEF TypeOK
  <2> QED BY <1>3, <1>a, <1>b, <1>c, <2>1, <2>2, <2>3 DEF TypeOK
<1>7. Locked' /\ NothingLeft' /\ HolderKnows'
  BY <1>2, <1>3, <1>4 DEF Locked, NothingLeft, HolderKnows, Holding
<1>11. NobodyConflicts'
  BY <1>c DEF NobodyConflicts
<1>8. RowsOf(i) \subseteq ledger'
  BY <1>1 DEF HolderKnows, RowsOf
<1>9. Roles'
  <2>1. \A j \in Instances : pc'[j] \in {"locking", "reading"} => j # i /\ pc[j] \in {"locking", "reading"}
    BY <1>3
  <2>2. \A j \in Instances : sweeping'[j] => j # i /\ sweeping[j]
    BY <1>b, <1>d
  <2> QED BY <1>3, <2>1, <2>2 DEF Roles
<1>10. ServesItsSchema'
  <2> SUFFICES ASSUME NEW j \in Migrates, pc'[j] \in Up \/ sweeping'[j] PROVE RowsOf(j) \subseteq ledger'
    BY DEF ServesItsSchema, RowsOf, Row
  <2>1. CASE j = i
    BY <1>8, <2>1
  <2>2. CASE j # i
    <3>1. pc[j] \in Up \/ sweeping[j]
      BY <1>3, <1>b, <2>2, BootConstants
    <3> QED BY <1>1, <3>1 DEF ServesItsSchema
  <2> QED BY <2>1, <2>2
<1> QED BY <1>6, <1>7, <1>9, <1>10, <1>11

-----------------------------------------------------------------------------
\* Every step keeps the invariant.
LEMMA NextIInv == IInv /\ [Next]_vars => IInv'
<1> SUFFICES ASSUME IInv, [Next]_vars PROVE IInv'
  OBVIOUS
<1>0. CASE UNCHANGED vars
  BY <1>0 DEF vars, IInv, TypeOK, Locked, NothingLeft, HolderKnows, Roles, ServesItsSchema,
     NobodyConflicts, Done
<1> SUFFICES ASSUME NEW i \in Instances, Run(i) \/ TakeLock(i) \/ Start(i) \/ MigrationFails(i) \/ Shutdown(i) \/ Crash(i)
             PROVE  IInv'
  BY <1>0 DEF Next
<1>a. {"configuration", "migration", "edited", "policy", "port", "shutdown", "killed", "done"} \subseteq Exits \ {"conflict"}
  BY DEF Exits, Faults
<1>b. sweeping[i] => pc[i] \in Up
  BY DEF IInv, Roles
<1>1. CASE TakeLock(i)
  BY <1>1, TakeLockIInv
<1>2. CASE ReadLedger(i)
  BY <1>2, ReadLedgerIInv
<1>3. CASE Commit(i)
  BY <1>3, CommitIInv
<1>4. ASSUME NEW f \in todo[i], Skip(i, f) \/ Refuse(i, f) \/ Apply(i, f) PROVE IInv'
  <2>1. CASE Skip(i, f)
    BY <2>1, SkipIInv
  <2>2. CASE Refuse(i, f)
    BY <2>2, <1>a, ExitIInv DEF Refuse
  <2>3. CASE Apply(i, f)
    BY <2>3, ApplyIInv
  <2> QED BY <1>4, <2>1, <2>2, <2>3
<1>5. CASE Start(i)
  <2>1. pc[i] = "down" /\ ~ sweeping[i]
    BY <1>5, <1>b DEF Start, Up
  <2> QED BY <1>5, <2>1, MoveIInv DEF Start, Goto, Stages, Holding, Up
<1>6. CASE LoadConfig(i)
  <2>1. pc[i] = "booting" /\ ~ sweeping[i]
    BY <1>6, <1>b DEF LoadConfig, Up
  <2>2. CASE Exit(i, "configuration")
    BY <1>6, <2>2, <1>a, ExitIInv DEF LoadConfig
  <2>3. CASE /\ Goto(i, IF i \in Migrates THEN "locking" ELSE "policy")
             /\ UNCHANGED <<lock, known, todo, pending, sweeping, exit>>
    <3> DEFINE stage == IF i \in Migrates THEN "locking" ELSE "policy"
    <3>1. stage \in Stages \ Holding
      BY DEF Stages, Holding
    <3> QED BY <1>6, <2>1, <2>3, <3>1, MoveIInv DEF LoadConfig, Goto, Up
  <2> QED BY <1>6, <2>2, <2>3 DEF LoadConfig
<1>7. CASE LoadPolicy(i)
  BY <1>7, <1>a, ExitIInv, MoveIInv DEF LoadPolicy, Goto, Stages, Holding, Up
<1>8. CASE StartSweeper(i)
  BY <1>8, MoveIInv DEF StartSweeper, Goto, Stages, Holding, Up
<1>9. CASE Listen(i)
  BY <1>9, <1>a, ExitIInv, MoveIInv DEF Listen, Goto, Stages, Holding, Up
<1>10. CASE Shutdown(i)
  BY <1>10, MoveIInv DEF Shutdown, Goto, Stages, Holding, Up
<1>11. CASE Close(i)
  BY <1>11, <1>a, ExitIInv DEF Close
<1>12. CASE MigrationFails(i)
  BY <1>12, <1>a, ExitIInv DEF MigrationFails
<1>13. CASE Crash(i)
  BY <1>13, <1>a, ExitIInv DEF Crash
<1> QED BY <1>1, <1>2, <1>3, <1>4, <1>5, <1>6, <1>7, <1>8, <1>9, <1>10, <1>11, <1>12, <1>13 DEF Run

\* index.ts, migrate.ts: every reachable state is well typed.
THEOREM TypeCorrect == Spec => []TypeOK
<1>1. IInv => TypeOK
  BY DEF IInv
<1> QED BY InitIInv, NextIInv, <1>1, PTL DEF Spec

\* docs/06, Database: nobody serves or sweeps on a half-migrated schema, however
\* many instances boot, edit, crash and restart.
THEOREM ServesItsSchemaAlways == Spec => []ServesItsSchema
<1>1. IInv => ServesItsSchema
  BY DEF IInv
<1> QED BY InitIInv, NextIInv, <1>1, PTL DEF Spec

\* docs/06, Database: the instance that comes second waits and finds nothing to
\* do; the ledger's primary key never has to refuse it.
THEOREM NobodyConflictsAlways == Spec => []NobodyConflicts
<1>1. IInv => NobodyConflicts
  BY DEF IInv
<1> QED BY InitIInv, NextIInv, <1>1, PTL DEF Spec

-----------------------------------------------------------------------------
(***************************************************************************)
(* The schema has the history that SchemaHistory promises.                 *)
(***************************************************************************)

\* The ledger is what the schema is made of, one content under each name.
LedgerIsSchema ==
    /\ ledger = {schema[k] : k \in DOMAIN schema}
    /\ \A x, y \in ledger : x.file = y.file => x = y

\* An open transaction has applied files of its image that the ledger does not
\* have, each before the next and all before those to come.
PendingInOrder ==
    \A i \in Instances : pc[i] = "applying" => \A k \in DOMAIN pending[i] :
        /\ pending[i][k].file \in DOMAIN Image[i] /\ pending[i][k].file \notin Files(ledger)
        /\ pending[i][k] = Row(i, pending[i][k].file)
        /\ \A j \in DOMAIN pending[i] : j < k => pending[i][j].file < pending[i][k].file
        /\ \A f \in todo[i] : pending[i][k].file < f

HistInv == LedgerIsSchema /\ PendingInOrder

\* Steps that commit nothing: transactions stay as they are, end, or are ended with
\* their process.
LEMMA HistBystander ==
    ASSUME HistInv, ledger' = ledger, schema' = schema,
           \A j \in Instances : pc'[j] = "applying" =>
               \/ pending'[j] = <<>>
               \/ pc[j] = "applying" /\ pending'[j] = pending[j] /\ todo'[j] \subseteq todo[j]
    PROVE  HistInv'
<1>1. LedgerIsSchema'
  BY DEF HistInv, LedgerIsSchema
<1>2. PendingInOrder'
  <2> SUFFICES ASSUME NEW j \in Instances, pc'[j] = "applying", NEW k \in DOMAIN (pending'[j])
               PROVE  /\ pending'[j][k].file \in DOMAIN Image[j]
                      /\ pending'[j][k].file \notin Files(ledger)
                      /\ pending'[j][k] = Row(j, pending'[j][k].file)
                      /\ \A h \in DOMAIN (pending'[j]) : h < k =>
                             pending'[j][h].file < pending'[j][k].file
                      /\ \A f \in todo'[j] : pending'[j][k].file < f
    BY DEF PendingInOrder, Row, Files
  <2>1. pending'[j] # <<>>
    OBVIOUS
  <2> QED BY <2>1 DEF HistInv, PendingInOrder
<1> QED BY <1>1, <1>2 DEF HistInv

\* The next file comes after all that are applied.
LEMMA ApplyHist ==
    ASSUME IInv, HistInv, NEW i \in Instances, NEW f \in todo[i], Apply(i, f)
    PROVE  HistInv'
<1>1. /\ pc[i] = "applying" /\ f \notin Files(ledger) /\ f \in DOMAIN Image[i]
      /\ \A g \in todo[i] : f <= g
  BY DEF IInv, Apply, At, HolderKnows
<1>2. /\ pending' = [pending EXCEPT ![i] = Append(@, Row(i, f))]
      /\ todo' = [todo EXCEPT ![i] = @ \ {f}]
      /\ ledger' = ledger /\ schema' = schema /\ pc' = pc
  BY <1>1 DEF Apply, database
<1>3. pending[i] \in Seq(AllRows) /\ Row(i, f) \in AllRows
  BY <1>1, RowsAreRows DEF IInv, TypeOK
<1>4. /\ pending'[i] = Append(pending[i], Row(i, f)) /\ todo'[i] = todo[i] \ {f}
      /\ \A j \in Instances : j # i => pending'[j] = pending[j] /\ todo'[j] = todo[j]
  BY <1>2 DEF IInv, TypeOK
<1>5. PICK n \in Nat : n = Len(pending[i]) /\ DOMAIN pending[i] = 1 .. n
  BY <1>3, LenProperties
<1>6. /\ DOMAIN (pending'[i]) = 1 .. n + 1 /\ pending'[i][n + 1] = Row(i, f)
      /\ \A k \in 1 .. n : pending'[i][k] = pending[i][k]
  <2>1. /\ Append(pending[i], Row(i, f)) \in Seq(AllRows)
        /\ Len(Append(pending[i], Row(i, f))) = Len(pending[i]) + 1
        /\ \A k \in 1 .. Len(pending[i]) : Append(pending[i], Row(i, f))[k] = pending[i][k]
        /\ Append(pending[i], Row(i, f))[Len(pending[i]) + 1] = Row(i, f)
    BY <1>3, AppendProperties
  <2>2. DOMAIN (pending'[i]) = 1 .. Len(pending'[i])
    BY <1>4, <2>1, LenProperties
  <2> QED BY <1>4, <1>5, <2>1, <2>2
<1>7. Row(i, f).file = f
  BY DEF Row
<1>8. \A g \in todo[i] : g \in Nat
  BY DEF IInv, TypeOK
<1>9. LedgerIsSchema'
  BY <1>2 DEF HistInv, LedgerIsSchema
<1>10. PendingInOrder'
  <2> SUFFICES ASSUME NEW j \in Instances, pc[j] = "applying", NEW k \in DOMAIN (pending'[j])
               PROVE  /\ pending'[j][k].file \in DOMAIN Image[j]
                      /\ pending'[j][k].file \notin Files(ledger)
                      /\ pending'[j][k] = Row(j, pending'[j][k].file)
                      /\ \A h \in DOMAIN (pending'[j]) : h < k =>
                             pending'[j][h].file < pending'[j][k].file
                      /\ \A g \in todo'[j] : pending'[j][k].file < g
    BY <1>2 DEF PendingInOrder, Row, Files
  <2>1. CASE j # i
    BY <1>4, <2>1 DEF HistInv, PendingInOrder
  <2>2. CASE j = i /\ k \in 1 .. n
    <3>1. /\ pending'[i][k] = pending[i][k] /\ \A h \in DOMAIN (pending'[i]) : h < k => h \in 1 .. n
      BY <1>5, <1>6, <2>2
    <3> QED BY <1>1, <1>4, <1>5, <1>6, <2>2, <3>1 DEF HistInv, PendingInOrder
  <2>3. CASE j = i /\ k = n + 1
    <3>1. pending'[i][k] = Row(i, f) /\ \A h \in DOMAIN (pending'[i]) : h < k => h \in 1 .. n
      BY <1>5, <1>6, <2>3
    <3>2. \A h \in 1 .. n : pending'[i][h].file < f
      BY <1>1, <1>5, <1>6 DEF HistInv, PendingInOrder
    <3>3. \A g \in todo'[i] : f < g
      BY <1>1, <1>4, <1>8
    <3> QED BY <1>1, <1>7, <2>3, <3>1, <3>2, <3>3
  <2>4. j = i => k \in 1 .. n \/ k = n + 1
    BY <1>5, <1>6
  <2> QED BY <2>1, <2>2, <2>3, <2>4
<1> QED BY <1>9, <1>10 DEF HistInv

\* What a commit adds is one history step of its image, or nothing.
LEMMA CommitHist ==
    ASSUME IInv, HistInv, NEW i \in Instances, Commit(i)
    PROVE  HistInv' /\ ((History!Migrate(Image[i]) /\ i \in Migrates) \/ schema' = schema)
<1> DEFINE files == [k \in DOMAIN pending[i] |-> pending[i][k].file]
           missing == DOMAIN Image[i] \ History!Applied
<1>1. /\ pc[i] = "applying" /\ todo[i] = {} /\ i \in Migrates
      /\ ledger' = ledger \cup Done(i) /\ schema' = schema \o pending[i]
  BY DEF IInv, Commit, HolderKnows
<1>2. \A j \in Instances : pc'[j] # "applying"
  <2>1. pc'[i] \in {"down", "policy"} /\ \A j \in Instances : j # i => pc'[j] = pc[j]
    BY DEF Commit, Exit, Goto, IInv, TypeOK
  <2>2. \A j \in Instances : j # i => pc[j] # "applying"
    BY <1>1 DEF IInv, Locked, Holding
  <2> QED BY <2>1, <2>2
<1>3. PICK n \in Nat, m \in Nat : /\ n = Len(pending[i]) /\ DOMAIN pending[i] = 1 .. n
                                  /\ m = Len(schema) /\ DOMAIN schema = 1 .. m
  <2>1. pending[i] \in Seq(AllRows) /\ schema \in Seq(AllRows)
    BY DEF IInv, TypeOK
  <2> QED BY <2>1, LenProperties
<1>4. /\ DOMAIN schema' = 1 .. m + n
      /\ \A k \in 1 .. m + n : schema'[k] = IF k <= m THEN schema[k] ELSE pending[i][k - m]
  <2>1. pending[i] \in Seq(AllRows) /\ schema \in Seq(AllRows)
    BY DEF IInv, TypeOK
  <2>2. /\ schema \o pending[i] \in Seq(AllRows)
        /\ Len(schema \o pending[i]) = m + n
        /\ \A k \in 1 .. m + n :
               (schema \o pending[i])[k] = IF k <= m THEN schema[k] ELSE pending[i][k - m]
    BY <1>3, <2>1, ConcatProperties
  <2>3. DOMAIN (schema \o pending[i]) = 1 .. m + n
    BY <2>2, LenProperties
  <2> QED BY <1>1, <2>2, <2>3
<1>5. \A k \in 1 .. n : /\ pending[i][k].file \in DOMAIN Image[i] \ Files(ledger)
                        /\ pending[i][k] = Row(i, pending[i][k].file)
                        /\ \A j \in 1 .. n : j < k => pending[i][j].file < pending[i][k].file
  BY <1>1, <1>3 DEF HistInv, PendingInOrder
<1>6. \A k \in 1 .. n : pending[i][k].file \in Nat
  BY <1>5, BootConstants
<1>7. \A j, k \in 1 .. n : pending[i][j].file = pending[i][k].file => j = k
  BY <1>5, <1>6
<1>8. LedgerIsSchema'
  <2>1. {schema'[k] : k \in DOMAIN schema'} = ledger'
    <3>1. \A k \in 1 .. m + n : schema'[k] \in ledger \cup Done(i)
      <4> SUFFICES ASSUME NEW k \in 1 .. m + n PROVE schema'[k] \in ledger \cup Done(i)
        OBVIOUS
      <4>1. CASE k <= m
        BY <1>3, <1>4, <4>1 DEF HistInv, LedgerIsSchema
      <4>2. CASE ~ (k <= m)
        <5>1. k - m \in 1 .. n
          BY <4>2
        <5> QED BY <1>3, <1>4, <4>2, <5>1 DEF Done
      <4> QED BY <4>1, <4>2
    <3>2. \A x \in ledger : \E k \in 1 .. m + n : schema'[k] = x
      <4> SUFFICES ASSUME NEW k \in 1 .. m PROVE schema'[k] = schema[k] /\ k \in 1 .. m + n
        BY <1>3 DEF HistInv, LedgerIsSchema
      <4> QED BY <1>4
    <3>3. \A x \in Done(i) : \E k \in 1 .. m + n : schema'[k] = x
      <4> SUFFICES ASSUME NEW k \in 1 .. n PROVE \E h \in 1 .. m + n : schema'[h] = pending[i][k]
        BY <1>3 DEF Done
      <4>1. m + k \in 1 .. m + n /\ ~ (m + k <= m) /\ (m + k) - m = k
        OBVIOUS
      <4> QED BY <1>4, <4>1
    <3>4. \A k \in DOMAIN schema' : schema'[k] \in ledger'
      BY <1>1, <1>4, <3>1
    <3>5. \A x \in ledger' : \E k \in DOMAIN schema' : schema'[k] = x
      BY <1>1, <1>4, <3>2, <3>3
    <3> QED BY ONLY <3>4, <3>5
  <2>2. \A x, y \in ledger' : x.file = y.file => x = y
    <3>1. \A x, y \in ledger : x.file = y.file => x = y
      BY DEF HistInv, LedgerIsSchema
    <3>2. \A x \in Done(i) : \E k \in 1 .. n : x = pending[i][k]
      BY <1>3 DEF Done
    <3>3. \A x \in Done(i) : x.file \notin Files(ledger)
      BY <1>5, <3>2
    <3>4. \A x \in ledger : x.file \in Files(ledger)
      BY DEF Files
    <3>5. \A x, y \in Done(i) : x.file = y.file => x = y
      BY <1>7, <3>2
    <3> QED BY <1>1, <3>1, <3>3, <3>4, <3>5
  <2> QED BY <2>1, <2>2 DEF LedgerIsSchema
<1>9. HistInv'
  BY <1>2, <1>8 DEF HistInv, PendingInOrder
<1>10. History!Applied = Files(ledger)
  BY DEF History!Applied, Files, HistInv, LedgerIsSchema
<1>11. \A f \in DOMAIN Image[i] \ Files(ledger) : \E k \in 1 .. n : pending[i][k].file = f
  <2> SUFFICES ASSUME NEW f \in DOMAIN Image[i], f \notin Files(ledger)
               PROVE  \E k \in 1 .. n : pending[i][k].file = f
    OBVIOUS
  <2>1. Row(i, f) \in ledger \/ Row(i, f) \in Done(i)
    BY <1>1 DEF IInv, HolderKnows
  <2>2. Row(i, f).file = f
    BY DEF Row
  <2>3. Row(i, f) \notin ledger
    BY <2>2 DEF Files
  <2>4. PICK k \in 1 .. n : Row(i, f) = pending[i][k]
    BY <1>3, <2>1, <2>3 DEF Done
  <2> QED BY <2>2, <2>4
<1>12. /\ files \in [1 .. n -> missing] /\ DOMAIN files = 1 .. n
       /\ \A k \in 1 .. n : files[k] = pending[i][k].file
  BY <1>3, <1>5, <1>10
<1>13. Cardinality(missing) = n
  <2>1. files \in Bijection(1 .. n, missing)
    BY <1>7, <1>10, <1>11, <1>12 DEF Bijection, Injection, Surjection, IsInjective
  <2> QED BY <2>1, FS_CountingElements DEF ExistsBijection
<1>14. ASSUME n # 0 PROVE History!Migrate(Image[i])
  <2>1. missing # {}
    BY <1>5, <1>10, <1>14
  <2>2. \A k \in DOMAIN schema : schema[k].file \in DOMAIN Image[i] =>
            schema[k].checksum = Image[i][schema[k].file]
    <3> SUFFICES ASSUME NEW k \in DOMAIN schema, schema[k].file \in DOMAIN Image[i]
                 PROVE  schema[k].checksum = Image[i][schema[k].file]
      OBVIOUS
    <3> DEFINE f == schema[k].file
    <3>1. schema[k] \in ledger /\ f \in Files(ledger)
      BY DEF HistInv, LedgerIsSchema, Files
    <3>2. Row(i, f).file = f /\ Row(i, f).checksum = Image[i][f]
      BY DEF Row
    <3>3. Row(i, f) \notin Done(i)
      BY <1>3, <1>5, <3>1, <3>2 DEF Done
    <3>4. Row(i, f) \in ledger
      BY <1>1, <3>3 DEF IInv, HolderKnows
    <3>5. schema[k] = Row(i, f)
      BY <3>1, <3>2, <3>4 DEF HistInv, LedgerIsSchema
    <3> QED BY <3>2, <3>5
  <2>3. History!Sorted(files)
    BY <1>5, <1>12 DEF History!Sorted
  <2>4. pending[i] = [k \in DOMAIN files |-> [file |-> files[k], checksum |-> Image[i][files[k]]]]
    <3>1. pending[i] = [k \in 1 .. n |-> pending[i][k]]
      BY <1>3 DEF IInv, TypeOK
    <3>2. \A k \in 1 .. n : pending[i][k] = [file |-> files[k], checksum |-> Image[i][files[k]]]
      BY <1>5, <1>12 DEF Row
    <3> HIDE DEF files
    <3> QED BY <1>12, <3>1, <3>2
  <2>5. files \in [1 .. Cardinality(missing) -> missing]
    BY <1>12, <1>13
  <2>a. History!Cardinality(missing) = Cardinality(missing)
    BY DEF History!Cardinality, Cardinality
  <2>6. \E fs \in [1 .. History!Cardinality(missing) -> missing] :
            /\ History!Sorted(fs)
            /\ schema' = schema \o [k \in DOMAIN fs |->
                                        [file |-> fs[k], checksum |-> Image[i][fs[k]]]]
    <3> HIDE DEF files
    <3>1. schema' = schema \o [k \in DOMAIN files |->
                                   [file |-> files[k], checksum |-> Image[i][files[k]]]]
      BY <1>1, <2>4
    <3> QED BY <2>3, <2>5, <2>a, <3>1
  <2> QED BY <2>1, <2>2, <2>6, Zenon DEF History!Migrate
<1>15. n = 0 => schema' = schema
  <2>1. schema \in Seq(AllRows) /\ pending[i] \in Seq(AllRows)
    BY DEF IInv, TypeOK
  <2>2. n = 0 => pending[i] = <<>>
    BY <1>3, <2>1, EmptySeq
  <2> QED BY <1>1, <2>1, <2>2, ConcatEmptySeq
<1> QED BY <1>1, <1>9, <1>14, <1>15

\* An empty ledger is an empty history.
LEMMA InitHist == Init => HistInv /\ History!Init
  BY DEF Init, HistInv, LedgerIsSchema, PendingInOrder, History!Init

\* A process that ends takes its transaction with it.
LEMMA ExitHist ==
    ASSUME IInv, HistInv, NEW i \in Instances, NEW why, Exit(i, why), UNCHANGED database
    PROVE  HistInv' /\ schema' = schema
<1>1. /\ ledger' = ledger /\ schema' = schema
      /\ pc' = [pc EXCEPT ![i] = "down"] /\ pending' = [pending EXCEPT ![i] = <<>>]
      /\ todo' = [todo EXCEPT ![i] = {}]
  BY DEF Exit, Goto, database
<1>2. pc'[i] = "down" /\ \A j \in Instances : j # i =>
          pc'[j] = pc[j] /\ pending'[j] = pending[j] /\ todo'[j] = todo[j]
  BY <1>1 DEF IInv, TypeOK
<1> QED BY <1>1, <1>2, HistBystander

\* Steps between the other stages leave every transaction as it is.
LEMMA MoveHist ==
    ASSUME IInv, HistInv, NEW i \in Instances, NEW stage, Goto(i, stage), stage # "applying",
           UNCHANGED <<database, todo, pending>>
    PROVE  HistInv' /\ schema' = schema
<1>1. /\ ledger' = ledger /\ schema' = schema /\ pending' = pending /\ todo' = todo
      /\ pc' = [pc EXCEPT ![i] = stage]
  BY DEF Goto, database
<1>2. \A j \in Instances : pc'[j] = "applying" => pc[j] = "applying"
  BY <1>1 DEF IInv, TypeOK
<1> QED BY <1>1, <1>2, HistBystander

\* A transaction opens with nothing applied.
LEMMA ReadLedgerHist ==
    ASSUME IInv, HistInv, NEW i \in Instances, ReadLedger(i)
    PROVE  HistInv' /\ schema' = schema
<1>1. /\ ledger' = ledger /\ schema' = schema /\ pending' = pending
      /\ pc' = [pc EXCEPT ![i] = "applying"] /\ todo' = [todo EXCEPT ![i] = DOMAIN Image[i]]
  BY DEF ReadLedger, Goto, database
<1>2. pending'[i] = <<>> /\ \A j \in Instances : j # i => pc'[j] = pc[j] /\ todo'[j] = todo[j]
  BY <1>1 DEF ReadLedger, IInv, TypeOK, NothingLeft
<1> QED BY <1>1, <1>2, HistBystander

\* A file that is passed over was applied before this transaction.
LEMMA SkipHist ==
    ASSUME IInv, HistInv, NEW i \in Instances, NEW f \in todo[i], Skip(i, f)
    PROVE  HistInv' /\ schema' = schema
<1>1. /\ ledger' = ledger /\ schema' = schema /\ pending' = pending /\ pc' = pc
      /\ todo' = [todo EXCEPT ![i] = @ \ {f}]
  BY DEF Skip, database
<1>2. \A j \in Instances : todo'[j] \subseteq todo[j]
  BY <1>1 DEF IInv, TypeOK
<1> QED BY <1>1, <1>2, HistBystander

\* Every step keeps the invariant, and is a step of the history or none.
LEMMA NextHist ==
    ASSUME IInv, HistInv, [Next]_vars
    PROVE  HistInv' /\ [History!Next]_schema
<1>0. CASE UNCHANGED vars
  BY <1>0 DEF vars, HistInv, LedgerIsSchema, PendingInOrder
<1> SUFFICES ASSUME NEW i \in Instances, Run(i) \/ TakeLock(i) \/ Start(i) \/ MigrationFails(i) \/ Shutdown(i) \/ Crash(i)
             PROVE  HistInv' /\ (schema' = schema \/ History!Next)
  BY <1>0 DEF Next
<1>1. CASE TakeLock(i)
  BY <1>1, MoveHist DEF TakeLock
<1>2. CASE ReadLedger(i)
  BY <1>2, ReadLedgerHist
<1>3. CASE Commit(i)
  <2>1. HistInv' /\ ((History!Migrate(Image[i]) /\ i \in Migrates) \/ schema' = schema)
    BY <1>3, CommitHist
  <2> QED BY <2>1 DEF History!Next
<1>4. ASSUME NEW f \in todo[i], Skip(i, f) \/ Refuse(i, f) \/ Apply(i, f)
      PROVE  HistInv' /\ schema' = schema
  <2>1. CASE Skip(i, f)
    BY <2>1, SkipHist
  <2>2. CASE Refuse(i, f)
    BY <2>2, ExitHist DEF Refuse
  <2>3. CASE Apply(i, f)
    BY <2>3, ApplyHist DEF Apply, database
  <2> QED BY <1>4, <2>1, <2>2, <2>3
<1>5. CASE Start(i)
  BY <1>5, MoveHist DEF Start
<1>6. CASE LoadConfig(i)
  <2>1. CASE Exit(i, "configuration")
    BY <1>6, <2>1, ExitHist DEF LoadConfig
  <2>2. CASE /\ Goto(i, IF i \in Migrates THEN "locking" ELSE "policy")
             /\ UNCHANGED <<lock, known, todo, pending, sweeping, exit>>
    <3>1. (IF i \in Migrates THEN "locking" ELSE "policy") # "applying"
      OBVIOUS
    <3> QED BY <1>6, <2>2, <3>1, MoveHist DEF LoadConfig
  <2> QED BY <1>6, <2>1, <2>2 DEF LoadConfig
<1>7. CASE LoadPolicy(i)
  BY <1>7, ExitHist, MoveHist DEF LoadPolicy
<1>8. CASE StartSweeper(i)
  BY <1>8, MoveHist DEF StartSweeper
<1>9. CASE Listen(i)
  BY <1>9, ExitHist, MoveHist DEF Listen
<1>10. CASE Shutdown(i)
  BY <1>10, MoveHist DEF Shutdown
<1>11. CASE Close(i)
  BY <1>11, ExitHist DEF Close
<1>12. CASE MigrationFails(i)
  BY <1>12, ExitHist DEF MigrationFails
<1>13. CASE Crash(i)
  BY <1>13, ExitHist DEF Crash
<1> QED BY <1>1, <1>2, <1>3, <1>4, <1>5, <1>6, <1>7, <1>8, <1>9, <1>10, <1>11, <1>12, <1>13 DEF Run

\* migrate.ts: whoever migrates, fails and dies, the schema grows by one image's
\* missing files at a time: whole, in the order of their names, each file once,
\* and never on top of a file whose content is another.
THEOREM HistoryKept == Spec => KeepsHistory
<1>1. Init => IInv /\ HistInv /\ History!Init
  BY InitIInv, InitHist
<1>2. IInv /\ HistInv /\ [Next]_vars => IInv' /\ HistInv' /\ [History!Next]_schema
  BY NextIInv, NextHist
<1> QED BY <1>1, <1>2, PTL DEF Spec, KeepsHistory, History!Spec
=============================================================================
