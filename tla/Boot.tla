-------------------------------- MODULE Boot --------------------------------
(***************************************************************************)
(* Instances of the service that boot, migrate the schema, serve and shut  *)
(* down, side by side on one database, and the migration command run by    *)
(* hand.  Each comes from an image with its own migration files; any of    *)
(* them may fail or be killed anywhere, and the platform starts it again.  *)
(*                                                                         *)
(* A migration is one transaction on a connection of its own, under an     *)
(* advisory lock that ends with the transaction.                           *)
(***************************************************************************)
EXTENDS Naturals, Sequences, FiniteSets

CONSTANTS
    Instances,
    Image,    \* the files of each one's image: a function from numbers to contents
    Migrates, \* those that run the migrations: the command, and MIGRATE_ON_BOOT
    Commands, \* those that are the migration command, and serve nothing
    Nobody    \* no instance

ASSUME BootConstants ==
    /\ Nobody \notin Instances
    /\ Commands \subseteq Migrates /\ Migrates \subseteq Instances
    /\ \A i \in Instances : DOMAIN Image[i] \subseteq Nat

VARIABLES
    ledger,  \* the committed rows of schema_migrations
    schema,  \* the files whose SQL took effect, in that order
    lock,    \* who holds the advisory lock
    pc,      \* where each instance is
    known,   \* the rows it read under the lock
    todo,    \* the files it has not come to yet
    pending, \* what its open transaction applied
    sweeping,\* whether its sweeper's interval runs
    exit     \* why it is not running

database == <<ledger, schema>>
vars == <<ledger, schema, lock, pc, known, todo, pending, sweeping, exit>>

-----------------------------------------------------------------------------
Row(i, f) == [file |-> f, checksum |-> Image[i][f]]
RowsOf(i) == {Row(i, f) : f \in DOMAIN Image[i]}
AllRows == UNION {RowsOf(i) : i \in Instances}
Done(i) == {pending[i][k] : k \in DOMAIN pending[i]}
Files(rows) == {row.file : row \in rows}

Stages == {"down", "booting", "locking", "reading", "applying", "policy",
           "building", "listening", "serving", "closing"}
Faults == {"configuration", "migration", "edited", "policy", "port", "shutdown", "killed"}
Exits == Faults \cup {"none", "done", "conflict"}

TypeOK ==
    /\ ledger \subseteq AllRows
    /\ schema \in Seq(AllRows)
    /\ lock \in Instances \cup {Nobody}
    /\ pc \in [Instances -> Stages]
    /\ known \in [Instances -> SUBSET AllRows]
    /\ todo \in [Instances -> SUBSET Nat]
    /\ pending \in [Instances -> Seq(AllRows)]
    /\ sweeping \in [Instances -> BOOLEAN]
    /\ exit \in [Instances -> Exits]

-----------------------------------------------------------------------------
Goto(i, stage) == pc' = [pc EXCEPT ![i] = stage]

Unlocked(i) == IF lock = i THEN Nobody ELSE lock

\* The process ends: its transaction is rolled back and its lock is gone with it.
Exit(i, why) ==
    /\ Goto(i, "down")
    /\ exit' = [exit EXCEPT ![i] = why]
    /\ lock' = Unlocked(i)
    /\ known' = [known EXCEPT ![i] = {}]
    /\ todo' = [todo EXCEPT ![i] = {}]
    /\ pending' = [pending EXCEPT ![i] = <<>>]
    /\ sweeping' = [sweeping EXCEPT ![i] = FALSE]

Init ==
    /\ ledger = {}
    /\ schema = <<>>
    /\ lock = Nobody
    /\ pc = [i \in Instances |-> "down"]
    /\ known = [i \in Instances |-> {}]
    /\ todo = [i \in Instances |-> {}]
    /\ pending = [i \in Instances |-> <<>>]
    /\ sweeping = [i \in Instances |-> FALSE]
    /\ exit = [i \in Instances |-> "done"]

\* The platform starts a container, for the first time or after it went down.
Start(i) ==
    /\ pc[i] = "down"
    /\ Goto(i, "booting")
    /\ exit' = [exit EXCEPT ![i] = "none"]
    /\ UNCHANGED <<database, lock, known, todo, pending, sweeping>>

\* The environment is validated before anything else.
LoadConfig(i) ==
    /\ pc[i] = "booting"
    /\ \/ Exit(i, "configuration")
       \/ /\ Goto(i, IF i \in Migrates THEN "locking" ELSE "policy")
          /\ UNCHANGED <<lock, known, todo, pending, sweeping, exit>>
    /\ UNCHANGED database

-----------------------------------------------------------------------------
(***************************************************************************)
(* runMigrations.                                                          *)
(***************************************************************************)
\* Mutant: through a transaction-mode pooler the lock appears to be taken.
TakeLockPooled(i) ==
    /\ pc[i] = "locking"
    /\ lock' = i
    /\ Goto(i, "reading")
    /\ UNCHANGED <<database, known, todo, pending, sweeping, exit>>

TakeLock(i) ==
    /\ pc[i] = "locking"
    /\ lock = Nobody
    /\ lock' = i
    /\ Goto(i, "reading")
    /\ UNCHANGED <<database, known, todo, pending, sweeping, exit>>

ReadLedger(i) ==
    /\ pc[i] = "reading"
    /\ known' = [known EXCEPT ![i] = ledger]
    /\ todo' = [todo EXCEPT ![i] = DOMAIN Image[i]]
    /\ Goto(i, "applying")
    /\ UNCHANGED <<database, lock, pending, sweeping, exit>>

\* The file an instance has come to: they are sorted by name.
At(i, f) ==
    /\ pc[i] = "applying"
    /\ f \in todo[i]
    /\ \A g \in todo[i] : f <= g

Skip(i, f) ==
    /\ At(i, f)
    /\ Row(i, f) \in known[i]
    /\ todo' = [todo EXCEPT ![i] = @ \ {f}]
    /\ UNCHANGED <<database, lock, pc, known, pending, sweeping, exit>>

\* Mutant: a changed file is logged and passed over.
RefuseWarns(i, f) ==
    /\ At(i, f)
    /\ f \in Files(known[i]) /\ Row(i, f) \notin known[i]
    /\ todo' = [todo EXCEPT ![i] = @ \ {f}]
    /\ UNCHANGED <<database, lock, pc, known, pending, sweeping, exit>>

\* A file that was edited after it was applied stops the boot.
Refuse(i, f) ==
    /\ At(i, f)
    /\ f \in Files(known[i]) /\ Row(i, f) \notin known[i]
    /\ Exit(i, "edited")
    /\ UNCHANGED database

\* Mutant: each file is committed on its own.
ApplyAutocommitted(i, f) ==
    /\ At(i, f)
    /\ f \notin Files(known[i])
    /\ f \notin Files(ledger)
    /\ ledger' = ledger \cup {Row(i, f)}
    /\ schema' = Append(schema, Row(i, f))
    /\ todo' = [todo EXCEPT ![i] = @ \ {f}]
    /\ UNCHANGED <<lock, pc, known, pending, sweeping, exit>>

\* The SQL of the file and its row.  The primary key of the ledger waits for an
\* uncommitted row of the same name, and refuses one that somebody committed
\* since the ledger was read.
Apply(i, f) ==
    /\ At(i, f)
    /\ f \notin Files(known[i])
    /\ \A j \in Instances \ {i} : f \notin Files(Done(j))
    /\ IF f \in Files(ledger)
       THEN Exit(i, "conflict")
       ELSE /\ pending' = [pending EXCEPT ![i] = Append(@, Row(i, f))]
            /\ todo' = [todo EXCEPT ![i] = @ \ {f}]
            /\ UNCHANGED <<lock, pc, known, sweeping, exit>>
    /\ UNCHANGED database

\* The transaction's lock ends with it.  The command is done; a service goes on,
\* unless the acknowledgement is lost and it takes the migration for failed.
Commit(i) ==
    /\ pc[i] = "applying"
    /\ todo[i] = {}
    /\ ledger' = ledger \cup Done(i)
    /\ schema' = schema \o pending[i]
    /\ \/ i \in Commands /\ Exit(i, "done")
       \/ Exit(i, "migration")
       \/ /\ i \notin Commands
          /\ Goto(i, "policy")
          /\ lock' = Unlocked(i)
          /\ known' = [known EXCEPT ![i] = {}]
          /\ pending' = [pending EXCEPT ![i] = <<>>]
          /\ UNCHANGED <<todo, sweeping, exit>>

\* No connection, a file's SQL that fails, a statement that is lost.
MigrationFails(i) ==
    /\ pc[i] \in {"locking", "reading", "applying"}
    /\ Exit(i, "migration")
    /\ UNCHANGED database

-----------------------------------------------------------------------------
(***************************************************************************)
(* The rest of index.ts.                                                   *)
(***************************************************************************)
LoadPolicy(i) ==
    /\ pc[i] = "policy"
    /\ \/ Exit(i, "policy")
       \/ /\ Goto(i, "building")
          /\ UNCHANGED <<lock, known, todo, pending, sweeping, exit>>
    /\ UNCHANGED database

\* The server is built, and the sweeper started before it listens.
StartSweeper(i) ==
    /\ pc[i] = "building"
    /\ sweeping' = [sweeping EXCEPT ![i] = TRUE]
    /\ Goto(i, "listening")
    /\ UNCHANGED <<database, lock, known, todo, pending, exit>>

Listen(i) ==
    /\ pc[i] = "listening"
    /\ \/ Exit(i, "port")
       \/ /\ Goto(i, "serving")
          /\ UNCHANGED <<lock, known, todo, pending, sweeping, exit>>
    /\ UNCHANGED database

\* A signal, once its handlers are there: no more sweeps, no more requests.
Shutdown(i) ==
    /\ pc[i] \in {"listening", "serving"}
    /\ sweeping' = [sweeping EXCEPT ![i] = FALSE]
    /\ Goto(i, "closing")
    /\ UNCHANGED <<database, lock, known, todo, pending, exit>>

\* Requests under way end, then the pool does.
Close(i) ==
    /\ pc[i] = "closing"
    /\ Exit(i, "done") \/ Exit(i, "shutdown")
    /\ UNCHANGED database

\* The process dies, wherever it is.
Crash(i) ==
    /\ pc[i] # "down"
    /\ Exit(i, "killed")
    /\ UNCHANGED database

Run(i) ==
    \/ LoadConfig(i)
    \/ ReadLedger(i) \/ Commit(i)
    \/ \E f \in todo[i] : Skip(i, f) \/ Refuse(i, f) \/ Apply(i, f)
    \/ LoadPolicy(i) \/ StartSweeper(i) \/ Listen(i) \/ Close(i)

Next ==
    \E i \in Instances :
        \/ Run(i) \/ TakeLock(i)
        \/ Start(i) \/ MigrationFails(i) \/ Shutdown(i) \/ Crash(i)

Spec == Init /\ [][Next]_vars

\* A process that runs goes on running, and PostgreSQL grants a lock in the order
\* in which it is asked for.
FairSpec ==
    /\ Spec
    /\ \A i \in Instances : WF_vars(Run(i)) /\ SF_vars(TakeLock(i))

-----------------------------------------------------------------------------
(***************************************************************************)
(* Properties.                                                             *)
(***************************************************************************)

\* The promise about the schema: whole images, each file once, in order.
History == INSTANCE SchemaHistory WITH Images <- {Image[i] : i \in Migrates}

KeepsHistory == History!Spec

\* Where an instance may have touched the database as a service.
Up == {"policy", "building", "listening", "serving", "closing"}

\* docs/06, Database: nobody serves, or sweeps, on a half-migrated schema.  An
\* instance that ran its migrations finds every file of its image applied, as it
\* knows it, for as long as it is up, whoever else migrates or dies meanwhile.
ServesItsSchema ==
    \A i \in Migrates : pc[i] \in Up \/ sweeping[i] => RowsOf(i) \subseteq ledger

\* docs/06, Database and Deployment: a boot ends in a service, or in an exit for
\* a reason of its own; never in a wait for a dead migrator's lock, nor in a
\* conflict with a living one, which it waits for and finds nothing to do.
EveryBootEnds ==
    \A i \in Instances : (pc[i] = "booting") ~>
        (pc[i] = "serving" \/ exit[i] \in Faults \/ (pc[i] = "down" /\ exit[i] = "done"))
=============================================================================
