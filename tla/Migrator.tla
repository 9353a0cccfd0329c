------------------------------ MODULE Migrator ------------------------------
(***************************************************************************)
(* Processes that bring the schema up to date when they start: instances   *)
(* of go-core (cmd/server) and of the seed command (cmd/seed), on one      *)
(* database (platform/postgres/migrator.go).  ApplyMigrations is one       *)
(* transaction at READ COMMITTED, every statement of which is a step here. *)
(* File 0 is the table schema_migrations itself, created IF NOT EXISTS.    *)
(* Of the files after it only the first is written so that it can be       *)
(* applied again; a second CREATE TABLE of the others fails.               *)
(***************************************************************************)
EXTENDS Naturals

CONSTANTS
  Instances,  \* the processes
  Files,      \* how many migration files the binary embeds
  Releases,   \* how many files earlier releases embedded
  NoOne,      \* nobody holds the advisory lock
  MaxStarts   \* bounds how often a process is started

ASSUME FilesAssumption == Files \in Nat \ {0} /\ Releases \subseteq 0 .. Files
ASSUME NoOneAssumption == NoOne \notin Instances
ASSUME StartsAssumption == MaxStarts \in Nat

VARIABLES
  schema,  \* the files whose effect is committed
  own,     \* instance -> the files applied by its open transaction
  lock,    \* who holds the advisory lock
  pc,      \* instance -> where it is
  file,    \* instance -> the file its loop has come to
  starts   \* how many starts there were

database == <<schema, own, lock>>
mvars == <<database, pc, file, starts>>

\* A release of k files leaves them and the table behind.
Whole(k) == IF k = 0 THEN {} ELSE 0 .. k

Steps == {"begin", "table", "check", "apply", "record", "commit"}

-----------------------------------------------------------------------------

MigratorInit ==
  /\ schema \in {Whole(k) : k \in Releases}
  /\ own = [i \in Instances |-> {}] /\ lock = NoOne
  /\ pc = [i \in Instances |-> "down"]
  /\ file = [i \in Instances |-> 1]
  /\ starts = 0

Goto(i, step) == pc' = [pc EXCEPT ![i] = step]

Start(i) ==
  /\ pc[i] = "down" /\ starts < MaxStarts
  /\ starts' = starts + 1
  /\ file' = [file EXCEPT ![i] = 1]
  /\ Goto(i, "begin")
  /\ UNCHANGED database

\* Mutant: nothing is locked.
LockIgnored == TRUE

\* pg_advisory_xact_lock waits for the transaction that holds it.
LockFree == lock = NoOne

Lock(i) ==
  /\ pc[i] = "begin" /\ LockFree
  /\ lock' = i
  /\ Goto(i, "table")
  /\ UNCHANGED <<schema, own, file, starts>>

\* A statement that creates what another open transaction creates waits for it.
Waits(i, f) == \E j \in Instances \ {i} : f \in own[j]

CreateTable(i) ==
  /\ pc[i] = "table" /\ ~Waits(i, 0)
  /\ own' = [own EXCEPT ![i] = @ \cup ({0} \ schema)]
  /\ Goto(i, "check")
  /\ UNCHANGED <<schema, lock, file, starts>>

\* What a statement of i sees: a snapshot of its own, and the transaction's rows.
Seen(i) == schema \cup own[i]

\* continue.
SkipFile(i) == file[i] + 1

\* SELECT EXISTS, once for each file in the order of their names.
Check(i) ==
  /\ pc[i] = "check"
  /\ \/ /\ file[i] > Files
        /\ Goto(i, "commit") /\ UNCHANGED file
     \/ /\ file[i] \in Seen(i)
        /\ file' = [file EXCEPT ![i] = SkipFile(i)] /\ UNCHANGED pc
     \/ /\ file[i] \in 1 .. Files \ Seen(i)
        /\ Goto(i, "apply") /\ UNCHANGED file
  /\ UNCHANGED <<database, starts>>

Apply(i) ==
  /\ pc[i] = "apply" /\ ~Waits(i, file[i]) /\ file[i] \notin Seen(i)
  /\ own' = [own EXCEPT ![i] = @ \cup {file[i]}]
  /\ Goto(i, "record")
  /\ UNCHANGED <<schema, lock, file, starts>>

\* The row of schema_migrations goes with the effect of the file.
Record(i) ==
  /\ pc[i] = "record"
  /\ file' = [file EXCEPT ![i] = @ + 1]
  /\ Goto(i, "check")
  /\ UNCHANGED <<database, starts>>

\* The end of the transaction ends the lock.
Unlock(i) == IF lock = i THEN NoOne ELSE lock

\* Commit takes effect; if its reply is lost the process exits all the same.
Commit(i) ==
  /\ pc[i] = "commit"
  /\ schema' = Seen(i)
  /\ own' = [own EXCEPT ![i] = {}] /\ lock' = Unlock(i)
  /\ \E step \in {"up", "down"} : Goto(i, step)
  /\ UNCHANGED <<file, starts>>

\* Mutant: the files applied so far stay.
KeepOwn(i) == Seen(i)

\* Rollback.
DropOwn(i) == schema

\* An error of any statement (a second application of a file among them), a
\* signal or a crash: Rollback, by the deferred call or by Postgres.
GiveUp(i) ==
  /\ pc[i] \in Steps
  /\ schema' = DropOwn(i)
  /\ own' = [own EXCEPT ![i] = {}] /\ lock' = Unlock(i)
  /\ Goto(i, "down")
  /\ UNCHANGED <<file, starts>>

\* A process that is up ends: SIGTERM or a crash, or the seed command is done.
Stop(i) ==
  /\ pc[i] = "up"
  /\ Goto(i, "down")
  /\ UNCHANGED <<database, file, starts>>

Migrate(i) ==
  Lock(i) \/ CreateTable(i) \/ Check(i) \/ Apply(i) \/ Record(i) \/ Commit(i)

MigratorNext == \E i \in Instances : Start(i) \/ Migrate(i) \/ GiveUp(i) \/ Stop(i)

MigratorSpec == MigratorInit /\ [][MigratorNext]_mvars

-----------------------------------------------------------------------------

MigratorTypeOK ==
  /\ schema \subseteq 0 .. Files /\ own \in [Instances -> SUBSET (0 .. Files)]
  /\ lock \in Instances \cup {NoOne}
  /\ pc \in [Instances -> Steps \cup {"down", "up"}]
  /\ file \in [Instances -> 1 .. Files + 1]
  /\ starts \in 0 .. MaxStarts

\* Exactly one process is between taking the lock and the end of its
\* transaction, and only it has applied files that are not committed.
OneMigrates ==
  \A i \in Instances : /\ lock = i <=> pc[i] \in Steps \ {"begin"}
                       /\ own[i] # {} => lock = i

\* The files committed are those of a whole release, through crashes anywhere
\* in the migrations and starts at the same time, and a process that has passed
\* ApplyMigrations finds every file of its binary (migrator.go, "safe to call
\* on each start").
SchemaIsWhole ==
  /\ schema \in {Whole(k) : k \in Releases \cup {Files}}
  /\ \A i \in Instances : pc[i] = "up" => schema = Whole(Files)

\* A file about to be applied has been applied by nobody, committed or not: no
\* start fails because another one was migrating, and nobody waits for a lock
\* that nobody is going to release (pg_advisory_xact_lock before the checks).
NoFileTwice ==
  /\ OneMigrates
  /\ \A i \in Instances : pc[i] = "apply" =>
       file[i] \notin schema /\ \A j \in Instances : file[i] \notin own[j]

=============================================================================
