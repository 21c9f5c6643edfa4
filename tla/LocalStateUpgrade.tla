-------------------------- MODULE LocalStateUpgrade --------------------------
(***************************************************************************)
(* The backup-first upgrade of the two local databases                     *)
(* (local_state_upgrade.py): the analytical DuckDB database and the SQLite *)
(* operations ledger.                                                      *)
(*                                                                         *)
(* upgrade-local-state backs both up, rehearses the upgrade on copies,     *)
(* compares the live state with the backup, and then migrates one database *)
(* after the other, publishing a phase of a write-once journal after each. *)
(* upgrade-local-state-recover resumes an attempt that was cut short.      *)
(* Both hold the maintenance lease; the operations ledger is also written  *)
(* by commands that do not need it.                                        *)
(*                                                                         *)
(* A database is its schema and the number of its rows: that is what the   *)
(* baselines the code compares can tell apart.                             *)
(***************************************************************************)
EXTENDS Naturals, FiniteSets

CONSTANTS
    Attempts,       \* identities of upgrade attempts
    MaxAborts,      \* bound: crashes and exceptions
    MaxAlerts,      \* bound: rows other commands add to the operations ledger
    MaxIngests,     \* bound: rows other commands add to the analytical database
    TornMigration,  \* the process may die inside the DuckDB migration
    TornPublish     \* the process may die between link and unlink of a phase

ASSUME UpgradeBounds ==
    /\ MaxAborts \in Nat /\ MaxAlerts \in Nat /\ MaxIngests \in Nat
    /\ TornMigration \in BOOLEAN /\ TornPublish \in BOOLEAN

VARIABLES
    database,    \* the live analytical database
    operations,  \* the live operations ledger
    saved,       \* the verified backups: pairs of both databases
    journal,     \* phase files: journal[a][p] is the evidence of phase p of attempt a
    aliased,     \* phase files that still have a second name, as <<attempt, phase>>
    command,     \* the command that holds the lease
    aborts, alerts, ingests   \* counters of the bounds

vars == <<database, operations, saved, journal, aliased, command, aborts, alerts, ingests>>

Phases == {"prepared", "analytical_migrated", "operations_migrated", "verified"}

Missing == [kind |-> "missing"]
Idle == [pc |-> "idle"]

\* What the migrations make of a pair of databases.
Upgraded(pair) == [database |-> [pair.database EXCEPT !.schema = "new"],
                   operations |-> [pair.operations EXCEPT !.schema = "new"]]

Live == [database |-> database, operations |-> operations]

\* The database is one the backup can classify: an interrupted migration has
\* created the table of the new schema and not yet its marker.
Classified(db) == db.schema # "partial"

\* What phase p of an attempt that started from `before` has to record.
Evidence(before, p) ==
    CASE p = "prepared" -> before
      [] p = "analytical_migrated" -> Upgraded(before).database
      [] p = "operations_migrated" -> Upgraded(before).operations
      [] p = "verified" -> Upgraded(before)

Init ==
    /\ database = [schema |-> "old", rows |-> 0]
    /\ operations = [schema |-> "old", rows |-> 0]
    /\ saved = {} /\ aliased = {} /\ command = Idle
    /\ journal = [a \in Attempts |-> [p \in Phases |-> Missing]]
    /\ aborts = 0 /\ alerts = 0 /\ ingests = 0

Counters == <<aborts, alerts, ingests>>

------------------------------------------------------------------------------
\* The upgrade command up to its first phase

At(pc) == command.pc = pc
Go(pc) == command' = [command EXCEPT !.pc = pc]
Refuse == command' = Idle /\ UNCHANGED <<database, operations, saved, journal, aliased, Counters>>

\* checkpoint, create_local_backup, verify_local_backup and the rehearsal on copies.
Backup(a) ==
    /\ command = Idle /\ Classified(database) /\ journal[a]["prepared"] = Missing
    /\ saved' = saved \cup {Live}
    /\ command' = [pc |-> "compare", attempt |-> a, before |-> Live]
    /\ UNCHANGED <<database, operations, journal, aliased, Counters>>

\* Publishes phase p, completely or so that the process dies before it removes
\* the temporary name of the file.
Publish(p, next) ==
    LET a == command.attempt IN
    /\ journal' = [journal EXCEPT ![a][p] = Evidence(command.before, p)]
    /\ \/ Go(next) /\ UNCHANGED <<aliased, aborts>>
       \/ /\ TornPublish /\ aborts < MaxAborts
          /\ aliased' = aliased \cup {<<a, p>>}
          /\ aborts' = aborts + 1
          /\ command' = Idle

\* The baselines: each live database still is the one that was backed up.
DatabaseAsBefore == database = command.before.database
LedgerAsBefore == operations = command.before.operations

\* The live databases still are what was backed up: the attempt is prepared.
Prepare ==
    /\ At("compare")
    /\ IF DatabaseAsBefore /\ LedgerAsBefore
       THEN /\ Publish("prepared", "migrate")
            /\ UNCHANGED <<database, operations, saved, alerts, ingests>>
       ELSE Refuse

------------------------------------------------------------------------------
\* Migration and the later phases, shared by upgrade and recovery

\* Recovery starts from the prepared phase and the backup it names.
StartRecovery(a) ==
    /\ command = Idle
    /\ journal[a]["prepared"] # Missing /\ <<a, "prepared">> \notin aliased
    /\ journal[a]["prepared"] \in saved
    /\ command' = [pc |-> "migrate", attempt |-> a, before |-> journal[a]["prepared"]]
    /\ UNCHANGED <<database, operations, saved, journal, aliased, Counters>>

\* The statements of the DuckDB migration commit one by one: the first of them ...
MigrateDatabase ==
    /\ At("migrate")
    /\ IF DatabaseAsBefore /\ database.schema = "old"
       THEN Go("certify") /\ database' = [database EXCEPT !.schema = "partial"]
       ELSE Go("analytical") /\ UNCHANGED database
    /\ UNCHANGED <<operations, saved, journal, aliased, Counters>>

\* ... and the marker that certifies the new schema, the last.
CertifyDatabase ==
    /\ At("certify")
    /\ database' = [database EXCEPT !.schema = "new"]
    /\ Go("analytical")
    /\ UNCHANGED <<operations, saved, journal, aliased, Counters>>

\* A phase that exists already has to be readable and to say the same.
PhaseStands(p) ==
    /\ <<command.attempt, p>> \notin aliased
    /\ journal[command.attempt][p] = Evidence(command.before, p)

\* A phase that exists already stops the recovery (a fault).
Phase_Again(p, next) ==
    IF journal[command.attempt][p] = Missing
    THEN Publish(p, next) /\ UNCHANGED <<database, operations, saved, alerts, ingests>>
    ELSE Refuse

\* Publishes the phase, or checks the one an earlier run published.
Phase(p, next) ==
    IF journal[command.attempt][p] = Missing
    THEN Publish(p, next) /\ UNCHANGED <<database, operations, saved, alerts, ingests>>
    ELSE IF PhaseStands(p)
         THEN Go(next) /\ UNCHANGED <<database, operations, saved, journal, aliased, Counters>>
         ELSE Refuse

\* The rows of the backup are all there and unchanged, table by table.
DatabaseKept == database.rows = command.before.database.rows
LedgerKept == operations.rows = command.before.operations.rows

\* The activation table has its columns, its constraints and its marker.
SchemaComplete == database.schema = "new"

RecordDatabase ==
    /\ At("analytical")
    /\ IF SchemaComplete /\ DatabaseKept
       THEN Phase("analytical_migrated", "ledger")
       ELSE Refuse

\* Opening the operations ledger for writing migrates it in one transaction.
MigrateOperations ==
    /\ At("ledger")
    /\ operations' = IF LedgerAsBefore
                     THEN [operations EXCEPT !.schema = "new"] ELSE operations
    /\ Go("operations")
    /\ UNCHANGED <<database, saved, journal, aliased, Counters>>

RecordOperations ==
    /\ At("operations")
    /\ IF operations.schema = "new" /\ LedgerKept
       THEN Phase("operations_migrated", "verify")
       ELSE Refuse

\* Verified before the operations ledger was compared (a fault).
RecordVerified_Early ==
    /\ command.pc \in {"ledger", "verify"}
    /\ command.before \in saved
    /\ Phase("verified", "done")

\* The backup is verified again and the receipt written.
RecordVerified ==
    /\ At("verify")
    /\ command.before \in saved
    /\ Phase("verified", "done")

Finish == At("done") /\ Refuse

\* The process dies or an exception ends it: the journal keeps what it has.
\* An exception in the middle of the migration leaves the database as a crash does.
Abort ==
    /\ command # Idle /\ ~At("done")
    /\ At("certify") => TornMigration
    /\ aborts < MaxAborts /\ aborts' = aborts + 1
    /\ command' = Idle
    /\ UNCHANGED <<database, operations, saved, journal, aliased, alerts, ingests>>

------------------------------------------------------------------------------
\* Other commands

\* Any command that records an incident opens the ledger for writing, with no
\* lease, and migrates it if nobody has.
Migrated(ledger) == [schema |-> "new", rows |-> ledger.rows + 1]

RaiseAlert ==
    /\ alerts < MaxAlerts /\ alerts' = alerts + 1
    /\ operations' = Migrated(operations)
    /\ UNCHANGED <<database, saved, journal, aliased, command, aborts, ingests>>

\* An ingest under the lease; a store with a pending migration refuses to open.
Ingest ==
    /\ command = Idle /\ database.schema = "new"
    /\ ingests < MaxIngests /\ ingests' = ingests + 1
    /\ database' = [database EXCEPT !.rows = @ + 1]
    /\ UNCHANGED <<operations, saved, journal, aliased, command, aborts, alerts>>

\* A restore backs the live state up, records an incident, and puts back the
\* analytical database, migrated in the staging area; the ledger stays.
Restore(pair) ==
    /\ command = Idle /\ Classified(database)
    /\ alerts < MaxAlerts /\ alerts' = alerts + 1
    /\ saved' = saved \cup {Live}
    /\ operations' = Migrated(operations)
    /\ database' = Upgraded(pair).database
    /\ UNCHANGED <<journal, aliased, command, aborts, ingests>>

Resume ==
    \/ Prepare \/ MigrateDatabase \/ CertifyDatabase \/ RecordDatabase
    \/ MigrateOperations \/ RecordOperations \/ RecordVerified \/ Finish

Next ==
    \/ \E a \in Attempts : Backup(a) \/ StartRecovery(a)
    \/ Resume
    \/ Abort \/ RaiseAlert \/ Ingest
    \/ \E pair \in saved : Restore(pair)

Spec == Init /\ [][Next]_vars

\* The operator repeats the recovery of an attempt until it is verified.
FairSpec ==
    /\ Spec /\ WF_vars(Resume)
    /\ \A a \in Attempts : SF_vars(StartRecovery(a))

------------------------------------------------------------------------------
Databases == [schema : {"old", "partial", "new"}, rows : 0 .. MaxIngests]
Ledgers == [schema : {"old", "new"}, rows : 0 .. MaxAlerts]
Pairs == [database : {db \in Databases : Classified(db)}, operations : Ledgers]

\* Only databases that can be classified are ever backed up, and the counters
\* stay within their bounds.
TypeOK ==
    /\ database \in Databases /\ operations \in Ledgers
    /\ saved \subseteq Pairs
    /\ \A a \in Attempts, p \in Phases :
          \/ journal[a][p] = Missing
          \/ \E before \in Pairs : journal[a][p] = Evidence(before, p)
    /\ aliased \subseteq Attempts \X Phases
    /\ \/ command = Idle
       \/ command \in [pc : {"compare", "migrate", "certify", "analytical", "ledger",
                             "operations", "verify", "done"},
                       attempt : Attempts, before : Pairs]
    /\ aborts \in 0 .. MaxAborts /\ alerts \in 0 .. MaxAlerts
    /\ ingests \in 0 .. MaxIngests

\* Every journal tells one story: no phase without the one before it, and all
\* phases of an attempt, written by whichever run of whichever command, record
\* what the rehearsal of the very backup of its prepared phase gave
\* (_write_upgrade_phase, the chain checks of recovery).
OneStory ==
    LET before(a) == journal[a]["prepared"]
        Follows(a, p, q) == journal[a][q] # Missing => journal[a][p] # Missing
    IN  \A a \in Attempts :
          /\ Follows(a, "prepared", "analytical_migrated")
          /\ Follows(a, "analytical_migrated", "operations_migrated")
          /\ Follows(a, "operations_migrated", "verified")
          /\ before(a) # Missing => before(a) \in saved
          /\ \A p \in Phases : journal[a][p] # Missing => journal[a][p] = Evidence(before(a), p)

\* Once an attempt is verified both live databases have the new schema, and no
\* later crash, second attempt or restore of an older backup takes it from them.
BothUpgraded ==
    (\E a \in Attempts : journal[a]["verified"] # Missing)
        => database.schema = "new" /\ operations.schema = "new"

\* The analytical database leaves its old schema only from a state that a
\* verified backup has (_upgrade_local_state_under_lease, restore_local_backup).
DatabaseBackupFirst ==
    [][(database.schema = "old" /\ database' # database)
          => (\E pair \in saved' : pair.database = database)]_vars

\* The same of the operations ledger.
OperationsBackupFirst ==
    [][(operations.schema = "old" /\ operations' # operations)
          => (\E pair \in saved' : pair.operations = operations)]_vars

\* What recovery of attempt a does not get past: a half-migrated database, a
\* phase file with two names, and rows that were added since its backup.
Obstructed(a) ==
    LET before == journal[a]["prepared"]
    IN  before # Missing =>
        \/ database.schema = "partial"
        \/ \E p \in Phases : <<a, p>> \in aliased
        \/ <<database.rows, operations.rows>> # <<before.database.rows, before.operations.rows>>

\* A prepared attempt is completed by repeated recoveries, whatever interrupts
\* them between two steps, unless one of these obstructs it.
RecoveryResumes ==
    \A a \in Attempts :
        (journal[a]["prepared"] # Missing)
            ~> (journal[a]["verified"] # Missing \/ Obstructed(a))

\* A prepared attempt is completed "after a phase-publication or process
\* failure" (ARCHITECTURE.md).
EveryAttemptResumes ==
    \A a \in Attempts :
        (journal[a]["prepared"] # Missing) ~> (journal[a]["verified"] # Missing)

\* The invariant of the upgrade: databases and journals have their types, each
\* journal tells one story, and a verified upgrade is never taken back
\* (_write_upgrade_phase).
UpgradeInv == TypeOK /\ OneStory /\ BothUpgraded

==============================================================================
