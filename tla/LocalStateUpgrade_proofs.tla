----------------------- MODULE LocalStateUpgrade_proofs -----------------------
(***************************************************************************)
(* Proofs about LocalStateUpgrade.  UpgradeInv is not inductive: a phase   *)
(* is published long after what it records was checked.  CommandInv says   *)
(* what the running command may rely on in between, because every other    *)
(* command that changes the analytical database, and every writer of the   *)
(* journal, needs the lease; the operations ledger changes without it, but *)
(* only towards the new schema.                                            *)
(***************************************************************************)
EXTENDS LocalStateUpgrade, TLAPS

\* What a command has done when it is at a later step.
AfterDatabase == {"ledger", "operations", "verify", "done"}
AfterOperations == {"verify", "done"}

CommandInv ==
    command # Idle =>
        /\ command.before \in saved
        /\ command.pc = "compare" => journal[command.attempt]["prepared"] = Missing
        /\ command.pc # "compare" => journal[command.attempt]["prepared"] = command.before
        /\ command.pc = "certify" => database.schema = "partial"
        /\ command.pc \in AfterDatabase =>
              /\ database.schema = "new"
              /\ journal[command.attempt]["analytical_migrated"] # Missing
        /\ command.pc \in AfterOperations =>
              /\ operations.schema = "new"
              /\ journal[command.attempt]["operations_migrated"] # Missing

Journals == journal \in [Attempts -> [Phases -> {Missing} \cup Databases \cup Ledgers \cup Pairs]]

\* No more rows than were added; a restore brings back no more than a backup had.
Counted ==
    /\ operations.rows <= alerts /\ database.rows <= ingests
    /\ \A pair \in saved : pair.database.rows <= ingests

IInv == UpgradeInv /\ Journals /\ CommandInv /\ Counted

-----------------------------------------------------------------------------
(* Databases, pairs of them and phases.                                    *)

LEMMA Kinds ==
    /\ \A x \in Databases \cup Ledgers \cup Pairs : x # Missing
    /\ \A b \in Pairs : /\ Upgraded(b) \in Pairs
                        /\ Upgraded(b).database.schema = "new"
                        /\ Upgraded(b).operations.schema = "new"
<1>1. ASSUME NEW x \in Databases \cup Ledgers \cup Pairs PROVE x # Missing
  <2>1. DOMAIN Missing = {"kind"}
    BY DEF Missing
  <2>2. "kind" \notin DOMAIN x
    BY DEF Databases, Ledgers, Pairs
  <2> QED BY <2>1, <2>2
<1>2. ASSUME NEW b \in Pairs
      PROVE  /\ Upgraded(b) \in Pairs
             /\ Upgraded(b).database.schema = "new" /\ Upgraded(b).operations.schema = "new"
  BY DEF Pairs, Databases, Ledgers, Classified, Upgraded
<1> QED BY <1>1, <1>2

LEMMA EvidenceTyped ==
    ASSUME NEW b \in Pairs, NEW p \in Phases
    PROVE  /\ Evidence(b, p) \in Databases \cup Ledgers \cup Pairs
           /\ Evidence(b, p) # Missing
<1>1. b.database \in Databases /\ b.operations \in Ledgers
  BY DEF Pairs
<1>2. Upgraded(b).database \in Databases /\ Upgraded(b).operations \in Ledgers
  BY Kinds DEF Pairs
<1>3. Evidence(b, p) \in Databases \cup Ledgers \cup Pairs
  BY <1>1, <1>2, Kinds DEF Evidence, Phases
<1> QED BY <1>3, Kinds

\* A command that is at some step has its attempt and its backup.
LEMMA Running ==
    ASSUME TypeOK, command.pc # "idle"
    PROVE  /\ command # Idle
           /\ command \in [pc : {"compare", "migrate", "certify", "analytical", "ledger",
                                 "operations", "verify", "done"},
                           attempt : Attempts, before : Pairs]
  BY DEF TypeOK, Idle

\* One more phase, evidence of the attempt's own backup, continues its story.
LEMMA StoryContinues ==
    ASSUME TypeOK, OneStory, Journals, NEW a \in Attempts, NEW b \in saved, NEW p \in Phases,
           journal[a][p] = Missing,
           journal' = [journal EXCEPT ![a][p] = Evidence(b, p)],
           saved' = saved,
           p # "prepared" => journal[a]["prepared"] = b,
           p = "operations_migrated" => journal[a]["analytical_migrated"] # Missing,
           p = "verified" => journal[a]["operations_migrated"] # Missing
    PROVE  OneStory' /\ Journals' /\ (\A q \in Phases : journal[a][q] # Missing => journal'[a][q] = journal[a][q])
<1>1. b \in Pairs
  BY DEF TypeOK
<1>2. Evidence(b, p) \in Databases \cup Ledgers \cup Pairs /\ Evidence(b, p) # Missing
  BY <1>1, EvidenceTyped
<1>3. /\ journal'[a][p] = Evidence(b, p)
      /\ \A q \in Phases : q # p => journal'[a][q] = journal[a][q]
      /\ \A c \in Attempts : c # a => journal'[c] = journal[c]
  BY DEF Journals
<1>4. Journals'
  BY <1>2 DEF Journals
<1>5. journal'[a]["prepared"] = b
  BY <1>3 DEF Evidence, Phases
<1>6. p = "prepared" => \A q \in Phases : journal[a][q] = Missing
  BY DEF OneStory, Phases
<1>7. ASSUME NEW q \in Phases, journal'[a][q] # Missing
      PROVE  journal'[a][q] = Evidence(b, q)
  BY <1>3, <1>6, <1>7 DEF OneStory
<1>8. p # "prepared" => journal[a]["prepared"] # Missing
  BY <1>1, Kinds
<1>9. OneStory'
  <2> SUFFICES ASSUME NEW c \in Attempts
               PROVE  LET x == journal'[c]["prepared"]
                          F(q, r) == journal'[c][r] # Missing => journal'[c][q] # Missing
                      IN  /\ F("prepared", "analytical_migrated")
                          /\ F("analytical_migrated", "operations_migrated")
                          /\ F("operations_migrated", "verified")
                          /\ x # Missing => x \in saved
                          /\ \A q \in Phases : journal'[c][q] # Missing
                                                 => journal'[c][q] = Evidence(x, q)
    BY DEF OneStory
  <2>1. CASE c # a
    BY <2>1, <1>3 DEF OneStory
  <2>2. CASE c = a
    <3>1. \A q \in Phases : journal'[a][q] # Missing => journal'[a][q] = Evidence(journal'[a]["prepared"], q)
      BY <1>5, <1>7
    <3>2. /\ journal'[a]["analytical_migrated"] # Missing => journal'[a]["prepared"] # Missing
          /\ journal'[a]["operations_migrated"] # Missing
               => journal'[a]["analytical_migrated"] # Missing
          /\ journal'[a]["verified"] # Missing => journal'[a]["operations_migrated"] # Missing
      BY <1>2, <1>3, <1>6, <1>8 DEF OneStory, Phases
    <3> QED BY <2>2, <3>1, <3>2, <1>5
  <2> QED BY <2>1, <2>2
<1> QED BY <1>3, <1>4, <1>9

-----------------------------------------------------------------------------
(* The steps.                                                              *)

LEMMA InitIInv == Init => IInv
<1> SUFFICES ASSUME Init PROVE IInv
  OBVIOUS
<1>1. TypeOK
  BY UpgradeBounds DEF Init, TypeOK, Databases, Ledgers
<1>2. OneStory /\ BothUpgraded /\ Journals
  BY DEF Init, OneStory, BothUpgraded, Journals, Phases
<1>3. CommandInv
  BY DEF Init, CommandInv
<1>4. Counted
  BY DEF Init, Counted
<1> QED BY <1>1, <1>2, <1>3, <1>4 DEF IInv, UpgradeInv

\* What the command still has to do and what it may rely on: as CommandInv says
\* of a command that goes to step `next` once phase p is published.
Ready(p, next) ==
    /\ next # "certify"
    /\ p # "prepared" => journal[command.attempt]["prepared"] = command.before
    /\ p = "operations_migrated" => journal[command.attempt]["analytical_migrated"] # Missing
    /\ p = "verified" => /\ journal[command.attempt]["operations_migrated"] # Missing
                         /\ database.schema = "new" /\ operations.schema = "new"
    /\ next \in AfterDatabase =>
          /\ database.schema = "new"
          /\ journal[command.attempt]["analytical_migrated"] # Missing \/ p = "analytical_migrated"
    /\ next \in AfterOperations =>
          /\ operations.schema = "new"
          /\ journal[command.attempt]["operations_migrated"] # Missing \/ p = "operations_migrated"

Later == {"migrate", "certify", "analytical", "ledger", "operations", "verify", "done"}

LEMMA PublishStep ==
    ASSUME IInv, command.pc # "idle", NEW p \in Phases, NEW next \in Later,
           journal[command.attempt][p] = Missing, Ready(p, next),
           Publish(p, next), UNCHANGED <<database, operations, saved, alerts, ingests>>
    PROVE  IInv'
<1> DEFINE a == command.attempt  b == command.before
<1>1. /\ command # Idle
      /\ command \in [pc : {"compare"} \cup Later, attempt : Attempts, before : Pairs]
      /\ a \in Attempts /\ b \in saved /\ b \in Pairs
  BY Running DEF IInv, UpgradeInv, CommandInv, Later
<1>2. journal' = [journal EXCEPT ![a][p] = Evidence(b, p)]
  BY DEF Publish
<1>3. /\ OneStory' /\ Journals'
      /\ \A q \in Phases : journal[a][q] # Missing => journal'[a][q] = journal[a][q]
  BY <1>1, <1>2, StoryContinues DEF IInv, UpgradeInv, Ready
<1>4. journal'[a][p] # Missing
  BY <1>1, <1>2, EvidenceTyped DEF IInv, Journals
<1>5. journal'[a]["prepared"] = b
  <2>1. CASE p = "prepared"
    BY <2>1, <1>1, <1>2 DEF IInv, Journals, Evidence
  <2>2. CASE p # "prepared"
    BY <2>2, <1>1, <1>2 DEF IInv, Journals, Ready, Phases
  <2> QED BY <2>1, <2>2
<1>6. \/ command' = [command EXCEPT !.pc = next] /\ UNCHANGED <<aliased, aborts>>
      \/ /\ aborts < MaxAborts /\ aborts' = aborts + 1
         /\ aliased' = aliased \cup {<<a, p>>} /\ command' = Idle
  BY DEF Publish, Go
<1>7. command' = Idle \/ command' \in [pc : Later, attempt : Attempts, before : Pairs]
  BY <1>1, <1>6
<1>8. TypeOK'
  <2>1. \A c \in Attempts, q \in Phases :
           journal'[c][q] = Missing \/ \E x \in Pairs : journal'[c][q] = Evidence(x, q)
    BY <1>3 DEF OneStory, IInv, UpgradeInv, TypeOK, Phases
  <2>2. aliased' \subseteq Attempts \X Phases
    BY <1>1, <1>6 DEF IInv, UpgradeInv, TypeOK
  <2>3. aborts' \in 0 .. MaxAborts
    BY <1>6, UpgradeBounds DEF IInv, UpgradeInv, TypeOK
  <2> QED BY <2>1, <2>2, <2>3, <1>7 DEF IInv, UpgradeInv, TypeOK, Later
<1>9. BothUpgraded'
  <2>1. CASE p = "verified"
    BY <2>1 DEF Ready, BothUpgraded
  <2>2. CASE p # "verified"
    <3>1. \A c \in Attempts : journal'[c]["verified"] = journal[c]["verified"]
      BY <2>2, <1>2 DEF IInv, Journals, Phases
    <3> QED BY <3>1 DEF IInv, UpgradeInv, BothUpgraded
  <2> QED BY <2>1, <2>2
<1>10. CommandInv'
  <2>1. CASE command' = Idle
    BY <2>1 DEF CommandInv
  <2>2. CASE command' = [command EXCEPT !.pc = next]
    <3>1. command'.pc = next /\ command'.attempt = a /\ command'.before = b
      BY <2>2, <1>1
    <3>2. next # "compare"
      BY DEF Later
    <3>3. next \in AfterDatabase => journal'[a]["analytical_migrated"] # Missing
      BY <1>3, <1>4 DEF Ready, Phases
    <3>4. next \in AfterOperations => journal'[a]["operations_migrated"] # Missing
      BY <1>3, <1>4 DEF Ready, Phases
    <3> QED BY <3>1, <3>2, <3>3, <3>4, <1>1, <1>5 DEF CommandInv, Ready
  <2> QED BY <2>1, <2>2, <1>6
<1>11. Counted'
  BY DEF IInv, Counted
<1> QED BY <1>3, <1>8, <1>9, <1>10, <1>11 DEF IInv, UpgradeInv

\* A step that leaves the journal alone, loses no backup, keeps the databases
\* typed and takes no new schema back.
LEMMA QuietStep ==
    ASSUME IInv, UNCHANGED journal, saved \subseteq saved', saved' \subseteq Pairs,
           database' \in Databases, operations' \in Ledgers,
           aliased' = aliased, aborts' \in 0 .. MaxAborts, alerts' \in 0 .. MaxAlerts,
           ingests' \in 0 .. MaxIngests,
           database.schema = "new" => database'.schema = "new",
           operations.schema = "new" => operations'.schema = "new",
           \/ command' = Idle
           \/ command' \in [pc : {"compare"} \cup Later, attempt : Attempts, before : Pairs],
           CommandInv', Counted'
    PROVE  IInv'
<1>1. TypeOK'
  BY DEF IInv, UpgradeInv, TypeOK, Later
<1>2. OneStory' /\ Journals' /\ BothUpgraded'
  BY DEF IInv, UpgradeInv, OneStory, Journals, BothUpgraded
<1> QED BY <1>1, <1>2 DEF IInv, UpgradeInv

\* The command gives up, dies or is done.
LEMMA EndStep ==
    ASSUME IInv, command' = Idle, aborts' \in 0 .. MaxAborts,
           UNCHANGED <<database, operations, saved, journal, aliased, alerts, ingests>>
    PROVE  IInv'
<1>1. CommandInv' /\ Counted'
  BY DEF CommandInv, Counted, IInv
<1> QED BY <1>1, QuietStep DEF IInv, UpgradeInv, TypeOK

\* Backup and preparation.
LEMMA BackupStep == ASSUME IInv, NEW a \in Attempts, Backup(a) PROVE IInv'
<1>1. Live \in Pairs
  BY DEF Live, Pairs, Backup, IInv, UpgradeInv, TypeOK
<1>2. command' = [pc |-> "compare", attempt |-> a, before |-> Live]
  BY DEF Backup
<1>3. CommandInv' /\ Counted'
  BY <1>2 DEF CommandInv, Counted, Backup, Live, Counters, AfterDatabase, AfterOperations, IInv
<1> QED
  BY <1>1, <1>2, <1>3, QuietStep DEF Backup, Counters, IInv, UpgradeInv, TypeOK

LEMMA PrepareStep == ASSUME IInv, Prepare PROVE IInv'
<1>1. command.pc = "compare" /\ command.pc # "idle" /\ command # Idle
  BY DEF Prepare, At, Idle
<1>2. journal[command.attempt]["prepared"] = Missing
  BY <1>1 DEF IInv, CommandInv
<1>3. CASE DatabaseAsBefore /\ LedgerAsBefore
  <2>1. Publish("prepared", "migrate") /\ UNCHANGED <<database, operations, saved, alerts, ingests>>
    BY <1>3 DEF Prepare
  <2>2. Ready("prepared", "migrate")
    BY DEF Ready, AfterDatabase, AfterOperations
  <2> QED BY <1>1, <1>2, <2>1, <2>2, PublishStep DEF Phases, Later
<1>4. CASE ~(DatabaseAsBefore /\ LedgerAsBefore)
  BY <1>4, EndStep DEF Prepare, Refuse, Counters, IInv, UpgradeInv, TypeOK
<1> QED BY <1>3, <1>4

LEMMA StartRecoveryStep == ASSUME IInv, NEW a \in Attempts, StartRecovery(a) PROVE IInv'
<1>1. journal[a]["prepared"] \in saved /\ journal[a]["prepared"] \in Pairs
  BY DEF StartRecovery, IInv, UpgradeInv, TypeOK
<1>2. command' = [pc |-> "migrate", attempt |-> a, before |-> journal[a]["prepared"]]
  BY DEF StartRecovery
<1>3. CommandInv' /\ Counted'
  BY <1>1, <1>2 DEF CommandInv, Counted, StartRecovery, Counters, AfterDatabase,
                    AfterOperations, IInv
<1> QED
  BY <1>1, <1>2, <1>3, QuietStep DEF StartRecovery, Counters, IInv, UpgradeInv, TypeOK, Later

\* A step of the command that publishes nothing.
LEMMA GoStep ==
    ASSUME IInv, NEW next \in Later, command.pc \in Later, Go(next),
           UNCHANGED <<saved, journal, aliased, Counters>>,
           database' \in Databases, operations' \in Ledgers,
           database.schema = "new" => database'.schema = "new",
           operations.schema = "new" => operations'.schema = "new",
           database'.rows = database.rows, operations'.rows = operations.rows,
           next = "certify" => database'.schema = "partial",
           next \in AfterDatabase => /\ database'.schema = "new"
                                     /\ journal[command.attempt]["analytical_migrated"] # Missing,
           next \in AfterOperations => /\ operations'.schema = "new"
                                       /\ journal[command.attempt]["operations_migrated"] # Missing
    PROVE  IInv'
<1>1. /\ command # Idle
      /\ command \in [pc : {"compare"} \cup Later, attempt : Attempts, before : Pairs]
  BY Running DEF IInv, UpgradeInv, Later
<1>2. /\ command' \in [pc : Later, attempt : Attempts, before : Pairs]
      /\ command'.pc = next /\ command'.attempt = command.attempt
      /\ command'.before = command.before
  BY <1>1 DEF Go
<1>3. command.before \in saved /\ journal[command.attempt]["prepared"] = command.before
  BY <1>1 DEF IInv, CommandInv, Later
<1>4. CommandInv'
  BY <1>2, <1>3 DEF CommandInv, Later
<1>5. Counted'
  BY DEF IInv, Counted, Counters
<1> QED BY <1>2, <1>4, <1>5, QuietStep DEF IInv, UpgradeInv, TypeOK, Counters

LEMMA MigrateDatabaseStep == ASSUME IInv, MigrateDatabase PROVE IInv'
<1>1. command.pc = "migrate" /\ database \in Databases /\ operations \in Ledgers
  BY DEF MigrateDatabase, At, IInv, UpgradeInv, TypeOK
<1>2. CASE DatabaseAsBefore /\ database.schema = "old"
  <2>1. database' = [database EXCEPT !.schema = "partial"] /\ Go("certify")
    BY <1>2 DEF MigrateDatabase
  <2>2. /\ database' \in Databases /\ database'.rows = database.rows
        /\ database'.schema = "partial"
    BY <1>1, <2>1 DEF Databases
  <2> QED BY <1>1, <1>2, <2>1, <2>2, GoStep
         DEF MigrateDatabase, Later, AfterDatabase, AfterOperations
<1>3. CASE ~(DatabaseAsBefore /\ database.schema = "old")
  BY <1>1, <1>3, GoStep DEF MigrateDatabase, Later, AfterDatabase, AfterOperations
<1> QED BY <1>2, <1>3

LEMMA CertifyDatabaseStep == ASSUME IInv, CertifyDatabase PROVE IInv'
<1>1. command.pc = "certify" /\ database \in Databases /\ operations \in Ledgers
  BY DEF CertifyDatabase, At, IInv, UpgradeInv, TypeOK
<1>2. database' = [database EXCEPT !.schema = "new"] /\ Go("analytical")
  BY DEF CertifyDatabase
<1>3. database' \in Databases /\ database'.schema = "new" /\ database'.rows = database.rows
  BY <1>1, <1>2 DEF Databases
<1> QED BY <1>1, <1>2, <1>3, GoStep
       DEF CertifyDatabase, Later, AfterDatabase, AfterOperations

LEMMA MigrateOperationsStep == ASSUME IInv, MigrateOperations PROVE IInv'
<1>1. command.pc = "ledger" /\ command # Idle /\ database \in Databases /\ operations \in Ledgers
  BY DEF MigrateOperations, At, IInv, UpgradeInv, TypeOK, Idle
<1>2. Go("operations") /\ operations' \in {operations, [operations EXCEPT !.schema = "new"]}
  BY DEF MigrateOperations
<1>3. /\ operations' \in Ledgers /\ operations'.rows = operations.rows
      /\ operations.schema = "new" => operations'.schema = "new"
  BY <1>1, <1>2 DEF Ledgers
<1>4. database.schema = "new" /\ journal[command.attempt]["analytical_migrated"] # Missing
  BY <1>1 DEF IInv, CommandInv, AfterDatabase
<1> QED BY <1>1, <1>2, <1>3, <1>4, GoStep DEF MigrateOperations, Later, AfterOperations

\* A phase is published or found as it has to be; else the command gives up.
LEMMA PhaseStep ==
    ASSUME IInv, command.pc \in Later, NEW p \in Phases, NEW next \in Later, Ready(p, next),
           Phase(p, next)
    PROVE  IInv'
<1>1. command.pc # "idle"
  BY DEF Later
<1>2. CASE journal[command.attempt][p] = Missing
  BY <1>1, <1>2, PublishStep DEF Phase
<1>3. CASE journal[command.attempt][p] # Missing /\ PhaseStands(p)
  <2>1. Go(next) /\ UNCHANGED <<database, operations, saved, journal, aliased, Counters>>
    BY <1>3 DEF Phase
  <2>2. /\ next \in AfterDatabase => journal[command.attempt]["analytical_migrated"] # Missing
        /\ next \in AfterOperations => journal[command.attempt]["operations_migrated"] # Missing
    BY <1>3 DEF Ready
  <2> QED BY <2>1, <2>2, GoStep DEF Ready, IInv, UpgradeInv, TypeOK
<1>4. CASE journal[command.attempt][p] # Missing /\ ~PhaseStands(p)
  BY <1>4, EndStep DEF Phase, Refuse, Counters, IInv, UpgradeInv, TypeOK
<1> QED BY <1>2, <1>3, <1>4

LEMMA RecordDatabaseStep == ASSUME IInv, RecordDatabase PROVE IInv'
<1>1. command.pc = "analytical" /\ command # Idle
  BY DEF RecordDatabase, At, Idle
<1>2. CASE SchemaComplete /\ DatabaseKept
  <2>1. Ready("analytical_migrated", "ledger")
    BY <1>1, <1>2 DEF Ready, IInv, CommandInv, SchemaComplete, AfterOperations
  <2> QED BY <1>1, <1>2, <2>1, PhaseStep DEF RecordDatabase, Later, Phases
<1>3. CASE ~(SchemaComplete /\ DatabaseKept)
  BY <1>3, EndStep DEF RecordDatabase, Refuse, Counters, IInv, UpgradeInv, TypeOK
<1> QED BY <1>2, <1>3

LEMMA RecordOperationsStep == ASSUME IInv, RecordOperations PROVE IInv'
<1>1. command.pc = "operations" /\ command # Idle
  BY DEF RecordOperations, At, Idle
<1>2. CASE operations.schema = "new" /\ LedgerKept
  <2>1. Ready("operations_migrated", "verify")
    BY <1>1, <1>2 DEF Ready, IInv, CommandInv, AfterDatabase
  <2> QED BY <1>1, <1>2, <2>1, PhaseStep DEF RecordOperations, Later, Phases
<1>3. CASE ~(operations.schema = "new" /\ LedgerKept)
  BY <1>3, EndStep DEF RecordOperations, Refuse, Counters, IInv, UpgradeInv, TypeOK
<1> QED BY <1>2, <1>3

LEMMA RecordVerifiedStep == ASSUME IInv, RecordVerified PROVE IInv'
<1>1. command.pc = "verify" /\ command # Idle
  BY DEF RecordVerified, At, Idle
<1>2. Ready("verified", "done")
  BY <1>1 DEF Ready, IInv, CommandInv, AfterDatabase, AfterOperations
<1> QED BY <1>1, <1>2, PhaseStep DEF RecordVerified, Later, Phases

\* An alert migrates the ledger while a command is between two of its steps.
LEMMA RaiseAlertStep == ASSUME IInv, RaiseAlert PROVE IInv'
<1>1. operations' = [schema |-> "new", rows |-> operations.rows + 1] /\ alerts' = alerts + 1
  BY DEF RaiseAlert, Migrated
<1>2. operations' \in Ledgers /\ operations'.rows <= alerts' /\ alerts' \in 0 .. MaxAlerts
  BY <1>1, UpgradeBounds DEF RaiseAlert, IInv, UpgradeInv, TypeOK, Ledgers, Counted
<1>3. command' = Idle \/ command' \in [pc : {"compare"} \cup Later, attempt : Attempts, before : Pairs]
  BY DEF RaiseAlert, IInv, UpgradeInv, TypeOK, Later
<1>4. CommandInv' /\ Counted'
  BY <1>1, <1>2 DEF CommandInv, Counted, RaiseAlert, IInv
<1> QED BY <1>1, <1>2, <1>3, <1>4, QuietStep DEF RaiseAlert, IInv, UpgradeInv, TypeOK

LEMMA IngestStep == ASSUME IInv, Ingest PROVE IInv'
<1>1. database' = [database EXCEPT !.rows = @ + 1] /\ database.schema = "new" /\ ingests' = ingests + 1
  BY DEF Ingest
<1>2. /\ database' \in Databases /\ database'.schema = "new"
      /\ database'.rows <= ingests' /\ ingests' \in 0 .. MaxIngests
  BY <1>1, UpgradeBounds DEF Ingest, IInv, UpgradeInv, TypeOK, Databases, Counted
<1>3. CommandInv'
  BY DEF CommandInv, Ingest, IInv
<1>4. Counted'
  <2>1. \A pair \in saved : pair.database.rows \in Nat
    BY DEF IInv, UpgradeInv, TypeOK, Pairs, Databases
  <2> QED BY <2>1, <1>1, <1>2, UpgradeBounds DEF Counted, Ingest, IInv, UpgradeInv, TypeOK
<1> QED BY <1>1, <1>2, <1>3, <1>4, QuietStep DEF Ingest, IInv, UpgradeInv, TypeOK

LEMMA RestoreStep == ASSUME IInv, NEW pair \in saved, Restore(pair) PROVE IInv'
<1>1. /\ operations' = [schema |-> "new", rows |-> operations.rows + 1] /\ alerts' = alerts + 1
      /\ database' = [pair.database EXCEPT !.schema = "new"]
      /\ saved' = saved \cup {Live} /\ command = Idle
  BY DEF Restore, Migrated, Upgraded
<1>2. operations' \in Ledgers /\ operations'.rows <= alerts' /\ alerts' \in 0 .. MaxAlerts
  BY <1>1, UpgradeBounds DEF Restore, IInv, UpgradeInv, TypeOK, Ledgers, Counted
<1>3. /\ pair \in Pairs /\ pair.database \in Databases
      /\ database' \in Databases /\ database'.schema = "new" /\ database'.rows = pair.database.rows
  BY <1>1 DEF IInv, UpgradeInv, TypeOK, Pairs, Databases
<1>4. Live \in Pairs
  BY DEF Live, Pairs, Restore, IInv, UpgradeInv, TypeOK
<1>5. CommandInv'
  BY <1>1 DEF CommandInv, Restore
<1>6. Counted'
  BY <1>1, <1>2, <1>3 DEF Counted, Restore, IInv, Live
<1> QED BY <1>1, <1>2, <1>3, <1>4, <1>5, <1>6, QuietStep DEF Restore, IInv, UpgradeInv, TypeOK

-----------------------------------------------------------------------------
(* The theorems.                                                           *)

LEMMA NextIInv == IInv /\ [Next]_vars => IInv'
<1> SUFFICES ASSUME IInv, [Next]_vars PROVE IInv'
  OBVIOUS
<1>1. ASSUME NEW a \in Attempts, Backup(a) PROVE IInv'
  BY <1>1, BackupStep
<1>2. ASSUME NEW a \in Attempts, StartRecovery(a) PROVE IInv'
  BY <1>2, StartRecoveryStep
<1>3. CASE Resume
  <2>1. CASE Finish
    BY <2>1, EndStep DEF Finish, Refuse, Counters, IInv, UpgradeInv, TypeOK
  <2> QED
    BY <1>3, <2>1, PrepareStep, MigrateDatabaseStep, CertifyDatabaseStep, RecordDatabaseStep,
       MigrateOperationsStep, RecordOperationsStep, RecordVerifiedStep DEF Resume
<1>4. CASE Abort
  BY <1>4, EndStep, UpgradeBounds DEF Abort, IInv, UpgradeInv, TypeOK
<1>5. CASE RaiseAlert \/ Ingest
  BY <1>5, RaiseAlertStep, IngestStep
<1>6. ASSUME NEW pair \in saved, Restore(pair) PROVE IInv'
  BY <1>6, RestoreStep
<1>7. CASE UNCHANGED vars
  BY <1>7 DEF vars, IInv, UpgradeInv, TypeOK, OneStory, BothUpgraded, Journals, CommandInv,
              Counted
<1> QED BY <1>1, <1>2, <1>3, <1>4, <1>5, <1>6, <1>7 DEF Next

\* Whatever is interrupted, repeated, restored or added in between: journals
\* tell one story, and a verified upgrade is never taken back
\* (upgrade_local_state, recover_local_state_upgrade).
THEOREM UpgradeHolds == Spec => []UpgradeInv
<1>1. IInv => UpgradeInv
  BY DEF IInv
<1> QED BY <1>1, InitIInv, NextIInv, PTL DEF Spec

\* The analytical database is migrated only from a state that a verified backup
\* has (_upgrade_local_state_under_lease).
THEOREM BackedUpFirst == Spec => DatabaseBackupFirst
<1>1. IInv /\ [Next]_vars =>
        [(database.schema = "old" /\ database' # database)
            => (\E pair \in saved' : pair.database = database)]_vars
  <2> SUFFICES ASSUME IInv, Next, database.schema = "old", database' # database
               PROVE  \E pair \in saved' : pair.database = database
    BY DEF vars
  <2>1. CASE MigrateDatabase
    <3>1. DatabaseAsBefore /\ command.pc = "migrate" /\ UNCHANGED saved
      BY <2>1 DEF MigrateDatabase, At
    <3>2. command.before \in saved
      BY <3>1 DEF IInv, CommandInv, Idle
    <3> QED BY <3>1, <3>2 DEF DatabaseAsBefore
  <2>2. ASSUME NEW pair \in saved, Restore(pair)
        PROVE  \E x \in saved' : x.database = database
    <3>1. Live \in saved'
      BY <2>2 DEF Restore
    <3> QED BY <3>1 DEF Live
  <2>3. ~CertifyDatabase /\ ~Ingest
    BY DEF CertifyDatabase, Ingest, At, IInv, CommandInv, Idle
  <2>4. UNCHANGED database \/ MigrateDatabase \/ CertifyDatabase \/ Ingest
          \/ (\E pair \in saved : Restore(pair))
    <3>1. Prepare \/ RecordDatabase \/ RecordOperations \/ RecordVerified \/ Finish
            => UNCHANGED database
      BY DEF Prepare, RecordDatabase, RecordOperations, RecordVerified, Finish, Refuse, Phase
    <3>2. MigrateOperations \/ Abort \/ RaiseAlert => UNCHANGED database
      BY DEF MigrateOperations, Abort, RaiseAlert
    <3>3. (\E a \in Attempts : Backup(a) \/ StartRecovery(a)) => UNCHANGED database
      BY DEF Backup, StartRecovery
    <3> QED BY <3>1, <3>2, <3>3 DEF Next, Resume
  <2> QED BY <2>1, <2>2, <2>3, <2>4
<1> QED BY <1>1, InitIInv, NextIInv, PTL DEF Spec, DatabaseBackupFirst
===============================================================================
