---------------------------- MODULE BackupRestore ----------------------------
(***************************************************************************)
(* Backups and their restoration (operations.py).                          *)
(*                                                                         *)
(* Live state is the analytical database, the directory of paper documents *)
(* and the raw provider evidence. A backup is a verified copy of all three.*)
(* A restore validates a staged copy, takes a safety backup, marks the     *)
(* operations evidence stale, merges the raw files, and then swaps first   *)
(* the paper directory and last the database. An exception puts the paper  *)
(* directory back; a crash does not. Everything holds the maintenance      *)
(* lease, so that one command runs at a time.                              *)
(*                                                                         *)
(* The database is the set of facts ingested into it; every fact has one   *)
(* raw file; the paper documents rest on the facts they were made from.    *)
(***************************************************************************)
EXTENDS Naturals, FiniteSets

CONSTANTS
    Facts,        \* facts and, one to one, their raw files
    MaxBackups,   \* bound: backups the operator makes
    MaxRestores,  \* bound: restores started while the state is in order
    MaxAborts,    \* bound: crashes and exceptions
    MayCrash,     \* the process may die, and not only fail with an exception
    MaxRollovers  \* bound: rollovers left incomplete

ASSUME RestoreBounds ==
    /\ MaxBackups \in Nat /\ MaxRestores \in Nat /\ MaxAborts \in Nat
    /\ MayCrash \in BOOLEAN /\ MaxRollovers \in Nat

VARIABLES
    database,  \* facts in the live database
    paper,     \* the live paper directory
    raw,       \* raw[f]: the raw file of fact f: "none", "torn" or "whole"
    stale,     \* the incident "restore requires anomaly rescan" is open
    backups,   \* verified backups made by the operator
    safeties,  \* verified backups made by restores
    command,   \* the restore that holds the lease
    made, restores, rollovers, aborts   \* counters of the bounds

vars == <<database, paper, raw, stale, backups, safeties, command, made, restores, rollovers, aborts>>
Counters == <<made, restores, rollovers, aborts>>

NoPaper == [basis |-> {}, attempt |-> "absent"]
Idle == [pc |-> "idle"]

Live == [database |-> database, paper |-> paper, raw |-> raw]

\* No rollover of the copy is incomplete.
AttemptsClosed(copy) == copy.paper.attempt # "open"

\* The paper documents rest on facts of the database.
PaperValid(copy) == copy.paper.basis \subseteq copy.database /\ AttemptsClosed(copy)

\* Every fact can be replayed from its raw file.
RawValid(copy) == \A f \in copy.database : copy.raw[f] = "whole"

\* What the validation of a staged copy accepts.
Restorable(copy) == PaperValid(copy) /\ RawValid(copy)

\* A raw file of the backup differs from the live one of the same name.
Conflicting(copy) ==
    \E f \in Facts : copy.raw[f] # "none" /\ raw[f] # "none" /\ copy.raw[f] # raw[f]

\* A backup of an earlier installation, from before the disk was replaced.
Moved == [database |-> Facts, paper |-> [basis |-> Facts, attempt |-> "none"],
          raw |-> [f \in Facts |-> "whole"]]

Init ==
    /\ database = {} /\ raw = [f \in Facts |-> "none"]
    /\ paper = [basis |-> {}, attempt |-> "none"]
    /\ backups \in {{}, {Moved}}
    /\ stale = FALSE /\ safeties = {} /\ command = Idle
    /\ made = 0 /\ restores = 0 /\ rollovers = 0 /\ aborts = 0

------------------------------------------------------------------------------
\* Other commands, each under the lease

\* An ingest publishes the raw file and then stores the fact.
Ingest(f) ==
    /\ command = Idle /\ f \notin database /\ raw[f] # "torn"
    /\ raw' = [raw EXCEPT ![f] = "whole"]
    /\ database' = database \cup {f}
    /\ UNCHANGED <<paper, stale, backups, safeties, command, Counters>>

\* A paper command works on the present facts.
Trade ==
    /\ command = Idle /\ PaperValid(Live) /\ paper # NoPaper
    /\ paper' = [paper EXCEPT !.basis = database]
    /\ UNCHANGED <<database, raw, stale, backups, safeties, command, Counters>>

\* A forward rollover dies with its attempt incomplete, and is recovered later.
BreakRollover ==
    /\ command = Idle /\ PaperValid(Live) /\ paper # NoPaper
    /\ rollovers < MaxRollovers /\ rollovers' = rollovers + 1
    /\ paper' = [paper EXCEPT !.attempt = "open"]
    /\ UNCHANGED <<database, raw, stale, backups, safeties, command, made, restores, aborts>>

RecoverRollover ==
    /\ command = Idle /\ paper.attempt = "open"
    /\ paper' = [paper EXCEPT !.attempt = "none"]
    /\ UNCHANGED <<database, raw, stale, backups, safeties, command, Counters>>

\* The operator records an anomaly scan and resolves the incident.
Rescan ==
    /\ command = Idle /\ stale
    /\ stale' = FALSE
    /\ UNCHANGED <<database, paper, raw, backups, safeties, command, Counters>>

\* The copy is assembled aside and renamed when it is complete: a backup that
\* dies leaves none.
Backup ==
    /\ command = Idle /\ made < MaxBackups
    /\ backups' = backups \cup {Live}
    /\ made' = made + 1
    /\ UNCHANGED <<database, paper, raw, stale, safeties, command, restores, rollovers, aborts>>

------------------------------------------------------------------------------
\* Restore

At(pc) == command.pc = pc
Go(pc) == command' = [command EXCEPT !.pc = pc]

\* The state is out of order: the paper directory is lost or does not fit.
Broken == paper = NoPaper \/ ~PaperValid(Live)

\* Staging, validation and the search for conflicts change nothing live. The
\* operator restores what they choose, and a safety backup when state is broken.
StartRestore(copy) ==
    /\ command = Idle
    /\ IF Broken THEN UNCHANGED restores
       ELSE restores < MaxRestores /\ restores' = restores + 1
    /\ Restorable(copy) /\ ~Conflicting(copy)
    /\ command' = [pc |-> "safety", source |-> copy, before |-> Live, hidden |-> NoPaper]
    /\ UNCHANGED <<database, paper, raw, stale, backups, safeties, made, rollovers, aborts>>

\* The safety backup forgotten (a fault).
TakeSafety_Later ==
    /\ At("safety") /\ Go("mark")
    /\ UNCHANGED <<database, paper, raw, stale, backups, safeties, Counters>>

TakeSafety ==
    /\ At("safety") /\ Go("mark")
    /\ safeties' = safeties \cup {Live}
    /\ UNCHANGED <<database, paper, raw, stale, backups, Counters>>

MarkStale ==
    /\ At("mark") /\ Go("raw")
    /\ stale' = TRUE
    /\ UNCHANGED <<database, paper, raw, backups, safeties, Counters>>

Additions == {f \in Facts : command.source.raw[f] # "none" /\ raw[f] = "none"}

\* A missing raw file is copied under its final name ...
StartCopy(f) ==
    /\ At("raw") /\ f \in Additions
    /\ command' = [command EXCEPT !.pc = "copy"]
    /\ raw' = [raw EXCEPT ![f] = "torn"]
    /\ UNCHANGED <<database, paper, stale, backups, safeties, Counters>>

\* ... and complete when the copy ends.
FinishCopy(f) ==
    /\ At("copy") /\ raw[f] = "torn" /\ command.before.raw[f] = "none"
    /\ Go("raw")
    /\ raw' = [raw EXCEPT ![f] = command.source.raw[f]]
    /\ UNCHANGED <<database, paper, stale, backups, safeties, Counters>>

\* The swap does not wait for the raw files (a fault).
HidePaper_Early ==
    /\ At("raw")
    /\ command' = [command EXCEPT !.pc = "paper", !.hidden = paper]
    /\ paper' = NoPaper
    /\ UNCHANGED <<database, raw, stale, backups, safeties, Counters>>

\* The live paper directory is renamed away.
HidePaper ==
    /\ At("raw") /\ Additions = {}
    /\ command' = [command EXCEPT !.pc = "paper", !.hidden = paper]
    /\ paper' = NoPaper
    /\ UNCHANGED <<database, raw, stale, backups, safeties, Counters>>

InstallPaper ==
    /\ At("paper") /\ Go("database")
    /\ paper' = command.source.paper
    /\ UNCHANGED <<database, raw, stale, backups, safeties, Counters>>

SwapDatabase ==
    /\ At("database")
    /\ database' = command.source.database
    /\ command' = Idle
    /\ UNCHANGED <<paper, raw, stale, backups, safeties, Counters>>

Swapped == command.pc \in {"paper", "database"}

\* An exception: a new paper directory is moved away ...
Fail ==
    /\ command # Idle /\ ~At("undo")
    /\ aborts < MaxAborts /\ aborts' = aborts + 1
    /\ IF Swapped
       THEN Go("undo") /\ paper' = NoPaper
       ELSE command' = Idle /\ UNCHANGED paper
    /\ UNCHANGED <<database, raw, stale, backups, safeties, made, restores, rollovers>>

\* The old one is not put back (a fault).
Undo_Gone ==
    /\ At("undo")
    /\ command' = Idle
    /\ UNCHANGED <<database, paper, raw, stale, backups, safeties, Counters>>

\* ... and the old one is put back.
Undo ==
    /\ At("undo")
    /\ paper' = command.hidden
    /\ command' = Idle
    /\ UNCHANGED <<database, raw, stale, backups, safeties, Counters>>

\* The process dies: the hidden directory stays under a name nothing reads.
Crash ==
    /\ command # Idle /\ MayCrash
    /\ aborts < MaxAborts /\ aborts' = aborts + 1
    /\ command' = Idle
    /\ UNCHANGED <<database, paper, raw, stale, backups, safeties, made, restores, rollovers>>

RestoreStep ==
    \/ TakeSafety \/ MarkStale \/ HidePaper \/ InstallPaper \/ SwapDatabase \/ Undo
    \/ \E f \in Facts : StartCopy(f) \/ FinishCopy(f)

\* The way out of a broken state: a safety backup that has the paper documents.
Return == \E copy \in safeties : Broken /\ copy.paper # NoPaper /\ StartRestore(copy)

Next ==
    \/ \E f \in Facts : Ingest(f)
    \/ Trade \/ BreakRollover \/ RecoverRollover \/ Rescan \/ Backup
    \/ \E copy \in backups \cup safeties : StartRestore(copy)
    \/ RestoreStep \/ Fail \/ Crash

Spec == Init /\ [][Next]_vars

\* The process goes on unless it fails; the operator answers a broken state with
\* a safety backup.
FairSpec == Spec /\ WF_vars(RestoreStep) /\ SF_vars(Return)

------------------------------------------------------------------------------
Papers == [basis : SUBSET Facts, attempt : {"none", "open"}] \cup {NoPaper}
Copies == [database : SUBSET Facts, paper : Papers, raw : [Facts -> {"none", "torn", "whole"}]]

\* Copies are copies of live states, whose facts have whole raw files.
TypeOK ==
    /\ Live \in Copies
    /\ stale \in BOOLEAN
    /\ backups \subseteq Copies /\ safeties \subseteq Copies
    /\ \/ command = Idle
       \/ /\ command \in [pc : {"safety", "mark", "raw", "copy", "paper", "database", "undo"},
                          source : backups \cup safeties, before : Copies, hidden : Papers]
          /\ command.pc \in {"paper", "database", "undo"} => command.hidden = command.before.paper
    /\ made \in 0 .. MaxBackups /\ restores \in 0 .. MaxRestores
    /\ rollovers \in 0 .. MaxRollovers /\ aborts \in 0 .. MaxAborts

Ended == command # Idle /\ command' = Idle

\* A restore that the process survives leaves the database and the paper
\* documents together, either as they were or as the backup has them, whatever
\* step failed (the except branch of restore_local_backup).
RestoreAllOrNothing ==
    [][(Ended /\ ~(aborts' # aborts /\ command.pc \in {"undo", "paper", "database"}))
          => \/ database' = command.before.database /\ paper' = command.before.paper
             \/ database' = command.source.database /\ paper' = command.source.paper]_vars

\* What a completed restore leaves fits together, also when the backup was taken
\* from a state that a crash had mixed (_validate_staged_paper_state).
RestoredFits ==
    [][(At("database") /\ Ended /\ aborts' = aborts) => PaperValid(Live')]_vars

\* No restore replaces the database while the operations evidence passes for
\* current: the incident was opened earlier, in every order of crash and retry.
EvidenceMarked ==
    [][(command # Idle /\ database' # database) => stale]_vars

\* Whatever is restored or interrupted, every fact of the live database can be
\* replayed from raw evidence that was never overwritten or removed.
FactsReplayable == RawValid(Live)

\* From a state broken by a crash the safety backups lead back to an orderly
\* one, as long as no rollover is incomplete (see SafetyRestorable).
WayBack == <>(rollovers > 0) \/ (Broken ~> ~Broken)

\* The safety backup of an orderly state, or of one with an incomplete rollover,
\* can be restored.
SafetyRestorable == \A copy \in safeties : copy.paper.basis \subseteq copy.database => Restorable(copy)

\* Between commands no raw file is half written.
RawImmutable == command = Idle => \A f \in Facts : raw[f] # "torn"

\* Live files and backups have their types, and every live fact replays from
\* its raw file, whatever was restored or cut off (restore_local_backup).
ReplayInv == TypeOK /\ FactsReplayable

\* What a step of a restore may never do: end with database and paper of
\* different backups, with paper that rests on facts the database lacks, or
\* replace a database whose operations evidence still passes for current
\* (restore_local_backup).
RestoreSound == RestoreAllOrNothing /\ RestoredFits /\ EvidenceMarked

==============================================================================
